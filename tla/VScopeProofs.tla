---------------------------- MODULE VScopeProofs ----------------------------
(***************************************************************************)
(* The logic analyzer for every size of its buffer and of a packet, for    *)
(* every length a caller asks for and every sequence of calls: one leave   *)
(* to send at a time, the PIDs of the packets in step, the internal        *)
(* recording in its buffer, and what a read brings.  The argument for the  *)
(* last takes all that lies between the sampling timer and the caller as   *)
(* one sequence of samples (Stream), which a step puts a sample to, drops  *)
(* a part of, or only divides elsewhere.                                   *)
(***************************************************************************)
EXTENDS VScope, SequenceTheorems, TLAPS

Samples == [run : Nat, n : Int]

TypeOK ==
  /\ cells \in [0..(Depth - 1) -> Samples]
  /\ rd \in 0..(Depth - 1) /\ wr \in 0..(Depth - 1)
  /\ count \in Int /\ loaded \in Int /\ left \in Int
  /\ packet \in Seq(Samples) /\ part \in Seq(Samples) /\ got \in Seq(Samples)
  /\ togl \in {0, 1} /\ pid \in {0, 1}
  /\ armed \in [en : BOOLEAN, pid : {0, 1}, query : BOOLEAN]
  /\ run \in Nat /\ n \in Nat

-----------------------------------------------------------------------------
(* The leave and the PIDs                                                   *)

\* FIFO 1 is empty but for a packet that is sent or being filled, and none is filled
\* behind another, but for the answer to a query.
FifoInv ==
  /\ ~armed.en /\ ~Filling => packet = <<>>
  /\ Filling /\ armed.en => armed.query

LeaveInv ==
  Without({"asked", "queried"}) =>
    /\ ~(tx /\ Filling) /\ ~(tx /\ armed.en) /\ ~(tx /\ sent)
    /\ ~(Filling /\ armed.en) /\ ~(Filling /\ sent) /\ ~(armed.en /\ sent)

\* The PID the host expects next is that of the packet in the FIFO, or else of the
\* one the main loop will send.  The toggle is always that of the packet behind the
\* one it has sent.
PidInv ==
  /\ ~disturbed => IF armed.en THEN armed.pid = pid /\ togl = 1 - pid ELSE togl = pid
  /\ armed.en /\ armed.query => disturbed
  /\ armed.en /\ ~armed.query => togl = 1 - armed.pid
  /\ disturbed => ~Without({"flushed", "reopened", "queried"})

\* An internal recording has its buffer to itself.
InternalInv ==
  kind = "intern" /\ mode = "intern" /\ Without({"cut", "cancelled"}) =>
    /\ ~Filling /\ rd = 0
    /\ count = (IF n < Depth THEN n ELSE Depth) /\ wr = (IF n < Depth THEN n ELSE 0)
    /\ \A i \in 1..count : cells[i - 1] = [run |-> run, n |-> i]

-----------------------------------------------------------------------------
(* The stream of samples                                                    *)

\* The samples in the buffer, and the cell of the one that is i places behind rd.
BufLen     == IF pc \in {"load", "store"} THEN count - 1 ELSE count
Place(i)   == IF rd + i < Depth THEN rd + i ELSE rd + i - Depth
Buffered   == [i \in 1..BufLen |-> cells[Place(i - 1)]]
Live       == IF reading = "no" THEN <<>> ELSE got
Stream     == Live \o (part \o (packet \o Buffered))

\* No samples made up, and nothing left out.
Sound  == Without({"cut", "miscounted"})
Whole  == upset \subseteq {"asked"}

\* The buffer has its count right, and the main loop takes no more than is there.
BufferInv ==
  Sound =>
    /\ count \in 0..Depth
    /\ timer => wr = Place(BufLen)
    /\ pc = "get" => count >= 1 /\ left <= count
    /\ pc \in {"load", "store"} => count >= 1 /\ left <= count
    /\ pc = "store" => loaded = count

InOrder(x, y)   == x = StateByte \/ y = StateByte \/ Earlier(x, y)
Ascending(s)    == \A i, j \in 1..Len(s) : i < j => InOrder(s[i], s[j])
Ordered(s)      == Ascending(s) /\ \A i \in 1..Len(s) : s[i] # Junk
Chained(s)      == \A i \in 1..(Len(s) - 1) : s[i].run = s[i + 1].run => s[i].n + 1 = s[i + 1].n
UpTo(s, r, k)   ==
  \A i \in 1..Len(s) : s[i] # Junk /\ (s[i].run < r \/ (s[i].run = r /\ s[i].n <= k))
EndsWith(s, r, k) == Len(s) > 0 /\ s[Len(s)].run = r => s[Len(s)].n = k

StreamInv ==
  /\ reading # "poll" => part = <<>>
  /\ Sound => Ordered(got) /\ Ascending(Stream) /\ UpTo(Stream, run, n)
  /\ Whole => Chained(got) /\ Chained(Stream) /\ (timer => EndsWith(Stream, run, n))

-----------------------------------------------------------------------------
(* Types                                                                    *)

LEMMA Constants ==
  /\ Depth \in Nat \ {0} /\ Length \in Nat /\ Length > 1
BY VScopeAssumption

LEMMA NextCellType ==
  ASSUME NEW p \in 0..(Depth - 1)
  PROVE  NextCell(p) = (IF p + 1 = Depth THEN 0 ELSE p + 1)
BY VScopeAssumption DEF NextCell

LEMMA Nothing ==
  /\ <<>> \in Seq(Samples) /\ Len(<<>>) = 0 /\ Junk \in Samples /\ StateByte \in Samples
  /\ Off \in [en : BOOLEAN, pid : {0, 1}, query : BOOLEAN] /\ ~Off.en
BY DEF Samples, Junk, StateByte, Off

LEMMA TypeInit == Init => TypeOK
<1> SUFFICES ASSUME Init PROVE TypeOK
  OBVIOUS
<1>1. cells \in [0..(Depth - 1) -> Samples]
  BY Nothing DEF Init
<1>2. rd \in 0..(Depth - 1) /\ wr \in 0..(Depth - 1)
  BY Constants DEF Init
<1> QED BY <1>1, <1>2, Nothing DEF Init, TypeOK

\* The interrupts.
LEMMA TypeInterrupt == TypeOK /\ Interrupt => TypeOK'
<1> SUFFICES ASSUME TypeOK, Interrupt
             PROVE  TypeOK'
  OBVIOUS
<1>1. ASSUME NEW port \in {0, 1}, SampleTriggered(port)
      PROVE  TypeOK'
  <2>1. UNCHANGED <<fifoVars, mainVars, fifo1Vars, clientVars, history>>
    BY <1>1 DEF SampleTriggered
  <2>2. UNCHANGED <<cells, rd, wr, count, loaded, left, packet, part, got, togl, pid, armed, run, n>>
    BY <2>1 DEF fifoVars, mainVars, fifo1Vars, clientVars, history
  <2> QED BY <2>2 DEF TypeOK
<1>2. CASE Sample
  <2>1. NextCell(wr) \in 0..(Depth - 1)
    BY Constants, NextCellType DEF TypeOK
  <2>2. [run |-> run, n |-> n + 1] \in Samples
    <3>1. run \in Nat /\ n + 1 \in Int
      BY DEF TypeOK
    <3> QED BY <3>1 DEF Samples
  <2>3. /\ cells' \in [0..(Depth - 1) -> Samples] /\ wr' \in 0..(Depth - 1)
        /\ rd' \in 0..(Depth - 1) /\ count' \in Int /\ n' \in Nat
    BY SMTT(30), <1>2, <2>1, <2>2 DEF TypeOK, Sample, fifoVars
  <2> QED BY <1>2, <2>3 DEF TypeOK, Sample, modeVars, mainVars, fifo1Vars, clientVars
<1>3. CASE VScopeCommand
  <2>1. ASSUME NEW m, SetMode(m)
        PROVE  TypeOK'
    BY <2>1 DEF TypeOK, SetMode, Handle, Take, fifo1Vars, fifoVars, mainVars, clientVars
  <2>2. CASE StartScope
    BY <2>2, Constants DEF TypeOK, StartScope, Handle, Take, fifo1Vars, mainVars, clientVars
  <2>3. CASE StopScope
    BY <2>3 DEF TypeOK, StopScope, Handle, Take, fifo1Vars, mainVars, clientVars
  <2>4. CASE GetData
    BY <2>4 DEF TypeOK, GetData, Handle, Take, fifo1Vars, fifoVars, modeVars, mainVars, clientVars
  <2>5. ASSUME NEW t, SetTrigger(t)
        PROVE  TypeOK'
    BY <2>5 DEF TypeOK, SetTrigger, Handle, Take, fifo1Vars, fifoVars, modeVars, mainVars, clientVars
  <2>6. CASE GetState
    <3>1. packet' \in Seq(Samples)
      BY <2>6, Nothing DEF GetState
    <3>2. armed' \in [en : BOOLEAN, pid : {0, 1}, query : BOOLEAN]
      BY <2>6 DEF GetState
    <3> QED BY <2>6, <3>1, <3>2
           DEF TypeOK, GetState, Take, fifoVars, modeVars, mainVars, clientVars
  <2> QED BY <1>3, <2>1, <2>2, <2>3, <2>4, <2>5, <2>6 DEF VScopeCommand
<1>4. CASE PingPong
  BY <1>4 DEF TypeOK, PingPong, fifoVars, modeVars, mainVars, fifo1Vars, clientVars, history
<1> QED BY <1>1, <1>2, <1>3, <1>4 DEF Interrupt

\* The main loop.
LEMMA TypeMain == TypeOK /\ Main => TypeOK'
<1> SUFFICES ASSUME TypeOK, Main
             PROVE  TypeOK'
  OBVIOUS
<1> USE DEF At, clientVars
<1>1. CASE Top \/ StopState \/ StopTimer \/ ToLogic
  BY <1>1 DEF TypeOK, Top, StopState, StopTimer, ToLogic, modeVars, packetVars
<1>2. CASE Check
  <2>1. UNCHANGED <<cells, rd, wr, count, loaded, togl, part, got, pid, run, n>>
    BY <1>2 DEF Check, Begin, NotYet, packetVars
  <2>2. left' \in Int /\ packet' \in {packet, <<>>} /\ armed' \in {armed, Off}
    BY <1>2 DEF TypeOK, Check, Begin, NotYet, packetVars
  <2> QED BY <2>1, <2>2, Nothing DEF TypeOK
<1>3. CASE Get
  <2>1. NextCell(rd) \in 0..(Depth - 1) /\ cells[rd] \in Samples
    BY Constants, NextCellType DEF TypeOK
  <2>2. packet' \in Seq(Samples)
    BY <1>3, <2>1, Nothing, AppendProperties DEF TypeOK, Get
  <2>3. rd' \in 0..(Depth - 1) /\ left' \in Int
    BY <1>3, <2>1 DEF TypeOK, Get, NextGet
  <2> QED BY <1>3, <2>2, <2>3 DEF TypeOK, Get, modeVars
<1>4. CASE LoadCount
  BY <1>4 DEF TypeOK, LoadCount, modeVars
<1>5. CASE StoreCount
  BY <1>5 DEF TypeOK, StoreCount, NextGet, modeVars
<1>6. CASE Room
  <2>1. left' \in Int
    BY <1>6, VScopeAssumption DEF TypeOK, Room
  <2> QED BY <1>6, <2>1 DEF TypeOK, Room, modeVars
<1>7. CASE Send
  BY <1>7 DEF TypeOK, Send, modeVars
<1> QED BY <1>1, <1>2, <1>3, <1>4, <1>5, <1>6, <1>7 DEF Main

\* What EndBulkRead keeps.
LEMMA EndBulkReadKeeps ==
  ASSUME TypeOK, NEW data \in Seq(Samples), EndBulkRead(data)
  PROVE  /\ got \o data \in Seq(Samples)
         /\ got' = SubSeq(got \o data, 1, Len(got')) /\ Len(got') \in 0..Len(got \o data)
         /\ got' \in Seq(Samples) /\ part' = <<>>
         /\ \A i \in 1..Len(got') : got'[i] = (got \o data)[i]
         /\ reading' \in {"no", "ask"}
         /\ reading' = "ask" => got' = got \o data
<1> DEFINE all == got \o data
           most == IF Len(all) < Length THEN Len(all) ELSE Length
<1>1. all \in Seq(Samples) /\ Len(all) \in Nat
  BY ConcatProperties, LenProperties DEF TypeOK
<1>2. \A i \in 1..Len(all) : all[i] \in Samples
  BY <1>1, ElementOfSeq
<1>3. most \in Nat /\ most <= Len(all) /\ (most < Length - 1 => most = Len(all))
  BY <1>1, Constants
<1>4. got' = SubSeq(all, 1, most) /\ part' = <<>>
  BY DEF EndBulkRead
<1>5. /\ got' \in Seq(Samples) /\ Len(got') = most
      /\ \A i \in 1..most : got'[i] = all[i]
  <2> HIDE DEF all, most
  <2>1. \A i \in 1..most : all[i] \in Samples
    BY <1>1, <1>2, <1>3
  <2>2. /\ SubSeq(all, 1, most) \in Seq(Samples)
        /\ Len(SubSeq(all, 1, most)) = IF 1 <= most THEN most - 1 + 1 ELSE 0
        /\ \A i \in 1..(most - 1 + 1) : SubSeq(all, 1, most)[i] = all[1 + i - 1]
    BY <1>3, <2>1, SubSeqProperties
  <2> QED BY <1>3, <1>4, <2>2
<1>6. reading' = (IF Len(got') >= Length - 1 THEN "no" ELSE "ask")
  BY DEF EndBulkRead
<1>7. reading' = "ask" => got' = all
  <2> HIDE DEF all, most
  <2> QED BY <1>1, <1>3, <1>4, <1>5, <1>6, Constants, SubSeqFull
<1> QED BY <1>1, <1>3, <1>4, <1>5, <1>6, <1>7

\* The client library.
LEMMA TypeClient == TypeOK /\ Client => TypeOK'
<1> SUFFICES ASSUME TypeOK, Client
             PROVE  TypeOK'
  OBVIOUS
<1> USE DEF deviceVars, fifo1Vars, fifoVars, modeVars, mainVars
<1>1. ASSUME NEW c, Call(c)
      PROVE  TypeOK'
  BY <1>1 DEF TypeOK, Call, history
<1>2. CASE Open
  <2> QED BY <1>2, Nothing DEF TypeOK, Open
<1>3. CASE SendCommand
  BY <1>3 DEF TypeOK, SendCommand, history
<1>4. CASE BeginRead \/ Ask
  BY <1>4, Nothing DEF TypeOK, BeginRead, Ask, history
<1>5. CASE In
  <2>1. part \o packet \in Seq(Samples)
    BY ConcatProperties DEF TypeOK
  <2>2. part' \in Seq(Samples) /\ got' \in Seq(Samples) /\ pid' \in {0, 1}
    <3>1. CASE armed.pid # pid
      BY <1>5, <3>1 DEF TypeOK, In
    <3>2. CASE armed.pid = pid /\ EndBulkRead(part \o packet)
      <4>1. got' \in Seq(Samples) /\ part' = <<>>
        BY <2>1, <3>2, EndBulkReadKeeps
      <4>2. pid' = 1 - pid
        BY <1>5, <3>2 DEF In
      <4> QED BY <4>1, <4>2, Nothing DEF TypeOK
    <3>3. CASE armed.pid = pid /\ part' = part \o packet /\ got' = got
      BY <1>5, <2>1, <3>3 DEF TypeOK, In
    <3> QED BY <1>5, <3>1, <3>2, <3>3 DEF In
  <2> QED BY <1>5, <2>2, Nothing DEF TypeOK, In, history
<1>6. CASE Timeout
  BY <1>6, Nothing DEF TypeOK, Timeout
<1> QED BY <1>1, <1>2, <1>3, <1>4, <1>5, <1>6 DEF Client

LEMMA TypeStep == TypeOK /\ [Next]_vars => TypeOK'
<1>1. TypeOK /\ UNCHANGED vars => TypeOK'
  BY DEF TypeOK, vars, fifoVars, modeVars, mainVars, fifo1Vars, clientVars, history
<1> QED BY <1>1, TypeInterrupt, TypeMain, TypeClient DEF Next

-----------------------------------------------------------------------------
(* The leave, the PIDs and the internal recording                           *)

\* What went wrong stays gone wrong.
LEMMA UpsetGrows == [Next]_vars => upset \subseteq upset'
<1>1. Interrupt => upset \subseteq upset'
  BY DEF Interrupt, SampleTriggered, Sample, VScopeCommand, SetMode, StartScope, StopScope,
         GetData, GetState, SetTrigger, PingPong, Upset, history
<1>2. Main => upset \subseteq upset'
  BY DEF Main, Top, StopState, StopTimer, ToLogic, Check, Begin, NotYet, Get, LoadCount,
         StoreCount, Room, Send, packetVars, Upset
<1>3. Client => upset \subseteq upset'
  BY DEF Client, Call, Open, SendCommand, BeginRead, Ask, In, Timeout, Upset, history
<1> QED BY <1>1, <1>2, <1>3 DEF Next, vars, history

LEMMA FifoStep == TypeOK /\ FifoInv /\ [Next]_vars => FifoInv'
<1> SUFFICES ASSUME TypeOK, FifoInv, [Next]_vars
             PROVE  FifoInv'
  OBVIOUS
<1> USE DEF FifoInv, Filling
<1>1. CASE UNCHANGED vars
  BY <1>1 DEF vars, mainVars, fifo1Vars
<1>2. CASE GetState
  <2>1. armed'.en /\ armed'.query
    BY <1>2 DEF GetState
  <2> QED BY <2>1
<1>3. CASE Interrupt /\ ~GetState
  BY <1>3 DEF Interrupt, SampleTriggered, Sample, VScopeCommand, SetMode, StartScope,
              StopScope, GetData, SetTrigger, PingPong, Handle, Take, fifo1Vars, mainVars
<1>4. CASE Top \/ StopState \/ StopTimer \/ ToLogic
  BY <1>4 DEF Top, StopState, StopTimer, ToLogic, At, packetVars
<1>5. CASE Check
  BY <1>5, Nothing DEF Check, Begin, NotYet, At, packetVars
<1>6. CASE Get \/ LoadCount \/ StoreCount \/ Room
  <2>1. armed' = armed /\ Filling /\ Filling'
    BY <1>6 DEF Get, LoadCount, StoreCount, Room, NextGet, At
  <2> QED BY <2>1
<1>7. CASE Send
  <2>1. armed'.en = TRUE /\ pc' = "top"
    BY <1>7 DEF Send, At
  <2> QED BY <2>1
<1>8. CASE Client
  BY <1>8, Nothing DEF Client, Call, Open, SendCommand, BeginRead, Ask, In, Timeout,
                       deviceVars, fifo1Vars, mainVars
<1> QED BY <1>1, <1>2, <1>3, <1>4, <1>5, <1>6, <1>7, <1>8 DEF Next, Main

\* A packet flushed, a configuration set while the main loop's toggle is 1, and the
\* answer to a query may put the PIDs out of step; a packet of the main loop, sent and
\* then taken or dropped by the host, brings them back.
LEMMA PidStep == TypeOK /\ FifoInv /\ PidInv /\ [Next]_vars => PidInv'
<1> SUFFICES ASSUME TypeOK, FifoInv, PidInv, [Next]_vars
             PROVE  PidInv'
  OBVIOUS
<1>1. /\ ~disturbed => IF armed.en THEN armed.pid = pid /\ togl = 1 - pid ELSE togl = pid
      /\ armed.en /\ armed.query => disturbed
      /\ armed.en /\ ~armed.query => togl = 1 - armed.pid
      /\ disturbed => ~Without({"flushed", "reopened", "queried"})'
  BY UpsetGrows DEF PidInv, Without
<1>2. CASE UNCHANGED <<armed, pid, togl, disturbed>>
  BY <1>1, <1>2 DEF PidInv
<1>3. CASE GetState
  <2>1. /\ armed'.en /\ armed'.query /\ disturbed'
        /\ "queried" \in upset'
    BY <1>3 DEF GetState, Upset
  <2> QED BY <2>1 DEF PidInv, Without
<1>4. CASE Check
  <2>1. CASE UNCHANGED <<armed, disturbed>>
    BY <1>1, <1>2, <1>4, <2>1 DEF Check, Begin, NotYet, At, clientVars, packetVars
  <2>2. CASE Begin
    <3>1. /\ armed' = Off /\ togl' = togl /\ pid' = pid
          /\ disturbed' = (disturbed \/ armed.en) /\ (armed.en => "flushed" \in upset')
      BY <1>4, <2>2 DEF Begin, Upset, Check, At, clientVars
    <3> QED BY <1>1, <3>1, Nothing DEF PidInv, Without
  <2> QED BY <1>4, <2>1, <2>2 DEF Check, NotYet, packetVars
<1>5. CASE Send
  <2>1. armed.en => disturbed
    BY <1>1, <1>5 DEF FifoInv, Filling, Send, At
  <2>2. /\ armed'.en /\ ~armed'.query /\ armed'.pid = togl /\ togl' = 1 - togl
        /\ pid' = pid /\ disturbed' = disturbed
    BY <1>5 DEF Send, At, clientVars
  <2> QED BY <1>1, <2>1, <2>2 DEF PidInv
<1>6. CASE Open
  <2>1. /\ armed' = Off /\ pid' = 0 /\ togl' = togl /\ disturbed' = (togl # 0)
        /\ (togl # 0 => "reopened" \in upset')
    BY <1>6 DEF Open, Upset, deviceVars, mainVars
  <2> QED BY <2>1, Nothing DEF PidInv, Without
<1>7. CASE In
  <2>1. /\ armed.en /\ armed' = Off /\ togl' = togl
        /\ disturbed' = (disturbed /\ armed.query)
        /\ pid' = IF armed.pid # pid THEN pid ELSE 1 - pid
    BY <1>7 DEF In, mainVars
  <2>2. ~armed.query => togl' = pid'
    BY <1>1, <2>1 DEF TypeOK
  <2>3. armed.query => disturbed'
    BY <1>1, <2>1
  <2> QED BY <1>1, <2>1, <2>2, <2>3, Nothing DEF PidInv
<1>8. (Interrupt /\ ~GetState) \/ (Client /\ ~Open /\ ~In)
        => UNCHANGED <<armed, pid, togl, disturbed>>
  BY DEF Interrupt, SampleTriggered, Sample, VScopeCommand, SetMode, StartScope, StopScope,
         GetData, SetTrigger, PingPong, Handle, Take, fifo1Vars, Client, Call, SendCommand,
         BeginRead, Ask, Timeout, deviceVars, mainVars, clientVars, history
<1>9. Main /\ ~Check /\ ~Send => UNCHANGED <<armed, pid, togl, disturbed>>
  BY DEF Main, Top, StopState, StopTimer, ToLogic, Get, LoadCount, StoreCount, Room, At,
         packetVars, clientVars
<1>10. UNCHANGED vars => UNCHANGED <<armed, pid, togl, disturbed>>
  BY DEF vars, mainVars, fifo1Vars, clientVars, history
<1> QED BY <1>2, <1>3, <1>4, <1>5, <1>6, <1>7, <1>8, <1>9, <1>10 DEF Next

LEMMA LeaveStep == FifoInv /\ LeaveInv /\ [Next]_vars => LeaveInv'
<1> SUFFICES ASSUME FifoInv, LeaveInv, [Next]_vars, Without({"asked", "queried"})'
             PROVE  (/\ ~(tx /\ Filling) /\ ~(tx /\ armed.en) /\ ~(tx /\ sent)
                     /\ ~(Filling /\ armed.en) /\ ~(Filling /\ sent) /\ ~(armed.en /\ sent))'
  BY DEF LeaveInv
<1>1. /\ ~(tx /\ Filling) /\ ~(tx /\ armed.en) /\ ~(tx /\ sent)
      /\ ~(Filling /\ armed.en) /\ ~(Filling /\ sent) /\ ~(armed.en /\ sent)
      /\ "asked" \notin upset' /\ "queried" \notin upset'
  BY UpsetGrows DEF LeaveInv, Without
<1>2. ASSUME UNCHANGED <<tx, pc, armed, sent>>
      PROVE  (/\ ~(tx /\ Filling) /\ ~(tx /\ armed.en) /\ ~(tx /\ sent)
              /\ ~(Filling /\ armed.en) /\ ~(Filling /\ sent) /\ ~(armed.en /\ sent))'
  BY <1>1, <1>2 DEF Filling
<1>3. CASE GetData
  <2>1. ~armed.en /\ ~sent /\ ~Filling /\ UNCHANGED <<pc, armed, sent>>
    BY <1>1, <1>3 DEF GetData, Upset, Handle, Take, fifo1Vars, mainVars
  <2> QED BY <2>1 DEF Filling
<1>4. CASE PingPong
  BY <1>1, <1>4 DEF PingPong, mainVars, fifo1Vars, Filling
<1>5. Interrupt /\ ~GetData /\ ~PingPong => UNCHANGED <<tx, pc, armed, sent>>
  BY <1>1 DEF GetState, Upset, Interrupt, SampleTriggered, Sample, VScopeCommand, SetMode, StartScope, StopScope,
         SetTrigger, Handle, Take, fifo1Vars, mainVars
<1>6. CASE Top \/ StopState \/ StopTimer \/ ToLogic
  <2>1. UNCHANGED <<tx, armed, sent>> /\ ~Filling /\ ~Filling'
    BY <1>6 DEF Top, StopState, StopTimer, ToLogic, At, packetVars, Filling
  <2> QED BY <1>1, <2>1
<1>7. CASE Check
  <2>1. CASE NotYet
    BY <1>1, <1>7, <2>1 DEF Check, At, NotYet, packetVars, Filling
  <2>2. CASE Begin /\ tx /\ tx' = FALSE
    <3>1. ~tx' /\ sent' = sent /\ armed' = Off
      BY <1>7, <2>2 DEF Check, At, Begin
    <3> QED BY <1>1, <2>2, <3>1, Nothing
  <2> QED BY <1>7, <2>1, <2>2 DEF Check
<1>8. CASE Get \/ LoadCount \/ StoreCount \/ Room
  <2>1. UNCHANGED <<tx, armed, sent>> /\ Filling
    BY <1>8 DEF Get, LoadCount, StoreCount, Room, At, Filling
  <2> QED BY <1>1, <2>1
<1>9. CASE Send
  <2>1. UNCHANGED <<tx, sent>> /\ Filling /\ ~Filling'
    BY <1>9 DEF Send, At, Filling
  <2> QED BY <1>1, <2>1
<1>10. CASE Open
  <2>1. UNCHANGED <<tx, pc, sent>> /\ ~armed'.en
    BY <1>10, Nothing DEF Open, deviceVars, mainVars
  <2> QED BY <1>1, <2>1 DEF Filling
<1>11. CASE In
  <2>1. UNCHANGED <<tx, pc>> /\ armed.en /\ ~armed'.en
    BY <1>11, Nothing DEF In, mainVars
  <2> QED BY <1>1, <2>1 DEF Filling
<1>12. Client /\ ~Open /\ ~In => UNCHANGED <<tx, pc, armed, sent>>
  BY DEF Client, Call, SendCommand, BeginRead, Ask, Timeout, deviceVars, fifo1Vars, mainVars
<1>13. UNCHANGED vars => UNCHANGED <<tx, pc, armed, sent>>
  BY DEF vars, mainVars, fifo1Vars
<1> QED BY <1>2, <1>3, <1>4, <1>5, <1>6, <1>7, <1>8, <1>9, <1>10, <1>11, <1>12, <1>13
        DEF Next, Main

\* A recording in the buffer is left by the end of it, by a command and by nothing
\* else: the main loop does not read the buffer in this mode.
LEMMA InternalStep == TypeOK /\ InternalInv /\ [Next]_vars => InternalInv'
<1> SUFFICES ASSUME TypeOK, InternalInv, [Next]_vars,
                    kind' = "intern", mode' = "intern", Without({"cut", "cancelled"})'
             PROVE  (/\ ~Filling /\ rd = 0
                     /\ count = (IF n < Depth THEN n ELSE Depth)
                     /\ wr = (IF n < Depth THEN n ELSE 0)
                     /\ \A i \in 1..count : cells[i - 1] = [run |-> run, n |-> i])'
  BY DEF InternalInv
<1>1. "cut" \notin upset' /\ "cancelled" \notin upset' /\ Without({"cut", "cancelled"})
  BY UpsetGrows DEF Without
<1>2. ASSUME kind = "intern", mode = "intern"
      PROVE  /\ ~Filling /\ rd = 0
             /\ count = (IF n < Depth THEN n ELSE Depth) /\ wr = (IF n < Depth THEN n ELSE 0)
             /\ \A i \in 1..count : cells[i - 1] = [run |-> run, n |-> i]
  BY <1>1, <1>2 DEF InternalInv
<1>3. CASE UNCHANGED <<kind, mode, rd, wr, count, cells, n, run>> /\ (Filling' => Filling)
  BY <1>2, <1>3
<1>4. CASE Sample
  <2>1. /\ kind = "intern" /\ mode = "intern" /\ run' = run /\ n' = n + 1 /\ pc' = pc
        /\ n \in Nat /\ Depth \in Nat \ {0}
    BY <1>4, Constants DEF Sample, modeVars, mainVars, TypeOK
  <2>2. CASE count >= Depth
    <3>1. UNCHANGED <<cells, rd, wr, count>>
      BY <1>4, <2>2 DEF Sample, fifoVars
    <3>2. n >= Depth
      BY <1>2, <2>1, <2>2
    <3> QED BY <1>2, <2>1, <3>1, <3>2 DEF Filling
  <2>3. CASE ~(count >= Depth)
    <3>1. n < Depth /\ count = n /\ wr = n /\ n \in 0..(Depth - 1) /\ rd = 0 /\ ~Filling
      BY <1>2, <2>1, <2>3
    <3>2. /\ cells' = [cells EXCEPT ![n] = [run |-> run, n |-> n + 1]]
          /\ wr' = NextCell(n) /\ count' = n + 1 /\ rd' = 0
      BY <1>4, <2>3, <3>1 DEF Sample
    <3>3. wr' = IF n + 1 < Depth THEN n + 1 ELSE 0
      BY <2>1, <3>1, <3>2, NextCellType
    <3>4. \A i \in 1..(n + 1) : cells'[i - 1] = [run |-> run, n |-> i]
      <4>1. \A i \in 1..n : cells[i - 1] = [run |-> run, n |-> i]
        BY <1>2, <2>1, <3>1
      <4> SUFFICES ASSUME NEW i \in 1..(n + 1)
                   PROVE  cells'[i - 1] = [run |-> run, n |-> i]
        OBVIOUS
      <4>2. i - 1 \in 0..(Depth - 1)
        BY <2>1, <3>1
      <4>3. CASE i = n + 1
        BY <2>1, <3>1, <3>2, <4>3 DEF TypeOK
      <4>4. CASE i # n + 1
        <5>1. i \in 1..n /\ i - 1 # n
          BY <2>1, <4>4
        <5> QED BY <3>2, <4>1, <4>2, <5>1 DEF TypeOK
      <4> QED BY <4>3, <4>4
    <3>5. /\ ~Filling' /\ rd' = 0 /\ count' = (IF n' < Depth THEN n' ELSE Depth)
          /\ wr' = (IF n' < Depth THEN n' ELSE 0)
      BY <2>1, <3>1, <3>2, <3>3 DEF Filling
    <3>6. \A i \in 1..count' : cells'[i - 1] = [run |-> run', n |-> i]
      BY <2>1, <3>2, <3>4
    <3> QED BY <3>5, <3>6
  <2> QED BY <2>2, <2>3
<1>5. CASE StartScope
  <2>1. ~Filling
    BY <1>1, <1>5 DEF StartScope, Upset
  <2>2. rd' = 0 /\ wr' = 0 /\ count' = 0 /\ n' = 0 /\ pc' = pc
    BY <1>5 DEF StartScope, Handle, Take, fifo1Vars, mainVars
  <2> QED BY <2>1, <2>2, Constants DEF Filling
<1>6. CASE StopScope \/ (\E m \in {"logic", "intern"} : SetMode(m))
  BY <1>6 DEF StopScope, SetMode
<1>7. CASE Check
  <2>1. ~Filling'
    <3>1. kind = "intern" /\ mode = "intern"
      BY <1>7 DEF Check, At, Begin, NotYet, modeVars
    <3>2. NotYet
      BY <1>7, <3>1 DEF Check
    <3> QED BY <3>2 DEF NotYet, Filling
  <2> QED BY <1>3, <1>7, <2>1 DEF Check, At, Begin, NotYet, modeVars
<1>8. CASE Get \/ LoadCount \/ StoreCount \/ Room \/ Send
  <2>1. Filling /\ kind = "intern" /\ mode = "intern"
    BY <1>8 DEF Get, LoadCount, StoreCount, Room, Send, At, Filling, modeVars
  <2> QED BY <1>2, <2>1
<1>9. CASE ToLogic
  BY <1>9 DEF ToLogic
<1>10. CASE Top \/ StopState \/ StopTimer
  BY <1>3, <1>10 DEF Top, StopState, StopTimer, At, Filling, modeVars
<1>11. ASSUME Interrupt, ~Sample, ~StartScope, ~StopScope, ~(\E m \in {"logic", "intern"} : SetMode(m))
       PROVE  UNCHANGED <<kind, mode, rd, wr, count, cells, n, run>> /\ (Filling' => Filling)
  BY <1>11 DEF Interrupt, SampleTriggered, VScopeCommand, GetData, GetState, SetTrigger, PingPong, Handle, Take, fifo1Vars,
               Filling, mainVars, modeVars, fifoVars, history
<1>12. ASSUME Client
       PROVE  UNCHANGED <<kind, mode, rd, wr, count, cells, n, run>> /\ (Filling' => Filling)
  BY <1>12 DEF Client, Call, Open, SendCommand, BeginRead, Ask, In, Timeout, deviceVars, fifo1Vars,
               Filling, mainVars, modeVars, fifoVars, history
<1>13. ASSUME UNCHANGED vars
       PROVE  UNCHANGED <<kind, mode, rd, wr, count, cells, n, run>> /\ (Filling' => Filling)
  BY <1>13 DEF vars, Filling, mainVars, modeVars, fifoVars, history
<1> QED BY <1>3, <1>4, <1>5, <1>6, <1>7, <1>8, <1>9, <1>10, <1>11, <1>12, <1>13
        DEF Next, Main

FirstInv == TypeOK /\ FifoInv /\ LeaveInv /\ PidInv /\ InternalInv

LEMMA FirstInit == Init => FirstInv
<1> SUFFICES ASSUME Init PROVE FirstInv
  OBVIOUS
<1>1. /\ ~Filling /\ armed = Off /\ packet = <<>> /\ pid = 0 /\ togl = 0 /\ sent = FALSE
      /\ kind = "none" /\ disturbed = FALSE
  BY DEF Init, Filling
<1>2. FifoInv /\ PidInv
  BY <1>1, Nothing DEF FifoInv, PidInv
<1>3. LeaveInv
  BY <1>1, Nothing DEF LeaveInv
<1> QED BY <1>1, <1>2, <1>3, TypeInit DEF FirstInv, InternalInv

LEMMA FirstStep == FirstInv /\ [Next]_vars => FirstInv'
BY TypeStep, FifoStep, LeaveStep, PidStep, InternalStep DEF FirstInv

\* There is one leave to send, whoever holds it: so no packet is flushed before the
\* host has read it.  This is until a GETDATA comes too early or the state is queried,
\* either of which makes a second one.
THEOREM LeaveIsOne == Spec => []OneLeave
<1>1. FirstInv => OneLeave
  <2> SUFFICES ASSUME FirstInv, Without({"asked", "queried"}),
                      NEW a \in {"tx", "filling", "armed", "sent"},
                      NEW b \in {"tx", "filling", "armed", "sent"}, a # b,
                      LET held == [tx |-> tx, filling |-> Filling, armed |-> armed.en,
                                   sent |-> sent]
                      IN held[a] /\ held[b]
               PROVE  FALSE
    BY DEF OneLeave
  <2>1. /\ ~(tx /\ Filling) /\ ~(tx /\ armed.en) /\ ~(tx /\ sent)
        /\ ~(Filling /\ armed.en) /\ ~(Filling /\ sent) /\ ~(armed.en /\ sent)
    BY DEF FirstInv, LeaveInv
  <2> QED BY <2>1
<1> QED BY <1>1, FirstInit, FirstStep, PTL DEF Spec

\* A packet has the PID the host expects, but for one after each packet flushed, each
\* configuration set while the main loop's toggle is 1 and each answer to a query.
THEOREM PidsInStep == Spec => []PidInStep
<1>1. FirstInv => PidInStep
  BY DEF FirstInv, PidInv, PidInStep
<1> QED BY <1>1, FirstInit, FirstStep, PTL DEF Spec

\* While an internal recording runs the buffer is its beginning, whatever the client
\* and the main loop do meanwhile.
THEOREM InternalIsGapless == Spec => []InternalGapless
<1>1. FirstInv => InternalGapless
  BY DEF FirstInv, InternalInv, InternalGapless
<1> QED BY <1>1, FirstInit, FirstStep, PTL DEF Spec

-----------------------------------------------------------------------------
(* The buffer                                                               *)

LEMMA SoundStays ==
  ASSUME [Next]_vars, Sound'
  PROVE  Sound /\ "cut" \notin upset' /\ "miscounted" \notin upset'
BY UpsetGrows DEF Sound, Without

\* The place behind another.
LEMMA Places ==
  ASSUME TypeOK, NEW k \in 0..(Depth - 1)
  PROVE  /\ Place(k) \in 0..(Depth - 1) /\ Place(k + 1) = NextCell(Place(k))
         /\ Place(0) = rd /\ Place(Depth) = rd
         /\ \A i \in 0..(k - 1) : Place(i) # Place(k)
<1>1. rd \in 0..(Depth - 1) /\ Depth \in Nat \ {0}
  BY Constants DEF TypeOK
<1>2. Place(k) \in 0..(Depth - 1)
  BY <1>1 DEF Place
<1>3. NextCell(Place(k)) = (IF Place(k) + 1 = Depth THEN 0 ELSE Place(k) + 1)
  BY <1>2, NextCellType
<1> QED BY <1>1, <1>2, <1>3 DEF Place

\* The place behind rd is the first one when rd has moved on.
LEMMA PlaceMoves ==
  ASSUME TypeOK, rd' = NextCell(rd), NEW k \in 0..(Depth - 1)
  PROVE  Place(k)' = Place(k + 1)
<1>1. rd \in 0..(Depth - 1) /\ Depth \in Nat \ {0}
  BY Constants DEF TypeOK
<1>2. rd' = (IF rd + 1 = Depth THEN 0 ELSE rd + 1)
  BY <1>1, NextCellType
<1> QED BY <1>1, <1>2 DEF Place

bufferVars == <<rd, wr, count, timer, pc, left, loaded>>

LEMMA BufferStep == TypeOK /\ BufferInv /\ [Next]_vars => BufferInv'
<1> SUFFICES ASSUME TypeOK, BufferInv, [Next]_vars, Sound'
             PROVE  (/\ count \in 0..Depth
                     /\ timer => wr = Place(BufLen)
                     /\ pc = "get" => count >= 1 /\ left <= count
                     /\ pc \in {"load", "store"} => count >= 1 /\ left <= count
                     /\ pc = "store" => loaded = count)'
  BY DEF BufferInv
<1>1. /\ count \in 0..Depth
      /\ timer => wr = Place(BufLen)
      /\ pc = "get" => count >= 1 /\ left <= count
      /\ pc \in {"load", "store"} => count >= 1 /\ left <= count
      /\ pc = "store" => loaded = count
      /\ "cut" \notin upset' /\ "miscounted" \notin upset'
  BY SoundStays DEF BufferInv
<1>2. /\ rd \in 0..(Depth - 1) /\ wr \in 0..(Depth - 1) /\ left \in Int /\ loaded \in Int
      /\ Depth \in Nat \ {0} /\ PacketSize \in Nat \ {0}
  BY VScopeAssumption DEF TypeOK
<1>3. CASE UNCHANGED bufferVars
  BY <1>1, <1>3 DEF bufferVars, Place, BufLen
<1>4. CASE Sample
  <2>1. pc # "store" /\ timer /\ UNCHANGED <<timer, pc, left, loaded, rd>>
    BY <1>1, <1>4 DEF Sample, modeVars, mainVars, Upset, fifoVars
  <2>2. CASE count >= Depth
    BY <1>1, <1>3, <1>4, <2>1, <2>2 DEF Sample, fifoVars, bufferVars
  <2>3. CASE ~(count >= Depth)
    <3>1. wr' = NextCell(wr) /\ count' = count + 1
      BY <1>4, <2>3 DEF Sample
    <3>2. BufLen \in 0..(Depth - 1) /\ BufLen' = BufLen + 1
      BY <1>1, <1>2, <2>1, <2>3, <3>1 DEF BufLen
    <3>3. wr' = Place(BufLen + 1)
      BY <1>1, <2>1, <3>1, <3>2, Places
    <3>4. wr' = Place(BufLen)'
      BY <2>1, <3>2, <3>3 DEF Place
    <3> QED BY <1>1, <1>2, <2>1, <2>3, <3>1, <3>4
  <2> QED BY <2>2, <2>3
<1>5. CASE StartScope
  <2>1. ~Filling /\ rd' = 0 /\ wr' = 0 /\ count' = 0 /\ pc' = pc
    BY <1>1, <1>5 DEF StartScope, Upset, Handle, Take, fifo1Vars, mainVars
  <2> QED BY <1>2, <2>1 DEF Filling, Place, BufLen
<1>6. CASE StopScope
  <2>1. ~Filling /\ timer' = FALSE /\ count' = 0 /\ pc' = pc
    BY <1>1, <1>6 DEF StopScope, Upset, Handle, Take, fifo1Vars, mainVars
  <2> QED BY <1>2, <2>1 DEF Filling
<1>7. CASE StopTimer
  <2>1. timer' = FALSE /\ count' = count /\ pc' = "tologic"
    BY <1>7 DEF StopTimer, At
  <2> QED BY <1>1, <2>1
<1>8. CASE Top \/ StopState \/ ToLogic
  <2>1. /\ UNCHANGED <<rd, wr, count, timer>>
        /\ pc \notin {"get", "load", "store"} /\ pc' \notin {"get", "load", "store"}
    BY <1>8 DEF Top, StopState, ToLogic, At, modeVars
  <2> QED BY <1>1, <2>1 DEF Place, BufLen
<1>9. CASE Check
  <2>1. /\ UNCHANGED <<rd, wr, count, timer>> /\ pc = "check"
        /\ pc' = "top" \/ (pc' = "get" /\ left' = 0 /\ count > 0)
    BY <1>9 DEF Check, Begin, NotYet, At, modeVars
  <2> QED BY <1>1, <2>1 DEF Place, BufLen
<1>10. CASE Get
  <2>1. /\ rd' = NextCell(rd) /\ pc = "get" /\ pc' = "load"
        /\ UNCHANGED <<wr, count, timer, left, loaded>>
    BY <1>1, <1>10 DEF Get, At, modeVars
  <2>2. BufLen = count /\ BufLen' = count - 1 /\ count - 1 \in 0..(Depth - 1)
    BY <1>1, <1>2, <2>1 DEF BufLen
  <2>3. Place(count - 1)' = Place(count - 1 + 1)
    BY <2>1, <2>2, PlaceMoves
  <2>4. Place(count - 1 + 1) = Place(count)
    BY <1>1 DEF Place
  <2>5. Place(BufLen)' = Place(count)
    BY <2>1, <2>2, <2>3, <2>4 DEF Place
  <2> QED BY <1>1, <2>1, <2>2, <2>5
<1>11. CASE LoadCount
  <2>1. /\ pc = "load" /\ pc' = "store" /\ loaded' = count
        /\ UNCHANGED <<rd, wr, count, timer, left>>
    BY <1>11 DEF LoadCount, At, modeVars
  <2> QED BY <1>1, <2>1 DEF Place, BufLen
<1>12. CASE StoreCount
  <2>1. /\ pc = "store" /\ count' = count - 1 /\ UNCHANGED <<rd, wr, timer, loaded>>
        /\ pc' \in {"room", "get", "send"} /\ (pc' = "get" => left > 1 /\ left' = left - 1)
    BY <1>1, <1>12 DEF StoreCount, NextGet, At, modeVars
  <2>2. BufLen' = BufLen /\ BufLen = count - 1
    BY <2>1 DEF BufLen
  <2>3. timer' => wr' = Place(BufLen)'
    BY <1>1, <2>1, <2>2 DEF Place
  <2> QED BY <1>1, <1>2, <2>1, <2>3
<1>13. CASE Room
  <2>1. /\ pc = "room" /\ UNCHANGED <<rd, wr, count, timer, loaded>>
        /\ left' <= count /\ left' \in Int
        /\ pc' = "send" \/ (pc' = "get" /\ left' > 0)
    BY <1>1, <1>2, <1>13 DEF Room, At, modeVars
  <2> QED BY <1>1, <2>1 DEF Place, BufLen
<1>14. CASE Send
  <2>1. pc = "send" /\ pc' = "top" /\ UNCHANGED <<rd, wr, count, timer>>
    BY <1>14 DEF Send, At, modeVars
  <2> QED BY <1>1, <2>1 DEF Place, BufLen
<1>15. Interrupt /\ ~Sample /\ ~StartScope /\ ~StopScope => UNCHANGED bufferVars
  BY DEF Interrupt, SampleTriggered, VScopeCommand, SetMode, GetData, GetState, SetTrigger, PingPong,
         Handle, Take, fifo1Vars, mainVars, modeVars, fifoVars, bufferVars
<1>16. Client => UNCHANGED bufferVars
  BY DEF Client, Call, Open, SendCommand, BeginRead, Ask, In, Timeout, deviceVars, fifo1Vars,
         mainVars, modeVars, fifoVars, bufferVars
<1>17. UNCHANGED vars => UNCHANGED bufferVars
  BY DEF vars, mainVars, modeVars, fifoVars, bufferVars
<1> QED BY <1>3, <1>4, <1>5, <1>6, <1>7, <1>8, <1>9, <1>10, <1>11, <1>12, <1>13, <1>14,
           <1>15, <1>16, <1>17 DEF Next, Main

-----------------------------------------------------------------------------
(* Sequences of samples                                                     *)

LEMMA Elements ==
  ASSUME NEW s \in Seq(Samples)
  PROVE  /\ Len(s) \in Nat
         /\ \A i \in 1..Len(s) : s[i] \in Samples /\ s[i].run \in Nat /\ s[i].n \in Int
<1>1. Len(s) \in Nat /\ \A i \in 1..Len(s) : s[i] \in Samples
  BY ElementOfSeq, LenProperties
<1> QED BY <1>1 DEF Samples

\* What a joined sequence has where.
LEMMA Joined ==
  ASSUME NEW a \in Seq(Samples), NEW b \in Seq(Samples)
  PROVE  /\ a \o b \in Seq(Samples) /\ Len(a) \in Nat /\ Len(b) \in Nat
         /\ Len(a \o b) = Len(a) + Len(b)
         /\ \A i \in 1..Len(a) : (a \o b)[i] = a[i] /\ a[i] \in Samples
         /\ \A i \in 1..Len(b) : (a \o b)[Len(a) + i] = b[i] /\ b[i] \in Samples
<1>1. /\ a \o b \in Seq(Samples) /\ Len(a) \in Nat /\ Len(b) \in Nat
      /\ Len(a \o b) = Len(a) + Len(b)
      /\ \A i \in 1..(Len(a) + Len(b)) : (a \o b)[i] = IF i <= Len(a) THEN a[i] ELSE b[i - Len(a)]
  BY ConcatProperties, LenProperties
<1>2. \A i \in 1..Len(a) : a[i] \in Samples
  BY ElementOfSeq
<1>3. \A i \in 1..Len(b) : b[i] \in Samples
  BY ElementOfSeq
<1>4. \A i \in 1..Len(b) : (a \o b)[Len(a) + i] = b[i]
  <2> SUFFICES ASSUME NEW i \in 1..Len(b) PROVE (a \o b)[Len(a) + i] = b[i]
    OBVIOUS
  <2>1. Len(a) + i \in 1..(Len(a) + Len(b)) /\ ~(Len(a) + i <= Len(a)) /\ Len(a) + i - Len(a) = i
    BY <1>1
  <2> QED BY <1>1, <2>1
<1>5. \A i \in 1..Len(a) : (a \o b)[i] = a[i]
  BY <1>1
<1> QED BY <1>1, <1>2, <1>3, <1>4, <1>5

\* A part of a sequence that is dropped leaves the order of the others.
LEMMA DropOrder ==
  ASSUME NEW a \in Seq(Samples), NEW b \in Seq(Samples), NEW c \in Seq(Samples),
         NEW r \in Nat, NEW k \in Nat
  PROVE  /\ Ascending(a \o (b \o c)) => Ascending(a \o c)
         /\ UpTo(a \o (b \o c), r, k) => UpTo(a \o c, r, k)
<1> DEFINE w == a \o (b \o c)
           v == a \o c
           f(i) == IF i <= Len(a) THEN i ELSE i + Len(b)
<1>1. /\ Len(a) \in Nat /\ Len(b) \in Nat /\ Len(c) \in Nat
      /\ Len(w) = Len(a) + (Len(b) + Len(c)) /\ Len(v) = Len(a) + Len(c)
  BY Joined
<1>2. \A i \in 1..Len(v) : f(i) \in 1..Len(w) /\ w[f(i)] = v[i]
  <2> SUFFICES ASSUME NEW i \in 1..Len(v) PROVE f(i) \in 1..Len(w) /\ w[f(i)] = v[i]
    OBVIOUS
  <2>1. CASE i <= Len(a)
    <3>1. i \in 1..Len(a) /\ f(i) = i /\ i \in 1..Len(w)
      BY <1>1, <2>1
    <3>2. v[i] = a[i]
      BY <3>1, Joined
    <3>3. w[i] = a[i]
      BY <3>1, Joined
    <3> QED BY <3>1, <3>2, <3>3
  <2>2. CASE ~(i <= Len(a))
    <3> DEFINE m == i - Len(a)
    <3>1. /\ m \in 1..Len(c) /\ i = Len(a) + m /\ f(i) = Len(a) + (Len(b) + m)
          /\ Len(b) + m \in 1..(Len(b) + Len(c)) /\ f(i) \in 1..Len(w)
      BY <1>1, <2>2
    <3>2. v[i] = c[m]
      BY <3>1, Joined
    <3>3. (b \o c)[Len(b) + m] = c[m] /\ Len(b \o c) = Len(b) + Len(c) /\ b \o c \in Seq(Samples)
      BY <3>1, Joined
    <3>4. w[Len(a) + (Len(b) + m)] = (b \o c)[Len(b) + m]
      BY <3>1, <3>3, Joined
    <3> QED BY <3>1, <3>2, <3>3, <3>4
  <2> QED BY <2>1, <2>2
<1>3. \A i, j \in 1..Len(v) : i < j => f(i) < f(j)
  BY <1>1
<1> HIDE DEF w, v, f
<1>4. Ascending(w) => Ascending(v)
  BY <1>2, <1>3 DEF Ascending
<1>5. UpTo(w, r, k) => UpTo(v, r, k)
  BY <1>2 DEF UpTo
<1> QED BY <1>4, <1>5 DEF w, v

\* The answer to a query in the place of a part of a sequence leaves the order of the
\* others.
LEMMA ReplaceOrder ==
  ASSUME NEW a \in Seq(Samples), NEW b \in Seq(Samples), NEW c \in Seq(Samples),
         NEW r \in Nat, NEW k \in Nat, Ascending(a \o (b \o c)), UpTo(a \o (b \o c), r, k)
  PROVE  Ascending(a \o (<<StateByte>> \o c)) /\ UpTo(a \o (<<StateByte>> \o c), r, k)
<1> DEFINE o == <<StateByte>>
           v == a \o c
           w == a \o (o \o c)
           f(i) == IF i <= Len(a) THEN i ELSE i - 1
<1>1. /\ o \in Seq(Samples) /\ Len(o) = 1 /\ o[1] = StateByte
      /\ StateByte.run = 0 /\ StateByte.n = 0 /\ StateByte # Junk
  BY Nothing DEF StateByte, Junk
<1> HIDE DEF o
<1>2. Ascending(v) /\ UpTo(v, r, k)
  BY DropOrder
<1> DEFINE q == o \o c
<1>3. /\ q \in Seq(Samples) /\ Len(q) = 1 + Len(c) /\ q[1] = StateByte
      /\ \A m \in 1..Len(c) : q[1 + m] = c[m]
  <2>1. /\ q \in Seq(Samples) /\ Len(q) = Len(o) + Len(c)
        /\ \A m \in 1..Len(o) : q[m] = o[m]
        /\ \A m \in 1..Len(c) : q[Len(o) + m] = c[m]
    <3> HIDE DEF o
    <3>1. o \in Seq(Samples)
      BY <1>1
    <3> QED BY <3>1, Joined
  <2> QED BY <1>1, <2>1
<1> HIDE DEF q
<1>4. /\ Len(a) \in Nat /\ Len(c) \in Nat
      /\ Len(w) = Len(a) + (1 + Len(c)) /\ Len(v) = Len(a) + Len(c)
      /\ w[Len(a) + 1] = StateByte
      /\ \A m \in 1..Len(a) : w[m] = a[m]
      /\ \A m \in 1..Len(q) : w[Len(a) + m] = q[m]
  <2>1. w = a \o q
    BY DEF q
  <2> HIDE DEF w
  <2>2. /\ Len(a) \in Nat /\ Len(w) = Len(a) + Len(q)
        /\ \A m \in 1..Len(a) : w[m] = a[m]
        /\ \A m \in 1..Len(q) : w[Len(a) + m] = q[m]
    BY <1>3, <2>1, Joined
  <2>3. Len(c) \in Nat /\ Len(v) = Len(a) + Len(c)
    BY Joined
  <2>4. 1 \in 1..Len(q)
    BY <1>3, <2>3
  <2> QED BY <1>3, <2>2, <2>3, <2>4
<1>5. \A i \in 1..Len(w) : i # Len(a) + 1 => f(i) \in 1..Len(v) /\ v[f(i)] = w[i]
  <2> SUFFICES ASSUME NEW i \in 1..Len(w), i # Len(a) + 1
               PROVE  f(i) \in 1..Len(v) /\ v[f(i)] = w[i]
    OBVIOUS
  <2>1. CASE i <= Len(a)
    <3>1. i \in 1..Len(a) /\ f(i) = i /\ i \in 1..Len(v)
      BY <1>4, <2>1
    <3>2. v[i] = a[i]
      BY <3>1, Joined
    <3>3. w[i] = a[i]
      BY <1>4, <3>1
    <3> QED BY <3>1, <3>2, <3>3
  <2>2. CASE ~(i <= Len(a))
    <3> DEFINE m == i - Len(a) - 1
    <3>0. /\ i \in 1..(Len(a) + (1 + Len(c))) /\ Len(a) \in Nat /\ Len(c) \in Nat
          /\ Len(q) = 1 + Len(c) /\ Len(v) = Len(a) + Len(c)
      BY <1>3, <1>4
    <3>1. /\ m \in 1..Len(c) /\ i = Len(a) + (1 + m) /\ f(i) = Len(a) + m
          /\ 1 + m \in 1..Len(q) /\ f(i) \in 1..Len(v)
      BY <2>2, <3>0
    <3>2. v[Len(a) + m] = c[m]
      BY <3>1, Joined
    <3>3. q[1 + m] = c[m]
      BY <1>3, <3>1
    <3>4. w[Len(a) + (1 + m)] = q[1 + m]
      BY <1>4, <3>1
    <3> QED BY <3>1, <3>2, <3>3, <3>4
  <2> QED BY <2>1, <2>2
<1>6. \A i, j \in 1..Len(w) :
        i < j /\ i # Len(a) + 1 /\ j # Len(a) + 1 => f(i) < f(j)
  BY <1>4
<1> HIDE DEF w, v, f
<1>7. Ascending(w)
  <2> SUFFICES ASSUME NEW i \in 1..Len(w), NEW j \in 1..Len(w), i < j
               PROVE  InOrder(w[i], w[j])
    BY DEF Ascending
  <2>1. CASE i = Len(a) + 1 \/ j = Len(a) + 1
    BY <1>4, <2>1 DEF InOrder
  <2>2. CASE i # Len(a) + 1 /\ j # Len(a) + 1
    BY <1>2, <1>5, <1>6, <2>2 DEF Ascending
  <2> QED BY <2>1, <2>2
<1>8. UpTo(w, r, k)
  <2> SUFFICES ASSUME NEW i \in 1..Len(w)
               PROVE  w[i] # Junk /\ (w[i].run < r \/ (w[i].run = r /\ w[i].n <= k))
    BY DEF UpTo
  <2>1. CASE i = Len(a) + 1
    BY <1>1, <1>4, <2>1
  <2>2. CASE i # Len(a) + 1
    BY <1>2, <1>5, <2>2 DEF UpTo
  <2> QED BY <2>1, <2>2
<1> QED BY <1>7, <1>8 DEF w, o

\* A sequence without its end, and without its beginning.
LEMMA FrontOf ==
  ASSUME NEW a \in Seq(Samples), NEW b \in Seq(Samples)
  PROVE  Chained(a \o b) => Chained(a)
<1>1. /\ Len(a) \in Nat /\ Len(b) \in Nat /\ Len(a \o b) = Len(a) + Len(b)
      /\ \A i \in 1..Len(a) : (a \o b)[i] = a[i]
  BY Joined
<1> QED BY <1>1 DEF Chained

LEMMA BackOf ==
  ASSUME NEW a \in Seq(Samples), NEW b \in Seq(Samples), NEW r, NEW k
  PROVE  /\ Chained(a \o b) => Chained(b)
         /\ EndsWith(a \o b, r, k) => EndsWith(b, r, k)
<1>1. /\ Len(a) \in Nat /\ Len(b) \in Nat /\ Len(a \o b) = Len(a) + Len(b)
      /\ \A i \in 1..Len(b) : (a \o b)[Len(a) + i] = b[i]
  BY Joined
<1>2. ASSUME Chained(a \o b), NEW i \in 1..(Len(b) - 1), b[i].run = b[i + 1].run
      PROVE  b[i].n + 1 = b[i + 1].n
  <2>1. /\ i \in 1..Len(b) /\ i + 1 \in 1..Len(b) /\ Len(a) + (i + 1) = (Len(a) + i) + 1
        /\ Len(a) + i \in 1..(Len(a \o b) - 1)
    BY <1>1
  <2>2. (a \o b)[Len(a) + i] = b[i] /\ (a \o b)[(Len(a) + i) + 1] = b[i + 1]
    BY <1>1, <2>1
  <2> QED BY <1>2, <2>1, <2>2 DEF Chained
<1>3. EndsWith(a \o b, r, k) => EndsWith(b, r, k)
  BY <1>1 DEF EndsWith
<1> QED BY <1>2, <1>3 DEF Chained

\* A sample put behind the others.
LEMMA PutBehind ==
  ASSUME NEW s \in Seq(Samples), NEW r \in Nat, NEW k \in Nat
  PROVE  LET t == Append(s, [run |-> r, n |-> k + 1]) IN
         /\ Ascending(s) /\ UpTo(s, r, k) => Ascending(t) /\ UpTo(t, r, k + 1)
         /\ Chained(s) /\ EndsWith(s, r, k) => Chained(t) /\ EndsWith(t, r, k + 1)
<1> DEFINE x == [run |-> r, n |-> k + 1]
           t == Append(s, x)
<1>1. x \in Samples /\ x.run = r /\ x.n = k + 1
  BY DEF Samples
<1>2. /\ Len(t) = Len(s) + 1 /\ Len(s) \in Nat
      /\ \A i \in 1..Len(s) : t[i] = s[i] /\ s[i] \in Samples
      /\ t[Len(s) + 1] = x
  <2> HIDE DEF x
  <2> QED BY <1>1, AppendProperties, LenProperties, ElementOfSeq
<1> HIDE DEF x, t
<1>3. ASSUME Ascending(s), UpTo(s, r, k)
      PROVE  Ascending(t) /\ UpTo(t, r, k + 1)
  <2>1. \A i \in 1..Len(s) : InOrder(s[i], x)
    <3> SUFFICES ASSUME NEW i \in 1..Len(s) PROVE Earlier(s[i], x)
      BY DEF InOrder
    <3>1. s[i].run \in Nat /\ s[i].n \in Int
      BY Elements
    <3>2. s[i].run < r \/ (s[i].run = r /\ s[i].n <= k)
      BY <1>3 DEF UpTo
    <3> QED BY <1>1, <3>1, <3>2 DEF Earlier
  <2>2. ASSUME NEW i \in 1..Len(t), NEW j \in 1..Len(t), i < j
        PROVE  InOrder(t[i], t[j])
    <3>1. i \in 1..Len(s)
      BY <1>2, <2>2
    <3>2. CASE j \in 1..Len(s)
      BY <1>2, <1>3, <2>2, <3>1, <3>2 DEF Ascending
    <3>3. CASE j = Len(s) + 1
      BY <1>2, <2>1, <3>1, <3>3
    <3> QED BY <1>2, <3>2, <3>3
  <2>3. UpTo(t, r, k + 1)
    <3>1. x # Junk
      BY <1>1 DEF Junk
    <3> QED BY SMTT(30), <1>1, <1>2, <1>3, <3>1 DEF UpTo, Samples
  <2> QED BY <2>2, <2>3 DEF Ascending
<1>4. ASSUME Chained(s), EndsWith(s, r, k)
      PROVE  Chained(t) /\ EndsWith(t, r, k + 1)
  <2>1. ASSUME NEW i \in 1..(Len(t) - 1), t[i].run = t[i + 1].run
        PROVE  t[i].n + 1 = t[i + 1].n
    <3>1. i \in 1..Len(s)
      BY <1>2
    <3>2. CASE i = Len(s)
      BY <1>1, <1>2, <1>4, <2>1, <3>1, <3>2 DEF EndsWith
    <3>3. CASE i # Len(s)
      BY <1>2, <1>4, <2>1, <3>1, <3>3 DEF Chained
    <3> QED BY <3>2, <3>3
  <2>2. EndsWith(t, r, k + 1)
    BY <1>1, <1>2 DEF EndsWith
  <2> QED BY <2>1, <2>2 DEF Chained
<1> QED BY <1>3, <1>4 DEF t, x

-----------------------------------------------------------------------------
(* The stream: steps that drop a part of it, or divide it elsewhere         *)

SegmentsOK ==
  /\ Live \in Seq(Samples) /\ part \in Seq(Samples) /\ packet \in Seq(Samples)
  /\ Buffered \in Seq(Samples) /\ Stream \in Seq(Samples)
  /\ Len(Buffered) = BufLen
  /\ \A i \in 1..BufLen : Buffered[i] = cells[Place(i - 1)] /\ Place(i - 1) \in 0..(Depth - 1)

LEMMA Segments == TypeOK /\ BufferInv /\ Sound => SegmentsOK
<1> SUFFICES ASSUME TypeOK, BufferInv, Sound PROVE SegmentsOK
  OBVIOUS
<1>1. BufLen \in 0..Depth /\ Depth \in Nat \ {0}
  BY Constants DEF BufferInv, BufLen
<1>2. \A i \in 1..BufLen : Place(i - 1) \in 0..(Depth - 1) /\ cells[Place(i - 1)] \in Samples
  <2> SUFFICES ASSUME NEW i \in 1..BufLen
               PROVE  Place(i - 1) \in 0..(Depth - 1) /\ cells[Place(i - 1)] \in Samples
    OBVIOUS
  <2>1. i - 1 \in 0..(Depth - 1)
    BY <1>1
  <2>2. Place(i - 1) \in 0..(Depth - 1)
    BY <2>1, Places
  <2> QED BY <2>2 DEF TypeOK
<1>3. Buffered \in Seq(Samples) /\ Len(Buffered) = BufLen
  <2> HIDE DEF BufLen, Place
  <2> QED BY <1>1, <1>2 DEF Buffered
<1>4. \A i \in 1..BufLen : Buffered[i] = cells[Place(i - 1)]
  BY DEF Buffered
<1>5. Live \in Seq(Samples) /\ part \in Seq(Samples) /\ packet \in Seq(Samples)
  BY Nothing DEF Live, TypeOK
<1>6. packet \o Buffered \in Seq(Samples)
  BY <1>3, <1>5, ConcatProperties
<1>7. part \o (packet \o Buffered) \in Seq(Samples)
  BY <1>5, <1>6, ConcatProperties
<1>8. Stream \in Seq(Samples)
  BY <1>5, <1>7, ConcatProperties DEF Stream
<1> QED BY <1>2, <1>3, <1>4, <1>5, <1>8 DEF SegmentsOK

LEMMA SegmentsNext == TypeOK' /\ BufferInv' /\ Sound' => SegmentsOK'
BY Segments, PTL

LEMMA WholeIsSound == Whole => Sound /\ Without({"flushed", "reopened", "queried"})
BY DEF Whole, Sound, Without

LEMMA WholeStays ==
  ASSUME [Next]_vars, Whole'
  PROVE  /\ Whole
         /\ \A e \in {"cut", "miscounted", "full", "queried", "flushed", "late", "reopened",
                    "cancelled"} :
              e \notin upset'
BY UpsetGrows DEF Whole

\* A step that drops a part of the stream keeps the order, and what is whole stays
\* whole when that part lies at an end.
LEMMA StreamDrops ==
  ASSUME StreamInv, [Next]_vars, TypeOK, Sound',
         NEW a \in Seq(Samples), NEW b \in Seq(Samples), NEW c \in Seq(Samples),
         Stream = a \o (b \o c), Stream' = a \o c,
         run' = run, n' = n, timer' => timer,
         Whole' => b = <<>> \/ a = <<>> \/ (c = <<>> /\ ~timer'),
         Ordered(got'), Whole' => Chained(got'),
         reading' # "poll" => part' = <<>>
  PROVE  StreamInv'
<1>1. Sound /\ run \in Nat /\ n \in Nat
  BY SoundStays DEF TypeOK
<1>2. Ascending(a \o c) /\ UpTo(a \o c, run, n)
  BY <1>1, DropOrder DEF StreamInv
<1>3. ASSUME Whole'
      PROVE  Chained(a \o c) /\ (timer' => EndsWith(a \o c, run, n))
  <2>1. Chained(a \o (b \o c)) /\ (timer => EndsWith(a \o (b \o c), run, n))
    BY <1>3, WholeStays DEF StreamInv
  <2>2. b \o c \in Seq(Samples) /\ a \o c \in Seq(Samples)
    BY ConcatProperties
  <2>3. CASE b = <<>>
    <3>1. b \o c = c
      BY <2>3, ConcatEmptySeq
    <3> QED BY <2>1, <3>1
  <2>4. CASE a = <<>>
    <3>1. a \o (b \o c) = b \o c
      BY <2>2, <2>4, ConcatEmptySeq
    <3>2. a \o c = c
      BY <2>4, ConcatEmptySeq
    <3>3. Chained(b \o c) /\ (timer => EndsWith(b \o c, run, n))
      BY <2>1, <3>1
    <3> QED BY <3>2, <3>3, BackOf
  <2>5. CASE c = <<>> /\ ~timer'
    <3>1. a \o c = a
      BY <2>5, ConcatEmptySeq
    <3>2. Chained(a)
      BY <2>1, <2>2, FrontOf
    <3> QED BY <2>5, <3>1, <3>2
  <2> QED BY <1>3, <2>3, <2>4, <2>5
<1>4. /\ Ordered(got)' /\ Ascending(Stream)' /\ UpTo(Stream, run, n)'
      /\ Whole' => Chained(got)' /\ Chained(Stream)' /\ (timer' => EndsWith(Stream, run, n)')
  BY <1>2, <1>3 DEF Ordered, Ascending, UpTo, Chained, EndsWith
<1> QED BY <1>4 DEF StreamInv

\* A step that leaves the stream.
LEMMA StreamKept ==
  ASSUME StreamInv, [Next]_vars, TypeOK, Sound', Stream \in Seq(Samples),
         Stream' = Stream, run' = run, n' = n, timer' => timer,
         Ordered(got'), Whole' => Chained(got'),
         reading' # "poll" => part' = <<>>
  PROVE  StreamInv'
<1>1. <<>> \in Seq(Samples) /\ <<>> \o <<>> = <<>> /\ Stream \o <<>> = Stream
  BY Nothing, ConcatEmptySeq
<1>2. Stream = Stream \o (<<>> \o <<>>) /\ Stream' = Stream \o <<>>
  BY <1>1
<1> QED BY <1>1, <1>2, StreamDrops

LEMMA GotStays ==
  ASSUME StreamInv, [Next]_vars, Sound', got' = got \/ got' = <<>>
  PROVE  Ordered(got') /\ (Whole' => Chained(got'))
<1>1. Ordered(got) /\ (Whole' => Chained(got))
  BY SoundStays, WholeStays DEF StreamInv
<1>2. Len(<<>>) = 0
  OBVIOUS
<1> QED BY <1>1, <1>2 DEF Ordered, Ascending, Chained

-----------------------------------------------------------------------------
(* The stream: the sampling timer and the commands                          *)

LEMMA Associates ==
  ASSUME NEW a \in Seq(Samples), NEW b \in Seq(Samples), NEW c \in Seq(Samples)
  PROVE  (a \o b) \o c = a \o (b \o c)
BY ConcatAssociative

Before == Live \o (part \o packet)

GroupsOK ==
  /\ Before \in Seq(Samples) /\ Live \o part \in Seq(Samples)
  /\ packet \o Buffered \in Seq(Samples) /\ part \o packet \in Seq(Samples)
  /\ Stream = Before \o Buffered
  /\ Stream = (Live \o part) \o (packet \o Buffered)

LEMMA GroupsHold == SegmentsOK => GroupsOK
<1> SUFFICES ASSUME SegmentsOK PROVE GroupsOK
  OBVIOUS
<1> DEFINE l == Live
           p == part
           f == packet
           b == Buffered
<1>1. l \in Seq(Samples) /\ p \in Seq(Samples) /\ f \in Seq(Samples) /\ b \in Seq(Samples)
  BY DEF SegmentsOK
<1>2. Stream = l \o (p \o (f \o b)) /\ Before = l \o (p \o f)
  BY DEF Stream, Before
<1> HIDE DEF l, p, f, b
<1>3. l \o p \in Seq(Samples) /\ f \o b \in Seq(Samples) /\ p \o f \in Seq(Samples)
  BY <1>1, ConcatProperties
<1>4. l \o (p \o f) \in Seq(Samples)
  BY <1>1, <1>3, ConcatProperties
<1>5. p \o (f \o b) = (p \o f) \o b
  BY <1>1, Associates
<1>6. l \o ((p \o f) \o b) = (l \o (p \o f)) \o b
  <2>1. l \in Seq(Samples) /\ b \in Seq(Samples)
    BY <1>1
  <2>2. \A x \in Seq(Samples) : (l \o x) \o b = l \o (x \o b)
    BY <2>1, Associates
  <2> QED BY <1>3, <2>2
<1>7. l \o (p \o (f \o b)) = (l \o p) \o (f \o b)
  <2>1. l \in Seq(Samples) /\ p \in Seq(Samples)
    BY <1>1
  <2>2. \A x \in Seq(Samples) : (l \o p) \o x = l \o (p \o x)
    BY <2>1, Associates
  <2> QED BY <1>3, <2>2
<1> QED BY <1>2, <1>3, <1>4, <1>5, <1>6, <1>7 DEF GroupsOK, l, p, f, b

LEMMA GroupsNext == SegmentsOK' => GroupsOK'
BY GroupsHold, PTL

StepHyps == TypeOK /\ FifoInv /\ PidInv /\ BufferInv /\ StreamInv
StepNext == [Next]_vars /\ TypeOK' /\ BufferInv' /\ Sound'

\* The parts of the stream before and after a step.
LEMMA Parts ==
  ASSUME StepHyps, StepNext
  PROVE  SegmentsOK /\ SegmentsOK' /\ GroupsOK /\ GroupsOK' /\ Sound
BY Segments, SegmentsNext, GroupsHold, GroupsNext, SoundStays DEF StepHyps, StepNext

\* The client's end of the stream.
clientEnd == <<reading, part, got, packet, run>>

\* A sample goes to the end of the stream, or is lost for good.
LEMMA SampleStream ==
  ASSUME StepHyps, StepNext, Sample
  PROVE  StreamInv'
<1>1. SegmentsOK /\ SegmentsOK' /\ GroupsOK /\ GroupsOK' /\ Sound
  BY Parts
<1>2. /\ UNCHANGED clientEnd /\ UNCHANGED <<pc, packet, timer>> /\ n' = n + 1 /\ timer
      /\ run \in Nat /\ n \in Nat /\ count \in 0..Depth /\ Depth \in Nat \ {0} /\ rd' = rd
  BY <1>1, Constants DEF Sample, mainVars, fifo1Vars, modeVars, clientVars, StepHyps, TypeOK, BufferInv,
                         clientEnd, fifoVars
<1>3. Live' = Live /\ part' = part /\ packet' = packet /\ got' = got
  BY <1>2 DEF Live, clientEnd
<1>4. /\ reading # "poll" => part = <<>>
      /\ Ordered(got) /\ Ascending(Stream) /\ UpTo(Stream, run, n)
      /\ Whole' => Whole /\ Chained(got) /\ Chained(Stream) /\ EndsWith(Stream, run, n)
  BY <1>1, <1>2, WholeStays DEF StepHyps, StepNext, StreamInv
<1>5. reading' = reading /\ run' = run
  BY <1>2 DEF clientEnd
<1>6. CASE count >= Depth
  <2>1. ~Whole' /\ UNCHANGED <<cells, rd, count>>
    BY <1>6 DEF Sample, Upset, Whole, fifoVars
  <2>2. Buffered' = Buffered
    BY <1>2, <2>1 DEF Buffered, BufLen, Place
  <2>3. Stream' = Stream
    BY <1>3, <2>2 DEF Stream
  <2>4. UpTo(Stream, run, n + 1)
    <3>1. \A i \in 1..Len(Stream) : Stream[i].n \in Int
      BY <1>1, Elements DEF SegmentsOK
    <3> QED BY <1>2, <1>4, <3>1 DEF UpTo
  <2>5. Ordered(got)' /\ Ascending(Stream)' /\ UpTo(Stream, run, n)'
    BY <1>2, <1>3, <1>4, <1>5, <2>3, <2>4 DEF Ordered, Ascending, UpTo
  <2> QED BY <1>3, <1>4, <1>5, <2>1, <2>5 DEF StreamInv
<1>7. CASE ~(count >= Depth)
  <2> DEFINE x == [run |-> run, n |-> n + 1]
  <2>1. cells' = [cells EXCEPT ![wr] = x] /\ count' = count + 1 /\ wr = Place(BufLen)
    BY <1>1, <1>2, <1>7 DEF Sample, StepHyps, BufferInv
  <2>2. BufLen \in 0..(Depth - 1) /\ BufLen' = BufLen + 1 /\ x \in Samples
    BY <1>1, <1>2, <1>7, <2>1 DEF BufLen, Samples, StepHyps, BufferInv
  <2>3. wr \in 0..(Depth - 1) /\ \A i \in 0..(BufLen - 1) : Place(i) # wr
    BY <2>1, <2>2, Places DEF StepHyps
  <2>4. \A i \in 1..BufLen : Buffered'[i] = Buffered[i]
    <3> SUFFICES ASSUME NEW i \in 1..BufLen PROVE Buffered'[i] = Buffered[i]
      OBVIOUS
    <3>1. i \in 1..BufLen' /\ i - 1 \in 0..(BufLen - 1)
      BY <2>2
    <3>2. Buffered'[i] = cells'[Place(i - 1)]
      BY <1>1, <1>2, <3>1 DEF SegmentsOK, Place
    <3>3. Place(i - 1) # wr /\ Place(i - 1) \in 0..(Depth - 1)
      BY <1>1, <2>3, <3>1 DEF SegmentsOK
    <3>4. Buffered[i] = cells[Place(i - 1)]
      BY <1>1 DEF SegmentsOK
    <3> QED BY <2>1, <3>2, <3>3, <3>4 DEF StepHyps, TypeOK
  <2>5. Buffered'[BufLen + 1] = x
    <3>1. Buffered'[BufLen + 1] = cells'[Place(BufLen)]
      <4>1. BufLen + 1 \in 1..BufLen' /\ (BufLen + 1) - 1 = BufLen
        BY <2>2
      <4> QED BY <1>1, <1>2, <4>1 DEF SegmentsOK, Place
    <3> QED BY <2>1, <2>3, <3>1 DEF StepHyps, TypeOK
  <2> HIDE DEF x
  <2>6. Buffered' = Append(Buffered, x)
    <3>1. /\ Append(Buffered, x) \in Seq(Samples) /\ Len(Append(Buffered, x)) = BufLen + 1
          /\ \A i \in 1..BufLen : Append(Buffered, x)[i] = Buffered[i]
          /\ Append(Buffered, x)[BufLen + 1] = x
      <4>1. Buffered \in Seq(Samples) /\ x \in Samples /\ Len(Buffered) = BufLen
        BY <1>1, <2>2 DEF SegmentsOK
      <4> QED BY <4>1, AppendProperties
    <3>2. Buffered' \in Seq(Samples) /\ Len(Buffered') = BufLen + 1
      BY <1>1, <2>2 DEF SegmentsOK
    <3>3. \A i \in 1..(BufLen + 1) : Buffered'[i] = Append(Buffered, x)[i]
      BY <2>2, <2>4, <2>5, <3>1
    <3> QED BY <3>1, <3>2, <3>3, SeqEqual
  <2>7. Stream' = Append(Stream, x)
    <3>1. /\ Before \in Seq(Samples) /\ Stream = Before \o Buffered
          /\ Stream' = Before' \o Buffered' /\ Before' = Before
      BY <1>1, <1>3 DEF GroupsOK, Before
    <3>2. <<x>> \in Seq(Samples) /\ Buffered' = Buffered \o <<x>>
      <4>1. Buffered \in Seq(Samples) /\ x \in Samples
        BY <1>1, <2>2 DEF SegmentsOK
      <4> QED BY <2>6, <4>1, AppendIsConcat
    <3>3. Before \o (Buffered \o <<x>>) = (Before \o Buffered) \o <<x>>
      <4>1. \A b, c \in Seq(Samples) : (Before \o b) \o c = Before \o (b \o c)
        BY <3>1, Associates
      <4> QED BY <1>1, <3>2, <4>1 DEF SegmentsOK
    <3>4. Append(Stream, x) = Stream \o <<x>>
      BY <1>1, <2>2, AppendIsConcat DEF SegmentsOK
    <3> QED BY <3>1, <3>2, <3>3, <3>4
  <2>8. /\ Ascending(Append(Stream, x)) /\ UpTo(Append(Stream, x), run, n + 1)
        /\ Whole' => Chained(Append(Stream, x)) /\ EndsWith(Append(Stream, x), run, n + 1)
    BY <1>1, <1>2, <1>4, PutBehind DEF SegmentsOK, x
  <2>9. /\ Ordered(got)' /\ Ascending(Stream)' /\ UpTo(Stream, run, n)'
        /\ Whole' => Chained(got)' /\ Chained(Stream)' /\ EndsWith(Stream, run, n)'
    BY <1>2, <1>3, <1>4, <1>5, <2>7, <2>8 DEF Ordered, Ascending, UpTo, Chained, EndsWith
  <2> QED BY <1>3, <1>4, <1>5, <2>9 DEF StreamInv
<1> QED BY <1>6, <1>7

\* A stop or a start empties the buffer; what a new recording brings comes behind
\* all that the others left.
LEMMA StartStopStream ==
  ASSUME StepHyps, StepNext, StartScope \/ StopScope
  PROVE  StreamInv'
<1>1. SegmentsOK /\ SegmentsOK' /\ GroupsOK /\ GroupsOK' /\ Sound
  BY Parts
<1>2. ~Filling /\ UNCHANGED <<pc, packet, reading, part, got>> /\ count' = 0
  BY SoundStays DEF StartScope, StopScope, Upset, Handle, Take, fifo1Vars, mainVars, clientVars, StepNext
<1>3. Live' = Live /\ BufLen' = 0 /\ part' = part /\ packet' = packet
  BY <1>2 DEF Live, Filling, BufLen
<1>4. Buffered' = <<>>
  BY <1>1, <1>3, EmptySeq DEF SegmentsOK
<1>5. Before \in Seq(Samples) /\ Stream = Before \o Buffered /\ Stream' = Before \o <<>>
  <2>1. Before' = Before
    BY <1>3 DEF Before
  <2> QED BY <1>1, <1>4, <2>1 DEF GroupsOK
<1>6. Buffered \in Seq(Samples) /\ Buffered \o <<>> = Buffered /\ Before \o <<>> = Before
  BY <1>1, <1>5, ConcatEmptySeq DEF SegmentsOK
<1>7. Ordered(got') /\ (Whole' => Chained(got'))
  BY <1>2, GotStays DEF StepHyps, StepNext
<1>8. reading' # "poll" => part' = <<>>
  BY <1>2 DEF StepHyps, StreamInv
<1>9. CASE StopScope
  <2>1. ~timer' /\ run' = run /\ n' = n
    BY <1>9 DEF StopScope
  <2>2. Stream = Before \o (Buffered \o <<>>)
    BY <1>5, <1>6
  <2> QED BY <1>5, <1>6, <1>7, <1>8, <2>1, <2>2, Nothing, StreamDrops DEF StepHyps, StepNext
<1>10. CASE StartScope
  <2>1. run' = run + 1 /\ n' = 0 /\ run \in Nat /\ n \in Nat
    BY <1>10 DEF StartScope, StepHyps, TypeOK
  <2>2. Ascending(Before) /\ UpTo(Before, run, n)
    <3>1. Stream = Before \o (Buffered \o <<>>)
      BY <1>5, <1>6
    <3>2. Ascending(Stream) /\ UpTo(Stream, run, n)
      BY <1>1 DEF StepHyps, StreamInv
    <3>3. Ascending(Before \o (Buffered \o <<>>)) /\ UpTo(Before \o (Buffered \o <<>>), run, n)
      BY <3>1, <3>2
    <3>4. \A c \in Seq(Samples) :
            /\ Ascending(Before \o (Buffered \o c)) => Ascending(Before \o c)
            /\ UpTo(Before \o (Buffered \o c), run, n) => UpTo(Before \o c, run, n)
      BY <1>5, <1>6, <2>1, DropOrder
    <3> QED BY <1>6, <3>3, <3>4, Nothing
  <2>3. UpTo(Before, run + 1, 0) /\ EndsWith(Before, run + 1, 0)
    <3>1. Len(Before) \in Nat /\ \A i \in 1..Len(Before) : Before[i].run \in Nat
      BY <1>5, Elements
    <3>2. \A i \in 1..Len(Before) : Before[i].run < run + 1
      BY <2>1, <2>2, <3>1 DEF UpTo
    <3>3. EndsWith(Before, run + 1, 0)
      BY <2>1, <3>1, <3>2 DEF EndsWith
    <3> QED BY <2>1, <2>2, <3>2, <3>3 DEF UpTo
  <2>4. Whole' => Chained(Before)
    BY <1>5, <1>6, FrontOf, WholeStays DEF StepHyps, StepNext, StreamInv
  <2>5. Stream' = Before
    BY <1>5, <1>6
  <2>6. /\ Ordered(got)' /\ Ascending(Stream)' /\ UpTo(Stream, run, n)'
        /\ Whole' => Chained(got)' /\ Chained(Stream)' /\ EndsWith(Stream, run, n)'
    BY <1>7, <2>1, <2>2, <2>3, <2>4, <2>5 DEF Ordered, Ascending, UpTo, Chained, EndsWith
  <2> QED BY <1>8, <2>6 DEF StreamInv
<1> QED BY <1>9, <1>10

-----------------------------------------------------------------------------
(* The stream: the main loop                                                *)

\* A step of the main loop leaves the client's end, the recording and the timer.
LEMMA MainLeaves ==
  ASSUME Main
  PROVE  /\ UNCHANGED <<reading, part, got, run, n, cells>> /\ Live' = Live
         /\ ~StopTimer => timer' = timer
BY DEF Main, Top, StopState, StopTimer, ToLogic, Check, Begin, NotYet, Get, LoadCount,
       StoreCount, Room, Send, At, clientVars, modeVars, Live

\* A packet in the FIFO that the host has not fetched is dropped.
LEMMA CheckStream ==
  ASSUME StepHyps, StepNext, Check
  PROVE  StreamInv'
<1>1. SegmentsOK /\ SegmentsOK' /\ GroupsOK /\ GroupsOK' /\ Sound
  BY Parts
<1>2. /\ UNCHANGED <<reading, part, got, run, n, cells>> /\ Live' = Live /\ timer' = timer
      /\ Ordered(got') /\ (Whole' => Chained(got')) /\ (reading' # "poll" => part' = <<>>)
  BY MainLeaves, GotStays DEF Main, Check, At, StopTimer, StepHyps, StepNext, StreamInv
<1>3. ~Filling /\ pc = "check" /\ rd' = rd /\ count' = count
  BY DEF Check, Begin, NotYet, At, Filling
<1>4. Buffered' = Buffered
  <2>1. BufLen' = BufLen
    BY <1>3 DEF BufLen, Check, Begin, NotYet
  <2> QED BY <1>2, <1>3, <2>1 DEF Buffered, Place
<1>5. CASE packet' = packet
  <2>1. Stream' = Stream
    BY <1>2, <1>4, <1>5 DEF Stream
  <2> QED BY <1>1, <1>2, <2>1, StreamKept DEF StepHyps, StepNext, SegmentsOK
<1>6. CASE Begin
  <2>1. packet' = <<>> /\ (Whole' => ~armed.en)
    BY <1>6, WholeStays DEF Begin, Upset, StepNext
  <2>2. Whole' => packet = <<>>
    BY <1>3, <2>1 DEF StepHyps, FifoInv
  <2> DEFINE a == Live \o part
  <2>3. /\ a \in Seq(Samples) /\ packet \in Seq(Samples) /\ Buffered \in Seq(Samples)
        /\ Stream = a \o (packet \o Buffered) /\ Stream' = a' \o (packet' \o Buffered')
    BY <1>1 DEF SegmentsOK, GroupsOK
  <2>4. a' = a
    BY <1>2
  <2> HIDE DEF a
  <2>5. Stream' = a \o Buffered
    BY <1>4, <2>1, <2>3, <2>4, ConcatEmptySeq
  <2> QED BY <1>2, <2>2, <2>3, <2>5, StreamDrops DEF StepHyps, StepNext
<1> QED BY <1>5, <1>6 DEF Check, NotYet, packetVars

\* A sample that is got goes from the front of the buffer to the end of the packet; it
\* is lost when the answer to a query is in the FIFO and leaves no room.
LEMMA GetStream ==
  ASSUME StepHyps, StepNext, Get
  PROVE  StreamInv'
<1>1. SegmentsOK /\ SegmentsOK' /\ GroupsOK /\ GroupsOK' /\ Sound
  BY Parts
<1>2. /\ UNCHANGED <<reading, part, got, run, n, cells>> /\ Live' = Live /\ timer' = timer
      /\ Ordered(got') /\ (Whole' => Chained(got')) /\ (reading' # "poll" => part' = <<>>)
  BY MainLeaves, GotStays DEF Main, Get, At, StopTimer, StepHyps, StepNext, StreamInv
<1>3. /\ pc = "get" /\ count \in 1..Depth /\ Depth \in Nat \ {0} /\ pc' = "load"
      /\ rd' = NextCell(rd) /\ count' = count
      /\ packet' = (IF armed.en /\ Len(packet) >= PacketSize THEN packet
                    ELSE Append(packet, cells[rd]))
  BY <1>1, Constants DEF Get, At, StepHyps, BufferInv
<1> DEFINE x == cells[rd]
<1>4. x \in Samples /\ <<x>> \in Seq(Samples) /\ Len(<<x>>) = 1 /\ <<x>>[1] = x
  <2>1. x \in Samples
    BY DEF StepHyps, TypeOK
  <2> HIDE DEF x
  <2> QED BY <2>1
<1>5. Live' \o part' = Live \o part /\ Before \in Seq(Samples) /\ Stream = Before \o Buffered
  BY <1>1, <1>2 DEF GroupsOK
<1>6. BufLen = count /\ BufLen' = count - 1
  BY <1>3 DEF BufLen
<1>7. Buffered = <<x>> \o Buffered'
  <2>1. /\ <<x>> \o Buffered' \in Seq(Samples) /\ Len(<<x>> \o Buffered') = count
        /\ (<<x>> \o Buffered')[1] = x
        /\ \A i \in 1..(count - 1) : (<<x>> \o Buffered')[1 + i] = Buffered'[i]
    <3>1. Buffered' \in Seq(Samples) /\ Len(Buffered') = count - 1
      BY <1>1, <1>6 DEF SegmentsOK
    <3> HIDE DEF x
    <3>2. /\ <<x>> \o Buffered' \in Seq(Samples)
          /\ Len(<<x>> \o Buffered') = Len(<<x>>) + Len(Buffered')
          /\ \A i \in 1..Len(<<x>>) : (<<x>> \o Buffered')[i] = <<x>>[i]
          /\ \A i \in 1..Len(Buffered') : (<<x>> \o Buffered')[Len(<<x>>) + i] = Buffered'[i]
      BY <1>4, <3>1, Joined
    <3> QED BY <1>3, <1>4, <3>1, <3>2
  <2>2. Buffered[1] = x
    <3>1. Buffered[1] = cells[Place(0)]
      BY <1>1, <1>3, <1>6 DEF SegmentsOK
    <3>2. Place(0) = rd
      BY <1>3, Places DEF StepHyps
    <3> QED BY <3>1, <3>2
  <2>3. \A i \in 1..(count - 1) : Buffered'[i] = Buffered[1 + i]
    <3> SUFFICES ASSUME NEW i \in 1..(count - 1) PROVE Buffered'[i] = Buffered[1 + i]
      OBVIOUS
    <3>1. Buffered'[i] = cells'[Place(i - 1)']
      BY <1>1, <1>6 DEF SegmentsOK
    <3>2. Place(i - 1)' = Place(i - 1 + 1)
      BY <1>3, PlaceMoves DEF StepHyps
    <3>3. i - 1 + 1 = (1 + i) - 1 /\ 1 + i \in 1..BufLen
      BY <1>3, <1>6
    <3>4. Buffered[1 + i] = cells[Place((1 + i) - 1)]
      BY <1>1, <3>3 DEF SegmentsOK
    <3> QED BY <1>2, <3>1, <3>2, <3>3, <3>4
  <2>4. \A i \in 1..count : Buffered[i] = (<<x>> \o Buffered')[i]
    <3> SUFFICES ASSUME NEW i \in 1..count PROVE Buffered[i] = (<<x>> \o Buffered')[i]
      OBVIOUS
    <3>1. CASE i = 1
      BY <2>1, <2>2, <3>1
    <3>2. CASE i # 1
      <4>1. i - 1 \in 1..(count - 1) /\ 1 + (i - 1) = i
        BY <1>3, <3>2
      <4> HIDE DEF x
      <4> QED BY <2>1, <2>3, <4>1
    <3> QED BY <3>1, <3>2
  <2>5. Buffered \in Seq(Samples) /\ Len(Buffered) = count
    BY <1>1, <1>6 DEF SegmentsOK
  <2> HIDE DEF x
  <2> QED BY <2>1, <2>4, <2>5, SeqEqual
<1> HIDE DEF x
<1>8. CASE packet' = packet
  <2>1. armed.en /\ Filling
    <3>1. packet' = Append(packet, x) => packet' # packet
      BY <1>4, AppendProperties DEF StepHyps, TypeOK
    <3> QED BY <1>3, <1>8, <3>1 DEF x, Filling
  <2>2. ~Whole'
    BY <2>1, WholeStays, WholeIsSound DEF StepHyps, StepNext, FifoInv, PidInv
  <2>3. Stream = Before \o (<<x>> \o Buffered') /\ Buffered' \in Seq(Samples)
    BY <1>1, <1>5, <1>7 DEF SegmentsOK
  <2>4. Stream' = Before \o Buffered'
    <3>1. Stream' = Before' \o Buffered' /\ Before' = Before
      BY <1>1, <1>2, <1>8 DEF GroupsOK, Before
    <3> QED BY <3>1
  <2> QED BY <1>2, <1>4, <1>5, <2>2, <2>3, <2>4, StreamDrops DEF StepHyps, StepNext
<1>9. CASE packet' = Append(packet, x)
  <2>1. packet' = packet \o <<x>>
    BY <1>4, <1>9, AppendIsConcat DEF StepHyps, TypeOK
  <2>2. \A b \in Seq(Samples) : (packet \o <<x>>) \o b = packet \o (<<x>> \o b)
    BY <1>4, Associates DEF StepHyps, TypeOK
  <2>3. packet' \o Buffered' = packet \o Buffered
    BY <1>1, <1>7, <2>1, <2>2 DEF SegmentsOK
  <2>4. Stream' = Stream
    BY <1>2, <2>3 DEF Stream
  <2> QED BY <1>1, <1>2, <2>4, StreamKept DEF StepHyps, StepNext, SegmentsOK
<1> QED BY <1>3, <1>8, <1>9 DEF x

\* The other steps of the main loop.
LEMMA MainStream ==
  ASSUME StepHyps, StepNext, Main, ~Check, ~Get
  PROVE  StreamInv'
<1>1. SegmentsOK /\ SegmentsOK' /\ GroupsOK /\ GroupsOK' /\ Sound
  BY Parts
<1>2. /\ UNCHANGED <<reading, part, got, run, n, cells>> /\ Live' = Live
      /\ timer' => timer
      /\ Ordered(got') /\ (Whole' => Chained(got')) /\ (reading' # "poll" => part' = <<>>)
  <2>1. StopTimer => ~timer'
    BY DEF StopTimer
  <2>2. timer' => timer
    BY <2>1, MainLeaves
  <2> QED BY <2>2, MainLeaves, GotStays DEF StepHyps, StepNext, StreamInv
<1>3. UNCHANGED <<packet, rd>> /\ BufLen' = BufLen
  <2>1. CASE Top \/ StopState \/ StopTimer \/ ToLogic
    BY <2>1 DEF Top, StopState, StopTimer, ToLogic, At, packetVars, BufLen
  <2>2. CASE LoadCount \/ Room \/ Send
    BY <2>2 DEF LoadCount, Room, Send, At, BufLen
  <2>3. CASE StoreCount
    <3>1. pc = "store" /\ pc' \in {"room", "get", "send"} /\ count' = count - 1
      BY <1>1, <2>3 DEF StoreCount, NextGet, At, StepHyps, BufferInv
    <3> QED BY <2>3, <3>1 DEF StoreCount, BufLen
  <2> QED BY <2>1, <2>2, <2>3 DEF Main
<1>4. Buffered' = Buffered
  BY <1>2, <1>3 DEF Buffered, Place
<1>5. Stream' = Stream
  BY <1>2, <1>3, <1>4 DEF Stream
<1> QED BY <1>1, <1>2, <1>5, StreamKept DEF StepHyps, StepNext, SegmentsOK

-----------------------------------------------------------------------------
(* The stream: the client                                                   *)

\* A beginning of a sequence in order, or whole, is so itself.
LEMMA Beginning ==
  ASSUME NEW s \in Seq(Samples), NEW c \in Seq(Samples), NEW t \in Seq(Samples),
         NEW r, NEW k,
         Len(t) <= Len(s), \A i \in 1..Len(t) : t[i] = s[i]
  PROVE  /\ Ascending(s \o c) /\ UpTo(s \o c, r, k) => Ordered(t)
         /\ Chained(s \o c) => Chained(t)
<1>1. Len(s) \in Nat /\ Len(t) \in Nat /\ Len(c) \in Nat
  BY LenProperties
<1>2. /\ Len(s \o c) = Len(s) + Len(c)
      /\ \A i \in 1..Len(s) : (s \o c)[i] = s[i]
  BY Joined
<1>3. \A i \in 1..Len(t) : i \in 1..Len(s \o c) /\ (s \o c)[i] = t[i]
  BY <1>1, <1>2
<1>4. Ascending(s \o c) /\ UpTo(s \o c, r, k) => Ordered(t)
  BY <1>3 DEF Ordered, Ascending, UpTo
<1>5. Chained(s \o c) => Chained(t)
  <2> SUFFICES ASSUME Chained(s \o c), NEW i \in 1..(Len(t) - 1), t[i].run = t[i + 1].run
               PROVE  t[i].n + 1 = t[i + 1].n
    BY DEF Chained
  <2>1. i \in 1..Len(t) /\ i + 1 \in 1..Len(t) /\ i \in 1..(Len(s \o c) - 1)
    BY <1>1, <1>2
  <2>2. (s \o c)[i] = t[i] /\ (s \o c)[i + 1] = t[i + 1]
    BY <1>3, <2>1
  <2> QED BY <2>1, <2>2 DEF Chained
<1> QED BY <1>4, <1>5

\* A step of the client leaves the buffer, the recording and the timer.
LEMMA ClientLeaves ==
  ASSUME Client
  PROVE  /\ UNCHANGED <<run, n, cells, rd, count, pc, timer>>
         /\ Buffered' = Buffered /\ (~Open /\ ~In => packet' = packet)
<1>1. /\ UNCHANGED <<run, n, cells, rd, count, pc, timer>>
      /\ ~Open /\ ~In => packet' = packet
  BY DEF Client, Call, Open, SendCommand, BeginRead, Ask, In, Timeout, deviceVars, fifo1Vars, fifoVars,
         modeVars, mainVars, history
<1> QED BY <1>1 DEF Buffered, BufLen, Place

\* A configuration set drops what the FIFO has, sent or half filled.
LEMMA OpenStream ==
  ASSUME StepHyps, StepNext, Open
  PROVE  StreamInv'
<1>1. SegmentsOK /\ SegmentsOK' /\ GroupsOK /\ GroupsOK' /\ Sound
  BY Parts
<1>2. /\ UNCHANGED <<reading, part, got, run, n, timer, pc>> /\ Live' = Live
      /\ Buffered' = Buffered
  BY ClientLeaves DEF Client, Open, Live
<1>3. Ordered(got') /\ (Whole' => Chained(got')) /\ (reading' # "poll" => part' = <<>>)
  BY <1>2, GotStays DEF StepHyps, StepNext, StreamInv
<1>4. packet' = <<>>
  BY DEF Open
<1>5. Whole' => packet = <<>>
  <2>1. Whole' => ~armed.en /\ ~Filling
    BY WholeStays DEF Open, Upset, StepNext
  <2> QED BY <2>1 DEF StepHyps, FifoInv
<1> DEFINE a == Live \o part
<1>6. /\ a \in Seq(Samples) /\ packet \in Seq(Samples) /\ Buffered \in Seq(Samples)
      /\ Stream = a \o (packet \o Buffered) /\ Stream' = a' \o (packet' \o Buffered')
  BY <1>1 DEF SegmentsOK, GroupsOK
<1>7. a' = a
  BY <1>2
<1> HIDE DEF a
<1>8. Stream' = a \o Buffered
  BY <1>2, <1>4, <1>6, <1>7, ConcatEmptySeq
<1> QED BY <1>2, <1>3, <1>5, <1>6, <1>8, StreamDrops DEF StepHyps, StepNext

\* A timeout drops what the bulk read had.
LEMMA TimeoutStream ==
  ASSUME StepHyps, StepNext, Timeout
  PROVE  StreamInv'
<1>1. SegmentsOK /\ SegmentsOK' /\ GroupsOK /\ GroupsOK' /\ Sound
  BY Parts
<1>2. UNCHANGED <<run, n, timer>> /\ Buffered' = Buffered
  BY ClientLeaves DEF Client
<1>3. /\ got' = got /\ part' = <<>> /\ packet' = packet /\ Live' = Live
      /\ Whole' => part = <<>>
  BY WholeStays DEF Timeout, Live, Upset, StepNext, fifo1Vars
<1>4. Ordered(got') /\ (Whole' => Chained(got'))
  BY <1>3, GotStays DEF StepHyps, StepNext
<1> DEFINE c == packet \o Buffered
<1>5. c \in Seq(Samples) /\ part \in Seq(Samples) /\ Live \in Seq(Samples)
  BY <1>1, ConcatProperties DEF SegmentsOK, GroupsOK
<1>6. Stream = Live \o (part \o c)
  BY DEF Stream
<1>7. Stream' = Live \o c
  <2>1. Stream' = Live' \o (part' \o c)
    BY <1>2, <1>3 DEF Stream
  <2> HIDE DEF c
  <2>2. <<>> \o c = c
    BY <1>5, ConcatEmptySeq
  <2> QED BY <1>3, <2>1, <2>2
<1> HIDE DEF c
<1> QED BY <1>2, <1>3, <1>4, <1>5, <1>6, <1>7, StreamDrops DEF StepHyps, StepNext

\* What the host fetches goes to the end of what the bulk read has; when the read is
\* over the caller has it, or a beginning of it.
LEMMA InStream ==
  ASSUME StepHyps, StepNext, In
  PROVE  StreamInv'
<1>1. SegmentsOK /\ SegmentsOK' /\ GroupsOK /\ GroupsOK' /\ Sound
  BY Parts
<1>2. UNCHANGED <<run, n, timer>> /\ Buffered' = Buffered
  BY ClientLeaves DEF Client
<1>3. reading = "poll" /\ armed.en /\ packet' = <<>> /\ Live = got
  BY DEF In, Live
<1> DEFINE rest == Buffered
           data == part \o packet
<1>4. /\ rest \in Seq(Samples) /\ data \in Seq(Samples) /\ got \in Seq(Samples)
      /\ packet \in Seq(Samples) /\ part \in Seq(Samples)
      /\ got \o part \in Seq(Samples) /\ got \o data \in Seq(Samples)
      /\ Stream = (got \o part) \o (packet \o rest)
      /\ Stream = (got \o data) \o rest
  BY <1>1, <1>3 DEF GroupsOK, SegmentsOK, Before
<1>5. rest' = rest
  BY <1>2
<1>6. /\ Stream' = (Live' \o part') \o (packet' \o rest')
      /\ part' \in Seq(Samples) /\ Live' \in Seq(Samples) /\ Live' \o part' \in Seq(Samples)
  BY <1>1 DEF GroupsOK, SegmentsOK
<1> HIDE DEF rest, data
<1>7. packet' \o rest' = rest
  BY <1>3, <1>4, <1>5, ConcatEmptySeq
<1>8. Stream' = (Live' \o part') \o rest
  BY <1>6, <1>7
<1>9. CASE armed.pid # pid
  <2>1. got' = got /\ part' = part /\ reading' = reading
    BY <1>9 DEF In
  <2>2. ~Whole'
    BY <1>3, <1>9, WholeStays, WholeIsSound DEF StepHyps, StepNext, PidInv
  <2>3. Ordered(got') /\ (Whole' => Chained(got'))
    BY <2>1, GotStays DEF StepHyps, StepNext
  <2>4. Stream' = (got \o part) \o rest
    BY <1>3, <1>8, <2>1 DEF Live
  <2> DEFINE a == got \o part
  <2>5. a \in Seq(Samples) /\ Stream = a \o (packet \o rest) /\ Stream' = a \o rest
    BY <1>4, <2>4
  <2> HIDE DEF a
  <2> QED BY <1>2, <1>3, <1>4, <2>1, <2>2, <2>3, <2>5, StreamDrops DEF StepHyps, StepNext
<1>10. CASE armed.pid = pid /\ part' = data /\ UNCHANGED <<got, reading>>
  <2>1. Ordered(got') /\ (Whole' => Chained(got'))
    BY <1>10, GotStays DEF StepHyps, StepNext
  <2>2. Stream' = Stream
    BY <1>3, <1>4, <1>8, <1>10 DEF Live
  <2> QED BY <1>1, <1>2, <1>3, <1>10, <2>1, <2>2, StreamKept DEF StepHyps, StepNext, SegmentsOK
<1>11. CASE armed.pid = pid /\ EndBulkRead(data)
  <2>1. /\ Len(got') \in 0..Len(got \o data) /\ got' \in Seq(Samples) /\ part' = <<>>
        /\ \A i \in 1..Len(got') : got'[i] = (got \o data)[i]
        /\ reading' \in {"no", "ask"}
        /\ reading' = "ask" => got' = got \o data
    BY <1>4, <1>11, EndBulkReadKeeps DEF StepHyps
  <2> DEFINE all == got \o data
  <2>2. all \in Seq(Samples) /\ Stream = all \o rest /\ Len(all) \in Nat
    BY <1>4, LenProperties
  <2>3. /\ Len(got') \in 0..Len(all) /\ \A i \in 1..Len(got') : got'[i] = all[i]
        /\ reading' = "ask" => got' = all
    BY <2>1
  <2> HIDE DEF all
  <2>4. /\ Ascending(all \o rest) /\ UpTo(all \o rest, run, n)
        /\ Whole' => Chained(all \o rest)
    BY <1>1, <2>2, WholeStays DEF StepHyps, StepNext, StreamInv
  <2>5. Ordered(got') /\ (Whole' => Chained(got'))
    <3>1. Len(got') <= Len(all)
      BY <2>2, <2>3
    <3> QED BY <1>4, <2>1, <2>2, <2>3, <2>4, <3>1, Beginning
  <2>6. CASE reading' = "ask"
    <3>1. Live' \o part' = all
      <4>1. all \o <<>> = all
        BY <2>2, ConcatEmptySeq
      <4> QED BY <2>1, <2>3, <2>6, <4>1 DEF Live
    <3>2. Stream' = Stream
      BY <1>8, <2>2, <3>1
    <3> QED BY <1>1, <1>2, <2>1, <2>5, <3>2, StreamKept DEF StepHyps, StepNext, SegmentsOK
  <2>7. CASE reading' = "no"
    <3>1. <<>> \in Seq(Samples) /\ <<>> \o <<>> = <<>> /\ all \o rest \in Seq(Samples)
      BY <1>4, <2>2, Nothing, ConcatEmptySeq, ConcatProperties
    <3>2. Stream' = <<>> \o rest
      BY <1>8, <2>1, <2>7, <3>1 DEF Live
    <3>3. Stream = <<>> \o (all \o rest)
      BY <2>2, <3>1, ConcatEmptySeq
    <3> QED BY <1>2, <1>4, <2>1, <2>2, <2>5, <3>1, <3>2, <3>3, StreamDrops DEF StepHyps, StepNext
  <2> QED BY <2>1, <2>6, <2>7
<1> QED BY <1>9, <1>10, <1>11 DEF In, data

\* The other steps of the client.
LEMMA ClientStream ==
  ASSUME StepHyps, StepNext, Client, ~Open, ~In, ~Timeout
  PROVE  StreamInv'
<1>1. SegmentsOK /\ SegmentsOK' /\ GroupsOK /\ GroupsOK' /\ Sound
  BY Parts
<1>2. UNCHANGED <<run, n, timer>> /\ Buffered' = Buffered /\ packet' = packet
  BY ClientLeaves
<1>3. /\ got' = got \/ got' = <<>>
      /\ part' = part /\ Live' = Live /\ (reading' # "poll" => part' = <<>>)
  <2>1. CASE (\E c \in Calls : Call(c)) \/ SendCommand
    BY <2>1 DEF Call, SendCommand, Live, StepHyps, StreamInv
  <2>2. CASE BeginRead
    BY <2>2 DEF BeginRead, Live, StepHyps, StreamInv
  <2>3. CASE Ask
    BY <2>3 DEF Ask, Live, StepHyps, StreamInv
  <2> QED BY <2>1, <2>2, <2>3 DEF Client
<1>4. Ordered(got') /\ (Whole' => Chained(got'))
  BY <1>3, GotStays DEF StepHyps, StepNext
<1>5. Stream' = Stream
  BY <1>2, <1>3 DEF Stream
<1> QED BY <1>1, <1>2, <1>3, <1>4, <1>5, StreamKept DEF StepHyps, StepNext, SegmentsOK

\* The other interrupts.
LEMMA InterruptStream ==
  ASSUME StepHyps, StepNext,
         (Interrupt /\ ~Sample /\ ~StartScope /\ ~StopScope /\ ~GetState) \/ UNCHANGED vars
  PROVE  StreamInv'
<1>1. SegmentsOK /\ SegmentsOK' /\ GroupsOK /\ GroupsOK' /\ Sound
  BY Parts
<1>2. UNCHANGED <<run, n, timer, cells, rd, count, pc, packet, part, got, reading>>
  BY DEF Interrupt, SampleTriggered, VScopeCommand, SetMode, GetData, SetTrigger, PingPong,
         Handle, Take, fifo1Vars, vars, fifoVars, modeVars, mainVars, clientVars, history
<1>3. Stream' = Stream
  BY <1>2 DEF Stream, Live, Buffered, BufLen, Place
<1>4. Ordered(got') /\ (Whole' => Chained(got')) /\ (reading' # "poll" => part' = <<>>)
  BY <1>2, GotStays DEF StepHyps, StepNext, StreamInv
<1> QED BY <1>1, <1>2, <1>3, <1>4, StreamKept DEF StepHyps, StepNext, SegmentsOK

\* The answer to a query takes the place of what the FIFO has, sent or half filled.
LEMMA QueryStream ==
  ASSUME StepHyps, StepNext, GetState
  PROVE  StreamInv'
<1>1. SegmentsOK /\ SegmentsOK' /\ GroupsOK /\ GroupsOK' /\ Sound
  BY Parts
<1>2. /\ UNCHANGED <<run, n, timer, cells, rd, count, pc, part, got, reading>>
      /\ packet' = <<StateByte>> /\ "queried" \in upset'
  BY DEF GetState, Take, Upset, fifoVars, modeVars, mainVars, clientVars
<1>3. ~Whole'
  BY <1>2 DEF Whole
<1>4. Ordered(got') /\ (reading' # "poll" => part' = <<>>)
  BY <1>2, GotStays DEF StepHyps, StepNext, StreamInv
<1>5. Buffered' = Buffered
  BY <1>2 DEF Buffered, BufLen, Place
<1> DEFINE a == Live \o part
<1>6. /\ a \in Seq(Samples) /\ packet \in Seq(Samples) /\ Buffered \in Seq(Samples)
      /\ Stream = a \o (packet \o Buffered) /\ Stream' = a' \o (packet' \o Buffered')
  BY <1>1 DEF SegmentsOK, GroupsOK
<1>7. a' = a
  BY <1>2 DEF Live
<1>8. Ascending(Stream) /\ UpTo(Stream, run, n) /\ run \in Nat /\ n \in Nat
  BY <1>1 DEF StepHyps, StreamInv, TypeOK
<1> HIDE DEF a
<1>9. Ascending(a \o (<<StateByte>> \o Buffered)) /\ UpTo(a \o (<<StateByte>> \o Buffered), run, n)
  BY <1>6, <1>8, ReplaceOrder
<1>10. Stream' = a \o (<<StateByte>> \o Buffered)
  BY <1>2, <1>5, <1>6, <1>7
<1>11. Ordered(got)' /\ Ascending(Stream)' /\ UpTo(Stream, run, n)'
  BY <1>2, <1>4, <1>9, <1>10 DEF Ordered, Ascending, UpTo
<1> QED BY <1>3, <1>4, <1>11 DEF StreamInv

-----------------------------------------------------------------------------
(* What a read brings                                                       *)

StreamIInv == FirstInv /\ BufferInv /\ StreamInv

LEMMA StreamInit == Init => StreamIInv
<1> SUFFICES ASSUME Init PROVE StreamIInv
  OBVIOUS
<1>1. /\ rd = 0 /\ wr = 0 /\ count = 0 /\ pc = "top" /\ reading = "no" /\ part = <<>>
      /\ got = <<>> /\ packet = <<>> /\ timer = FALSE /\ Depth \in Nat \ {0}
  BY Constants DEF Init
<1>2. BufferInv
  BY <1>1 DEF BufferInv, BufLen, Place
<1>3. BufLen = 0 /\ Live = <<>> /\ ~timer
  BY <1>1 DEF BufLen, Live
<1>4. Buffered = <<>>
  BY <1>3 DEF Buffered
<1>5. Stream = <<>>
  <2>1. <<>> \o <<>> = <<>>
    BY Nothing, ConcatEmptySeq
  <2> QED BY <1>1, <1>3, <1>4, <2>1 DEF Stream
<1>6. StreamInv
  BY <1>1, <1>3, <1>5, Nothing DEF StreamInv, Ordered, Ascending, UpTo, Chained
<1> QED BY <1>2, <1>6, FirstInit DEF StreamIInv

LEMMA StreamStep == StreamIInv /\ [Next]_vars => StreamIInv'
<1> SUFFICES ASSUME StreamIInv, [Next]_vars
             PROVE  StreamIInv'
  OBVIOUS
<1>1. FirstInv' /\ BufferInv' /\ TypeOK'
  BY FirstStep, BufferStep DEF StreamIInv, FirstInv
<1>2. CASE Sound'
  <2>1. StepHyps /\ StepNext
    BY <1>1, <1>2 DEF StepHyps, StepNext, StreamIInv, FirstInv
  <2>2. Interrupt \/ UNCHANGED vars => StreamInv'
    BY <2>1, SampleStream, StartStopStream, QueryStream, InterruptStream
  <2>3. Main => StreamInv'
    BY <2>1, CheckStream, GetStream, MainStream
  <2>4. Client => StreamInv'
    BY <2>1, OpenStream, InStream, TimeoutStream, ClientStream
  <2> QED BY <1>1, <2>2, <2>3, <2>4 DEF Next, StreamIInv
<1>3. CASE ~Sound'
  <2>1. ~Whole'
    BY <1>3 DEF Whole, Sound, Without
  <2>2. reading' # "poll" => part' = <<>>
    <3>1. reading # "poll" => part = <<>>
      BY DEF StreamIInv, StreamInv
    <3>2. CASE In
      <4>1. reading = "poll"
        BY <3>2 DEF In
      <4>2. CASE EndBulkRead(part \o packet)
        BY <4>2 DEF EndBulkRead
      <4> QED BY <3>2, <4>1, <4>2 DEF In
    <3>3. CASE Client /\ ~In
      BY <3>1, <3>3 DEF Client, Call, Open, SendCommand, BeginRead, Ask, Timeout
    <3>4. CASE Interrupt \/ Main \/ UNCHANGED vars
      BY <3>1, <3>4, MainLeaves
         DEF Interrupt, SampleTriggered, Sample, VScopeCommand, SetMode, StartScope, StopScope,
             GetData, GetState, SetTrigger, PingPong, Handle, Take, fifo1Vars, clientVars, vars
    <3> QED BY <3>2, <3>3, <3>4 DEF Next
  <2>3. StreamInv'
    BY <1>3, <2>1, <2>2 DEF StreamInv
  <2> QED BY <1>1, <2>3 DEF StreamIInv
<1> QED BY <1>2, <1>3

\* What a read brings is in the order it was sampled in, nothing twice, and nothing
\* is left out of it, however the sampling timer, the commands, the main loop and the
\* client's timeouts fall together: but for the events each part is excused by.
THEOREM ReadsRecording == Spec => []ReadIsRecording
<1>1. StreamIInv => ReadIsRecording
  <2> SUFFICES ASSUME StreamIInv PROVE ReadIsRecording
    OBVIOUS
  <2>1. Len(got) \in Nat /\ \A i \in 1..(Len(got) - 1) : i \in 1..Len(got) /\ i + 1 \in 1..Len(got)
    BY LenProperties DEF StreamIInv, FirstInv, TypeOK
  <2>2. InSequence
    <3>1. Sound => \A i, j \in 1..Len(got) :
                     got[i] # Junk /\ (i < j => InOrder(got[i], got[j]))
      BY DEF StreamIInv, StreamInv, Ordered, Ascending
    <3> QED BY <3>1 DEF InOrder, InSequence, Sound
  <2>3. Gapless
    BY <2>1 DEF StreamIInv, StreamInv, Whole, Chained, Gapless
  <2> QED BY <2>2, <2>3 DEF ReadIsRecording
<1> QED BY <1>1, StreamInit, StreamStep, PTL DEF Spec
=============================================================================
