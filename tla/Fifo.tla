-------------------------------- MODULE Fifo --------------------------------
(***************************************************************************)
(* The ring buffer of firmware/usbn960x/fifo.h and fifo.c between an       *)
(* interrupt handler that puts (the sampling timer of the logic analyzer)  *)
(* and a consumer that gets: either another handler, which nothing         *)
(* interrupts (vscope.c), or the main loop, which an interrupt may stop    *)
(* between any two memory accesses (main.c; the cli() and the lock around  *)
(* `count' are commented out).  A third handler, a start command of the    *)
(* host, may call fifo_init.                                               *)
(*                                                                         *)
(* `count' has two bytes and the controller moves one at a time, so the    *)
(* consumer's count-- is five steps: load low, load high, subtract, store  *)
(* high, store low.  It is kept as the value of its high byte (a multiple  *)
(* of Byte) and of its low byte.                                           *)
(***************************************************************************)
EXTENDS Integers

CONSTANTS
  Size,           \* bytes of the buffer
  Data,           \* what is put
  Nothing,        \* -1, returned by fifo_get_nowait from an empty buffer
  Unset,          \* a buffer cell fifo_put has not written
  Byte, Word,     \* values of a byte and of an int: 256 and 65536
  Interruptible,  \* may an interrupt come within fifo_get?
  Restarts,       \* may a handler call fifo_init?
  MaxHeld         \* bound on the history variable held

ASSUME FifoAssumption ==
  /\ Size \in Nat \ {0}
  /\ Nothing \notin Data
  /\ Byte \in Nat \ {0} /\ Word = Byte * Byte /\ 2 * Size < Word
  /\ Interruptible \in BOOLEAN /\ Restarts \in BOOLEAN
  /\ MaxHeld \in Nat /\ MaxHeld >= Size

VARIABLES
  high, low,            \* the bytes of f->count
  pread, pwrite,        \* pointers, as indices of the buffer
  read2end, write2end,  \* what is left up to the end of the buffer
  buf,
  pc,                   \* where the consumer is in fifo_get
  data, lread, lend,    \* locals of _inline_fifo_get
  llow, lcount,         \* registers of its count--
  out,                  \* what the last fifo_get returned
  held                  \* history: elements put and not taken

pointers == <<pread, pwrite, read2end, write2end>>
locals   == <<data, lread, lend, llow, lcount>>
vars     == <<high, low, pointers, buf, pc, locals, out, held>>

Low(n)  == n % Byte
High(n) == n - Low(n)
Count   == high + low

\* count is signed: the comparison with size sees a wrapped value as negative.
Signed(n) == IF 2 * n >= Word THEN n - Word ELSE n

SetCount(n) == high' = High(n) /\ low' = Low(n)

\* Mutant: the wrap comes one cell late.
LateNextPointer(p, left) == IF left = 0 THEN p + 1 - Size ELSE p + 1

\* Past the last cell a pointer goes back by the whole size.
NextPointer(p, left) == IF left = 1 THEN p + 1 - Size ELSE p + 1
NextLeft(left)       == IF left = 1 THEN Size ELSE left - 1

\* Mutant: the comparison of fifo_put is off by one.
LateFull == Signed(Count) > Size

Full == Signed(Count) >= Size

\* One handler runs at a time, and never within a get that is one itself.
HandlerMayRun == Interruptible \/ pc = "idle"

Init ==
  /\ high = 0 /\ low = 0
  /\ pread = 0 /\ pwrite = 0
  /\ read2end = Size /\ write2end = Size
  /\ buf = [i \in 0..(Size - 1) |-> Unset]
  /\ pc = "idle"
  /\ data = Unset /\ lread = 0 /\ lend = Size
  /\ llow = 0 /\ lcount = 0
  /\ out = Nothing
  /\ held = 0

\* fifo_init, called by the handler of a start command.
FifoInit ==
  /\ Restarts /\ HandlerMayRun
  /\ SetCount(0)
  /\ pread' = 0 /\ pwrite' = 0
  /\ read2end' = Size /\ write2end' = Size
  /\ held' = 0
  /\ UNCHANGED <<buf, pc, locals, out>>

\* fifo_put; a full buffer refuses.
Put(d) ==
  /\ HandlerMayRun /\ held < MaxHeld
  /\ ~Full
  /\ buf' = [buf EXCEPT ![pwrite] = d]
  /\ pwrite' = NextPointer(pwrite, write2end)
  /\ write2end' = NextLeft(write2end)
  /\ SetCount(IF Count = Word - 1 THEN 0 ELSE Count + 1)
  /\ held' = held + 1
  /\ UNCHANGED <<pread, read2end, pc, locals, out>>

-----------------------------------------------------------------------------
(* fifo_get_nowait; fifo_get_wait starts with Fetch and has no GetNothing.  *)

GetNothing ==
  /\ pc = "idle" /\ Count = 0
  /\ out' = Nothing
  /\ UNCHANGED <<high, low, pointers, buf, pc, locals, held>>

\* The element and the new pointer are computed in locals.
Fetch ==
  /\ pc = "idle" /\ Count # 0 /\ held > -MaxHeld
  /\ data' = buf[pread]
  /\ lread' = NextPointer(pread, read2end)
  /\ lend' = NextLeft(read2end)
  /\ pc' = "pread"
  /\ held' = held - 1
  /\ UNCHANGED <<high, low, pointers, buf, llow, lcount, out>>

StoreRead ==
  /\ pc = "pread"
  /\ pread' = lread
  /\ pc' = "read2end"
  /\ UNCHANGED <<high, low, pwrite, read2end, write2end, buf, locals, out, held>>

StoreEnd ==
  /\ pc = "read2end"
  /\ read2end' = lend
  /\ pc' = "loadlow"
  /\ UNCHANGED <<high, low, pread, pwrite, write2end, buf, locals, out, held>>

LoadLow ==
  /\ pc = "loadlow"
  /\ llow' = low
  /\ pc' = "loadhigh"
  /\ UNCHANGED <<high, low, pointers, buf, data, lread, lend, lcount, out, held>>

LoadHigh ==
  /\ pc = "loadhigh"
  /\ lcount' = IF high + llow = 0 THEN Word - 1 ELSE high + llow - 1
  /\ pc' = "storehigh"
  /\ UNCHANGED <<high, low, pointers, buf, data, lread, lend, llow, out, held>>

\* Mutant: count-- touches one byte only.
StoreNoHigh ==
  /\ pc = "storehigh"
  /\ pc' = "storelow"
  /\ UNCHANGED <<high, low, pointers, buf, locals, out, held>>

StoreHigh ==
  /\ pc = "storehigh"
  /\ high' = High(lcount)
  /\ pc' = "storelow"
  /\ UNCHANGED <<low, pointers, buf, locals, out, held>>

StoreLow ==
  /\ pc = "storelow"
  /\ low' = Low(lcount)
  /\ out' = data
  /\ pc' = "idle"
  /\ UNCHANGED <<high, pointers, buf, locals, held>>

Get == Fetch \/ StoreRead \/ StoreEnd \/ LoadLow \/ LoadHigh \/ StoreHigh \/ StoreLow

Next == FifoInit \/ (\E d \in Data : Put(d)) \/ GetNothing \/ Get

Spec == Init /\ [][Next]_vars

-----------------------------------------------------------------------------
(* Properties *)

Cells == 0..(Size - 1)
Steps == {"idle", "pread", "read2end", "loadlow", "loadhigh", "storehigh",
          "storelow"}

TypeOK ==
  /\ high \in Int /\ low \in Int
  /\ pread \in Cells /\ pwrite \in Cells
  /\ read2end \in 1..Size /\ write2end \in 1..Size
  /\ buf \in [Cells -> Data \cup {Unset}]
  /\ pc \in Steps
  /\ data \in Data \cup {Unset}
  /\ lread \in Cells /\ lend \in 1..Size
  /\ llow \in Int /\ lcount \in Int
  /\ out \in Data \cup {Unset, Nothing}
  /\ held \in Int

\* Neither pointer runs past the buffer: what an unsynchronised count does, each
\* side keeps its own pointer and its distance to the end in step
\* (_inline_fifo_put, _inline_fifo_get).
PointersInBuffer ==
  /\ pwrite \in Cells /\ pwrite + write2end = Size
  /\ pread \in Cells /\ (pc # "read2end" => pread + read2end = Size)

\* read2end is the "number of free signs till overlow" (fifo.h, line 15).
ReadToEnd == pc = "idle" => pread + read2end = Size

\* count is the "number of data in buffer" (fifo.h, line 11).
CountIsFill == pc = "idle" => Count = held

\* What the buffer holds, oldest first: the cells before the write pointer.  A
\* get takes effect when the last byte of count is stored.
Logical == IF pc = "storelow" THEN lcount + 1 ELSE Count
Slot(i) == LET k == pwrite - Logical + i - 1 IN IF k < 0 THEN k + Size ELSE k

\* The buffer is a queue: nothing is lost, repeated or reordered by a wrap
\* around of a pointer, by a full or an empty buffer or by fifo_init.
Queue == INSTANCE BoundedQueue WITH queue <- [i \in 1..Logical |-> buf[Slot(i)]]
QueueSpec == Queue!Spec
=============================================================================
