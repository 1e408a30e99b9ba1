------------------------------- MODULE UsbFlash -------------------------------
(***************************************************************************)
(* The AT89 programmer (applications/usbflash): a tool that is run to      *)
(* erase, to upload a file or to reset (usbflash/usbflash.c), and firmware *)
(* that handles each packet in the USB interrupt (main.c, devices/at89.c). *)
(* The tool looks at no result and knows nothing of the run before.  A     *)
(* byte of a file is the file with its position; the constants stand for   *)
(* the 59 bytes of a packet and the 2^14 addresses of a write command.     *)
(***************************************************************************)
EXTENDS Integers

CONSTANTS
  FileSizes,  \* sizes of the files that are uploaded
  Room,       \* bytes of a file in a packet
  Cells,  \* addresses of the target's memory
  MaxRuns     \* bound on the runs of the tool

ASSUME FlashAssumption ==
  /\ Room \in Nat \ {0} /\ Cells \in Nat /\ Cells >= Room
  /\ FileSizes \subseteq Nat /\ MaxRuns \in Nat

VARIABLES
  tool,      \* what the tool is doing
  image,     \* the file of this upload or the last: a number, its size
  at,        \* addr in at89_upload: bytes sent
  memory,    \* the target's memory
  unsent,    \* history: positions of the file whose packet was lost
  fresh,     \* history: was the memory erased before this upload, or the last?
  toolRuns   \* bound

flashVars == <<tool, image, at, memory, unsent, fresh, toolRuns>>

Erased == <<0, -1>>
Mixed  == <<0, -2>>
ByteOf(k) == <<image.number, k>>

\* Programming a byte clears bits; the -1 of fgetc at the end of a file clears none.
Programmed(cell, k) ==
  IF k = image.size THEN cell
  ELSE IF cell \in {Erased, ByteOf(k)} THEN ByteOf(k) ELSE Mixed

FlashInit ==
  /\ tool = "none" /\ at = 0
  /\ image = [number |-> 0, size |-> 0]
  /\ memory = [a \in 0..(Cells - 1) |-> Mixed]
  /\ unsent = {} /\ fresh = FALSE /\ toolRuns = 0

-----------------------------------------------------------------------------
(* The firmware                                                             *)

At89FlashErase == memory' = [a \in DOMAIN memory |-> Erased]

\* At89FlashWrite: len bytes from an address on, which At89WriteCode cuts to the
\* bits of its command.
\* Mutant: the last byte of a packet is left out.
At89FlashWriteShort(addr, len) ==
  memory' = [a \in DOMAIN memory |->
    LET here == {k \in addr..(addr + len - 2) : k % Cells = a}
    IN IF here = {} THEN memory[a] ELSE Programmed(memory[a], CHOOSE k \in here : TRUE)]

At89FlashWrite(addr, len) ==
  memory' = [a \in DOMAIN memory |->
    LET here == {k \in addr..(addr + len - 1) : k % Cells = a}
    IN IF here = {} THEN memory[a] ELSE Programmed(memory[a], CHOOSE k \in here : TRUE)]

-----------------------------------------------------------------------------
(* The tool                                                                 *)

Run(what) ==
  /\ tool = "none" /\ toolRuns < MaxRuns
  /\ tool' = what /\ toolRuns' = toolRuns + 1

RunErase ==
  /\ Run("erase")
  /\ UNCHANGED <<image, at, memory, unsent, fresh>>

RunUpload(size) ==
  /\ Run("upload")
  /\ image' = [number |-> image.number + 1, size |-> size]
  /\ at' = 0 /\ unsent' = {}
  /\ fresh' = (\A a \in DOMAIN memory : memory[a] = Erased)
  /\ UNCHANGED memory

\* Command 0: the firmware has no branch for it (at89_reset, USBFlash).
RunReset ==
  /\ Run("reset")
  /\ UNCHANGED <<image, at, memory, unsent, fresh>>

Reset ==
  /\ tool = "reset" /\ tool' = "none"
  /\ UNCHANGED <<image, at, memory, unsent, fresh, toolRuns>>

\* at89_erase waits 1 ms for its packet to be taken.
Erase(taken) ==
  /\ tool = "erase" /\ tool' = "none"
  /\ IF taken THEN At89FlashErase ELSE UNCHANGED memory
  /\ fresh' = (fresh /\ ~taken)
  /\ UNCHANGED <<image, at, unsent, toolRuns>>

\* at89_upload: feof is seen only after fgetc has failed, so one byte more than
\* the file goes out, be it in a packet of its own.
Upload(taken) ==
  LET left == image.size + 1 - at
      len  == IF left < Room THEN left ELSE Room
  IN
  /\ tool = "upload"
  /\ IF taken THEN At89FlashWrite(at, len) ELSE UNCHANGED memory
  /\ unsent' = IF taken THEN unsent ELSE unsent \cup (at..(at + len - 1))
  /\ at' = at + len
  /\ tool' = IF at' > image.size THEN "none" ELSE "upload"
  /\ UNCHANGED <<image, fresh, toolRuns>>

FlashNext ==
  \/ RunErase \/ RunReset \/ Reset
  \/ \E size \in FileSizes : RunUpload(size)
  \/ \E taken \in BOOLEAN : Erase(taken) \/ Upload(taken)

FlashSpec == FlashInit /\ [][FlashNext]_flashVars

-----------------------------------------------------------------------------
(* Properties                                                               *)

\* After the upload of a file that fits, to memory that was erased before it, the
\* memory is the file and nothing else, but for the bytes of the packets that were
\* lost, which are still erased.
MemoryIsFile ==
  tool = "none" /\ fresh /\ image.size <= Cells =>
    \A a \in DOMAIN memory :
      memory[a] = IF a < image.size /\ a \notin unsent THEN ByteOf(a) ELSE Erased
=============================================================================
