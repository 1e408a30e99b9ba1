----------------------------- MODULE AtKeyboard -----------------------------
(***************************************************************************)
(* The AT keyboard library (applications/hidkeyboard/atkeyb.c): scan codes *)
(* arrive in the clock interrupt, decode turns them into characters for a  *)
(* ring buffer, and the program reads them with atkeyb_getchar while       *)
(* interrupts go on.  The bits of a frame are one step, and no clock edge  *)
(* is missed.  A character is the number of the keystroke it is from.      *)
(***************************************************************************)
EXTENDS Integers, Sequences

CONSTANTS
  Letters,   \* keys the tables of decode list
  Others,    \* keys they do not
  BuffSize,  \* BUFF_SIZE
  MaxStrokes \* bound: codes of a behaviour that are no release

ASSUME KeyboardAssumption ==
  /\ BuffSize \in Nat \ {0} /\ MaxStrokes \in Nat
  /\ "none" \notin Letters \cup Others   \* what releasing is when no key comes up

VARIABLES
  held, releasing,               \* keyboard: keys down; one of them coming up
  isUp, shift, mode,             \* statics of decode
  kbBuffer, inpt, outpt, buffcnt, \* kb_buffer, positions, atkeyb_buffcnt
  getPc, getReg,                 \* atkeyb_getchar and its copy of the count
  typed, read, strokes, slips,   \* history: keys put and read, the bound, and
                                 \* how many counts of the interrupt were lost
  counted                        \* history: the shift keys that went down, or
                                 \* repeated, since the last one came up

decodeVars == <<isUp, shift, mode>>
bufferVars == <<kbBuffer, inpt, outpt, buffcnt>>
keyVars == <<held, releasing, decodeVars, bufferVars, getPc, getReg, typed, read,
             strokes, slips, counted>>

Shifts == {"left shift", "right shift"}
Keys   == Letters \cup Others \cup Shifts \cup {"F1"}

KeyInit ==
  /\ held = {} /\ releasing = "none"
  /\ isUp = FALSE /\ shift = FALSE /\ mode = 0
  /\ kbBuffer = [i \in 0..(BuffSize - 1) |-> 0]
  /\ inpt = 0 /\ outpt = 0 /\ buffcnt = 0
  /\ getPc = "count" /\ getReg = 0
  /\ typed = <<>> /\ read = <<>> /\ strokes = 0 /\ slips = 0 /\ counted = {}

Wrap(p) == IF p + 1 >= BuffSize THEN 0 ELSE p + 1

\* put_kbbuff, in the interrupt.
\* Mutant: it takes one more than there is room for.
PutOneMore ==
  IF buffcnt <= BuffSize
  THEN /\ kbBuffer' = [kbBuffer EXCEPT ![inpt] = strokes + 1]
       /\ inpt' = Wrap(inpt) /\ buffcnt' = buffcnt + 1
       /\ typed' = Append(typed, strokes + 1)
  ELSE UNCHANGED <<kbBuffer, inpt, buffcnt, typed>>
Put ==
  IF buffcnt < BuffSize
  THEN /\ kbBuffer' = [kbBuffer EXCEPT ![inpt] = strokes + 1]
       /\ inpt' = Wrap(inpt) /\ buffcnt' = buffcnt + 1
       /\ typed' = Append(typed, strokes + 1)
  ELSE UNCHANGED <<kbBuffer, inpt, buffcnt, typed>>

NoPut == UNCHANGED <<kbBuffer, inpt, buffcnt, typed>>

-----------------------------------------------------------------------------
(* decode: the code of a key, after the up-key identifier or not            *)

DecodeDown(k) ==
  /\ shift' = (shift \/ k \in Shifts)
  /\ mode' = IF k # "F1" THEN mode ELSE <<1, 1, 3, 3>>[mode + 1]
  /\ IF k \in Letters /\ mode \in {0, 3} THEN Put ELSE NoPut
  /\ UNCHANGED isUp

\* Mutant: one of the two shift keys is forgotten.
DecodeUpLeft(k) ==
  /\ isUp' = FALSE
  /\ shift' = (shift /\ k # "left shift")
  /\ mode' = IF k # "F1" THEN mode ELSE <<0, 2, 2, 0>>[mode + 1]
  /\ NoPut
DecodeUp(k) ==
  /\ isUp' = FALSE
  /\ shift' = (shift /\ k \notin Shifts)
  /\ mode' = IF k # "F1" THEN mode ELSE <<0, 2, 2, 0>>[mode + 1]
  /\ NoPut

Decode(k) == IF isUp THEN DecodeUp(k) ELSE DecodeDown(k)

Reader == <<outpt, getPc, getReg, read>>

\* A key goes down, or repeats: atkeyb_interrupt has all bits of its code.
KeyDown(k) ==
  /\ releasing = "none" /\ strokes < MaxStrokes
  /\ held' = held \cup {k} /\ counted' = counted \cup ({k} \cap Shifts)
  /\ strokes' = strokes + 1
  /\ Decode(k)
  /\ slips' = IF getPc = "store" /\ buffcnt' # buffcnt THEN slips + 1 ELSE slips
  /\ UNCHANGED <<Reader, releasing>>

\* A key comes up: the identifier F0, then its code.
KeyUp(k) ==
  /\ releasing = "none" /\ k \in held
  /\ releasing' = k
  /\ isUp' = TRUE
  /\ UNCHANGED <<held, counted, shift, mode, kbBuffer, inpt, buffcnt, typed, Reader, strokes, slips>>

UpCode ==
  /\ releasing # "none"
  /\ held' = held \ {releasing} /\ releasing' = "none"
  /\ counted' = IF releasing \in Shifts THEN {} ELSE counted
  /\ Decode(releasing)
  /\ UNCHANGED <<Reader, strokes, slips>>

-----------------------------------------------------------------------------
(* atkeyb_getchar; the decrement of the volatile count is a load and a store *)

GetByte ==
  /\ getPc = "count" /\ buffcnt # 0
  /\ read' = Append(read, kbBuffer[outpt])
  /\ outpt' = Wrap(outpt)
  /\ getPc' = "load"
  /\ UNCHANGED <<held, counted, releasing, decodeVars, kbBuffer, inpt, buffcnt, getReg,
                 typed, strokes, slips>>

LoadCount ==
  /\ getPc = "load"
  /\ getReg' = buffcnt /\ getPc' = "store"
  /\ UNCHANGED <<held, counted, releasing, decodeVars, bufferVars, read, typed, strokes, slips>>

StoreCount ==
  /\ getPc = "store"
  /\ buffcnt' = getReg - 1 /\ getPc' = "count"
  /\ UNCHANGED <<held, counted, releasing, decodeVars, kbBuffer, inpt, outpt, getReg, read,
                 typed, strokes, slips>>

GetChar == GetByte \/ LoadCount \/ StoreCount

KeyNext == (\E k \in Keys : KeyDown(k) \/ KeyUp(k)) \/ UpCode \/ GetChar

KeySpec == KeyInit /\ [][KeyNext]_keyVars

-----------------------------------------------------------------------------
(* Properties                                                               *)

Unread == Len(typed) - Len(read)

\* The characters are read in the order they were typed, across the wraps of the
\* buffer and when it is full, as long as no count is lost.  And whatever the
\* interrupt comes in between, the count never says more than there is: each
\* count the interrupt loses hides exactly one character.
CountHidesSlips ==
  getPc # "store" =>
    buffcnt = Unread - slips + (IF getPc = "load" THEN 1 ELSE 0)

ReadAsTyped ==
  /\ slips = 0 => read = SubSeq(typed, 1, Len(read))
  /\ CountHidesSlips

\* The flags of decode follow the keys.  With both shift keys in use shift is on
\* exactly while one is down that went down, or repeated, after the last one came
\* up: so it is never left on, but one that comes up takes the other's effect with
\* it.  F1 changes between characters and scan codes once per press, however often
\* it repeats: the halfway modes are those with F1 down.
FlagsFollowKeys ==
  /\ shift <=> counted # {}
  /\ counted \subseteq held \cap Shifts
  /\ mode \in {1, 3} <=> "F1" \in held
=============================================================================
