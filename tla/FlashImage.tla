------------------------------ MODULE FlashImage ------------------------------
(***************************************************************************)
(* What the boot loader promises to a host that is not disturbed: a        *)
(* download replaces the program in the flash page by page, each page by   *)
(* its own two packets of the file, and the application is started only    *)
(* when the whole file is there.                                           *)
(***************************************************************************)
EXTENDS Integers

CONSTANTS Pages     \* page numbers
VARIABLES packets,  \* packets of the file
          image,    \* page -> the packets its two halves are from
          running   \* has the application been started?

\* A half behind the end of the file may hold anything.
Holds(content, k) == k < packets => content[k % 2] = k
PageRight(content, p) == Holds(content, 2 * p) /\ Holds(content, 2 * p + 1)

Program(p) ==
  /\ ~running
  /\ image' = [image EXCEPT ![p] = image'[p]]
  /\ PageRight(image'[p], p)
  /\ UNCHANGED <<packets, running>>

Start ==
  /\ ~running /\ running' = TRUE
  /\ \A p \in Pages : PageRight(image'[p], p)
  /\ \A p \in Pages : image'[p] # image[p] => 2 * p + 1 = packets
  /\ UNCHANGED packets

\* The device is switched off and on; the flash keeps what it has.
PowerCycle == running /\ running' = FALSE /\ UNCHANGED <<packets, image>>

Next == (\E p \in Pages : Program(p)) \/ Start \/ PowerCycle
=============================================================================
