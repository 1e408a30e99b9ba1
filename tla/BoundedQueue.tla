---------------------------- MODULE BoundedQueue ----------------------------
(***************************************************************************)
(* What firmware/usbn960x/fifo.h promises the code that uses it: a queue   *)
(* of at most Size elements that is emptied by fifo_init, refuses a put    *)
(* when it is full and hands out the elements in the order they came.      *)
(***************************************************************************)
EXTENDS Naturals, Sequences

CONSTANTS
  Size,     \* capacity
  Data,     \* what is queued
  Nothing   \* what fifo_get_nowait returns from an empty queue (-1)

VARIABLES
  queue,    \* the elements held, oldest first
  out       \* what the last get returned

Init == queue = <<>> /\ out = Nothing

Put(d) ==
  /\ Len(queue) < Size
  /\ queue' = Append(queue, d)
  /\ UNCHANGED out

Get ==
  /\ queue # <<>>
  /\ queue' = Tail(queue)
  /\ out' = Head(queue)

GetNothing ==
  /\ queue = <<>>
  /\ out' = Nothing
  /\ UNCHANGED queue

Clear == queue' = <<>> /\ UNCHANGED out

Next == (\E d \in Data : Put(d)) \/ Get \/ GetNothing \/ Clear

Spec == Init /\ [][Next]_<<queue, out>>
=============================================================================
