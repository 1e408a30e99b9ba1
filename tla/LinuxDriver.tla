------------------------------ MODULE LinuxDriver ------------------------------
(***************************************************************************)
(* The driver for Linux 2.6 (drivers/driver-2.6/usbn.c).  It keeps the     *)
(* device of the last probe in a global variable; a read asks that device  *)
(* for its status under a semaphore, which disconnect takes as well.  An   *)
(* open file outlives its device.                                          *)
(***************************************************************************)
EXTENDS Integers, FiniteSets

CONSTANTS
  Devices,  \* devices plugged in, one after another or at once
  Readers   \* processes that read

\* Names of devices and processes are no states of a process or the semaphore.
ASSUME DriverAssumption ==
  /\ "free" \notin Readers
  /\ Devices \cap {"closed", "open", "locked", "no device"} = {}

VARIABLES
  dev,       \* the global; NoDevice before the first probe
  bound,     \* devices the driver is bound to
  leaving,   \* devices unplugged, in usbn_disconnect
  ulock,     \* who holds the semaphore, or "free"
  reader,    \* per process: where it is in usbn_read
  stale      \* history: was the device gone when the read got the semaphore?

driverVars == <<dev, bound, leaving, ulock, reader, stale>>

NoDevice == "no device"

DriverInit ==
  /\ dev = NoDevice /\ bound = {} /\ leaving = {}
  /\ ulock = "free"
  /\ reader = [r \in Readers |-> "closed"] /\ stale = [r \in Readers |-> FALSE]

\* usbn_probe takes no semaphore, and keeps the device it could not register.
Probe(d) ==
  /\ d \notin bound
  /\ dev' = d /\ bound' \in {bound, bound \cup {d}}
  /\ UNCHANGED <<leaving, ulock, reader, stale>>

Unplug(d) ==
  /\ d \in bound \ leaving
  /\ leaving' = leaving \cup {d}
  /\ UNCHANGED <<dev, bound, ulock, reader, stale>>

\* usbn_disconnect, and with it the end of the usb_device.
\* Mutant: it does not wait.
DisconnectAtOnce(d) ==
  /\ d \in leaving
  /\ bound' = bound \ {d} /\ leaving' = leaving \ {d}
  /\ UNCHANGED <<dev, ulock, reader, stale>>
Disconnect(d) ==
  /\ d \in leaving /\ ulock = "free"
  /\ bound' = bound \ {d} /\ leaving' = leaving \ {d}
  /\ UNCHANGED <<dev, ulock, reader, stale>>

\* usbn_open: possible while a device is registered.
OpenFile(r) ==
  /\ reader[r] = "closed" /\ bound # {}
  /\ reader' = [reader EXCEPT ![r] = "open"]
  /\ UNCHANGED <<dev, bound, leaving, ulock, stale>>

CloseFile(r) ==
  /\ reader[r] = "open"
  /\ reader' = [reader EXCEPT ![r] = "closed"]
  /\ UNCHANGED <<dev, bound, leaving, ulock, stale>>

\* usbn_read: the semaphore; a message to dev, as it is when the message is made
\* up; its end, or five seconds, and the semaphore again.
ReadLock(r) ==
  /\ reader[r] = "open" /\ ulock = "free"
  /\ ulock' = r
  /\ reader' = [reader EXCEPT ![r] = "locked"]
  /\ UNCHANGED <<dev, bound, leaving, stale>>

ReadMessage(r) ==
  /\ reader[r] = "locked"
  /\ reader' = [reader EXCEPT ![r] = dev]
  /\ stale' = [stale EXCEPT ![r] = dev \notin bound]
  /\ UNCHANGED <<dev, bound, leaving, ulock>>

ReadEnd(r) ==
  /\ reader[r] \in Devices
  /\ ulock' = "free"
  /\ reader' = [reader EXCEPT ![r] = "open"]
  /\ UNCHANGED <<dev, bound, leaving, stale>>

DriverNext ==
  \/ \E d \in Devices : Probe(d) \/ Unplug(d) \/ Disconnect(d)
  \/ \E r \in Readers :
       OpenFile(r) \/ CloseFile(r) \/ ReadLock(r) \/ ReadMessage(r) \/ ReadEnd(r)

DriverSpec == DriverInit /\ [][DriverNext]_driverVars

-----------------------------------------------------------------------------
(* Properties                                                               *)

\* "No disconnect now" (the comment of usbn_read): a device does not go while a
\* message to it is under way.  A file that outlives its device is the exception:
\* its reads go to what dev was left at.
NoDisconnectNow ==
  \A r \in Readers : reader[r] \in Devices => reader[r] \in bound \/ stale[r]
=============================================================================
