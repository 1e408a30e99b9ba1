# usbn2mc: verification project

usbn2mc is firmware for the USBN9603/9604 USB node controller: a small USB
stack for 8-bit microcontrollers (`src/trunk/firmware`), drivers and libraries
for the PC side, and applications built on the stack (`src/trunk/applications`).
This directory holds TLA+ modules that model it, TLC configurations that check
them on small instances, and TLAPS proofs for all instances of most of them.

Paths below are relative to `src/trunk/`, those in section 1.3 to
`src/trunk/applications/`.

## 1. Inventory

### 1.1 The USB stack (`firmware/usbn960x`)

| Part | State | Operations | Correct when |
|---|---|---|---|
| Event handlers (`usbn960x.c`) | the chip's FIFOs, event and mask registers; `EP0tx` (buffer, index, size, DATA PID) | one handler per event class: receive, transmit, alternate, NAK | a descriptor reaches the host whole and in order; every SETUP is answered; device and host agree on the address; a suspended node can be woken; bulk packets reach the application once |
| Start and interrupt entry (`usbnapi.c`) | mask registers | `USBNStart`, `USBNInterrupt` | no event is left without an interrupt; the INT pin is not driven before the masks are set |
| Descriptor builder (`usbnapi.c`) | descriptor and string lists, the fields built from them | `USBNAdd...`, `_USBNCreateConfDescrField`, `_USBNCreateStringField` | the field is a tree a host can parse and fills its memory; a name is found at the index its descriptor gives |
| Ring buffer (`fifo.h`, `fifo.c`) | two pointers with their distances to the end, `count` | `fifo_init`, `fifo_put`, `fifo_get_wait`, `fifo_get_nowait` | it is a bounded queue |
| Tiny stack (`firmware/usbn960xtiny`) | as the first two rows | as the first two rows | as the first two rows |

### 1.2 Register access (`firmware/devices/atmega32/usbn2mc.c`)

Five routines move bytes over an 8-bit port and three strobes. Their state is
the ports and, inside the chip, the address latch. They are correct when every
byte goes to and comes from the register that was asked for, whoever interrupts
whom. `uart.c` and the terminal in `usbtest.c` are for debugging.

### 1.3 Applications and drivers

| Part | What it does, and its state | What is hard | Correct when |
|---|---|---|---|
| `logicanalyzer` (`main.c`, `vscope.c`) | a timer interrupt samples a port into the ring buffer; the main loop sends it on endpoint 1; the USB interrupt decodes commands and restarts the buffer | three contexts share buffer, flags and chip | what is read is a recording: in order, without gap; an internal recording ends; a stopped one can be read out |
| its client library (`client/lib/vscopedevice.c`) | commands and bulk reads over libusb | reads while the device is not ready, timeouts that drop data | as above |
| `avrusbnboot` | host and boot loader: a command packet and a data packet for each half page; two seconds without them start the application | unchecked timeouts: one lost packet turns data into commands; a page number of one byte; the main loop's end of the wait | the flash holds the file; an undisturbed download replaces the image page by page |
| `hidkeyboard` | an interrupt per bit of the keyboard, `decode`, a ring buffer of characters | an unsynchronised count; flags that must follow the keys | characters are read as typed |
| `usbflash`, `usbprog` | a tool that erases, uploads or resets; the firmware programs an AT89 | results nobody looks at; the end of the file | the target's memory is the file |
| `usbn2net/cdc_subset` (`demo.c`) | Ethernet frames out of 64-byte packets and back, in one buffer | reassembly, a reply that waits in the buffer, the DATA toggle | uIP gets whole frames, hosts whole replies |
| uIP (`usbn2net/cdc_subset/uip`) | connection table, ARP table, the application behind it | a small table and no timer; repeated segments | lines reach the application once and in order; every session ends |
| `vport` (firmware and Linux driver) | a serial port: messages to the UART, characters from it | a UART interrupt that writes to the chip; a driver that drops what does not fit | both directions in order, losses where a write fails or a character is not fetched |
| `vlab` | clients set pins and read ports | answers that come after the client has gone | a client reads its own answer |
| `../drivers/driver-2.6` | probe, open, read, disconnect around one global device | disconnect against reads under way | no disconnect within a message |
| `cdcrs232`, `usbndemo` | a UART bridge; an echo | nothing beyond the parts above | - |

`cdcrs232/usbn2mc`, `vport/firmware*/usbn2mc` and other directories of that name
are copies of `firmware/usbn960x` with few or no lines changed, `usbprog` and
`usbn2net/cdc_subset/uip-0.9` copies of their neighbours.

### 1.4 Interaction

The host's packets set event bits in the chip. A set, unmasked bit pulls INT
low; the falling edge starts `USBNInterrupt`, which reads `MAEV`, calls one
handler and writes the mask twice. Handlers call the application: the function
given to `USBNAddOutEndpoint` with each packet, the one given to
`USBNAddInEndpoint` when a packet has gone out. The application's main loop
and other interrupts reach the chip through the same register access.

The hard behaviours are therefore: several events at once with one
edge-triggered interrupt; late events of an abandoned transfer; lost
acknowledges; the one-shot receiver; suspend, resume and reset in any order;
register accesses cut in two by an interrupt; counters shared with interrupts;
and, between device and PC, writes and reads that time out without anybody
looking. `PROJECT.json` lists each one, with its line, under `hazards`.

## 2. Modules

    UsbnChip                   the controller (external)
      Usbn960x                 USBNStart, USBNInterrupt, the event handlers
        UsbControl             + a host that runs control transfers
          MCUsbControl         instances for TLC
          UsbnTiny             + the tiny stack under the same host
            MCUsbnTiny         instances for TLC
        UsbBus                 + bulk traffic, suspend, reset, an application
          MCUsbBus             instances for TLC
        Usbn960xProofs         lemmas about handlers and chip
          (with UsbnTiny)      UsbControlProofs
          (with UsbBus)        UsbBusProofs
    Usbn2mc                    register access, port operation by port operation
      MCUsbn2mc                the programs of accesses the code runs
    BoundedQueue               what the ring buffer promises
    Fifo                       the ring buffer, memory access by memory access
    VScope, MCVScope           logic analyzer: timer, commands, main loop, client
      VScopeProofs             its proofs
    MCDevices                  one run of the small parts, which do not interact:
      Descriptors              the descriptor builder (MCDescriptors alone)
      Boot, FlashImage         boot loader and its host; what they promise
      AtKeyboard               keyboard library
      UsbNet                   frames and packets of the Ethernet bridge
      Uip                      the TCP behind it, its application and its peers
        UipProofs              its proofs
      VPort                    serial port: firmware and Linux driver
      UsbFlash                 programmer and its tool
      Vlab                     virtual lab and its clients
      LinuxDriver              the driver for Linux 2.6
      DeviceProofs             proofs about Descriptors, LinuxDriver, Vlab, Fifo
      FlashProofs              proofs about Boot, UsbFlash, Usbn2mc
      StreamProofs             proofs about AtKeyboard, VPort, UsbNet

What goes on beside the code (host, chip, peers, kernel) is marked external in
the map. Some variables are *rigid*: they get a value in the initial state and
keep it, so that one run covers several circumstances and a property can name
the one it speaks of. They are `faults` (which faults the host of `UsbControl`
commits), `tiny` (which stack the device has), `device` (which part a behaviour
of `MCDevices` is of), `calm` (is the boot loader's host undisturbed?),
`polite` (does the Ethernet host wait for replies?), and `lossy`, `hasty`,
`patient`, `prompt`, `active`, `beyond` and `script` of `Uip` (network, habits,
number, place and lines of the peers). *History* variables, named so at their
declaration, record what happened for a property to relate it to what is; no
action of the code reads them. The operators called mutants in the modules are
variants of the definition below them, with a plausible mistake: `PROJECT.json`
says which property catches which.

### UsbnChip

The chip is hardware; nothing of it is in the repository. The module says what
the drivers rely on: event bits cleared by reading, the one-shot `RX_EN` and
`TX_EN`, a SETUP packet that is received in any state, the latched falling edge
of INT. Two points the code leaves open are constants or over-approximations:
`SetupDisarms` (does a SETUP packet switch transmitter 0 off?) and the moment a
bus event falls in an interrupt (any of the gaps between its four steps).

### Usbn960x, UsbControl, UsbBus

| Code | Action or operator |
|---|---|
| `USBNStart` | `Init960x` |
| `SIGNAL(SIG_INTERRUPT0)` | `EnterInterrupt` |
| `USBNInterrupt`, choice of the class | `ReadMaev` |
| `USBNInterrupt`, mask rewrite | `RewriteMask` |
| `_USBNReceiveFIFO0`, SETUP and the request functions | `ReceiveFIFO0Setup` with `AnswerTx`, `GetDescriptor`, `StatusTx`, `StallAfter` |
| `_USBNReceiveFIFO0`, OUT | `ReceiveFIFO0Status` |
| `_USBNTransmit` | `TransmitEp`, `TransmitTx`, `TransmitRx` (what it leaves in `EP0tx` and the FIFOs) |
| `_USBNTransmitFIFO0` | `TransmitFIFO0` |
| `_USBNReceiveEvent`, `_USBNTransmitEvent`, FIFO 1 | `ReceiveFIFO1`, `TransmitFIFO1` |
| `_USBNAlternateEvent` | `AlternateEvent`: `Reset`, `SuspendDetect`, `ResumeDetect`, `EndOfPacket` |
| `_USBNNackEvent` | `NackEvent` |

Data is abstracted: a packet of a control read is the descriptor's name with
the offset and length of the slice, a bulk payload is a model value, a request
is a record of what the handlers look at. A handler is atomic towards the bus.
FIFOs 2 and 3 are left out: `_USBNSetConfiguration` never arms them, so their
branches cannot run (the run `bus_registered` is about that).

`UsbControl` adds a host that follows the USB 1.1 protocol for control
transfers, with the faults of `faults`, a subset of the constant `Faults`: a lost
acknowledge, an abandoned transfer, a bus reset. `Patient` says whether it waits
for the device to be quiet before the next SETUP; a host behaves so when it
leaves the device the few milliseconds the interrupt needs. `UsbBus` adds the
other host: it configures the device, at any time and also over a bulk packet the
firmware has not got round to, sends and polls bulk packets, suspends,
resumes and resets; and an application that sends on FIFO 1 when it has its
callback. `due` is what the registered function should be called with: a packet
still in the FIFO when a SET_CONFIGURATION is handled (`Configures`) becomes the
empty one the function then reads. `starved` remembers that such a request has
flushed a packet of the application, whose callback never comes.

`UsbnTiny` puts the tiny stack under the host of `UsbControl`: the handlers
that differ (`TinyReceiveFIFO0Setup`, `TinyAlternateEvent`) replace those of the
full stack where `tiny` is TRUE, the rest is shared, as the source of the two is.
The tiny stack looks at the recipient first (`usbn960xtiny/usbn960x.c:189`): a
standard request for an interface or an endpoint goes to the application's
`USBNInterfaceRequests`, whatever its code, and is followed by `_USBNTransmit`
(`ForInterface`, `Sends`). The keyboard's function loads the report descriptor and
does nothing otherwise, so that all other requests of this kind are answered with
what the request before left in `EP0tx` (`LeftToChance`), and none is refused.
The properties of both stacks stand there once, each with the exception the tiny
stack calls for, and `Asked` gives each stack its requests: among them those the
full stack drops, and those for interfaces and endpoints.

### Usbn2mc

A register access is a sequence of port operations (`Operations`), and `Step`
performs one. What is accessed is a constant: a program is a sequence of accesses,
the main program is `StartProgram` and then (`MainSend`) one of the `SendPrograms`
of an application that sends from its main loop; `sending` remembers that it has
begun to. An interrupt (`Preempt`) runs one of the `InterruptPrograms` and can come
before any port operation once `MCNTRL` lets the chip drive INT.

`MCUsbn2mc` has the programs of the code: `USBNStart` write by write; `USBNInterrupt`
around the handlers of a packet in FIFO 1 (of two bytes instead of 64), of a
packet sent and of a bus reset; the main loop of the logic analyzer. `WellFormed` is
what they have in common: a burst goes on with the register and the direction of
the access before, and `MCNTRL` is read only to await the end of the reset.

A toggle is one step although the controller reads,
changes and writes the port: an interrupt within it gives the port back as it
found it (`LinesReleased`), so the value read before is still right.

### BoundedQueue and Fifo

`Fifo` takes `fifo_put` as one step (it runs in an interrupt, which nothing
interrupts) and `fifo_get` as seven: fetch, two pointer stores, and the
five byte accesses of the two-byte `count--`, fetch being the first. With
`Interruptible` FALSE the consumer is a handler itself. `Byte`, `Word`
stand for 256 and 65536. `held` is a history variable: puts less gets.

### VScope

One module for what runs together: the sampling timer (`Sample`,
`SampleTriggered`), `VScopeCommand` with an action per command, the callback
(`PingPong`), the main loop statement by statement (`Top` to `Send`, with `count--`
as `LoadCount` and `StoreCount`), and the client library (`Call` takes a function
of it as the steps it makes). The ring buffer is kept as cells, two positions and
`count`; `Fifo` takes it apart further. What a property cannot stand is recorded in
`upset` as a named event, and each property names the events it makes an exception
for: these are hazards of the code, not of the model.

`GetState` is the query of the scope's state: it flushes FIFO 1, whoever has a packet
in it, and arms a byte as DATA0 from the interrupt. Its answer is a foreign byte in
what a client reads (`StateByte`), its transmit event gives a leave nobody asked
for, and it takes the PID out of step. `OneLeave` and `Gapless` hold until the first
query ("queried"); `PidInStep` has no memory of that kind: what disturbs the PID
costs one packet of the main loop (`disturbed`), and the next one must be in step
again; `InSequence` holds beside the foreign bytes. The line that writes the state
(`vscope.c:126`) has a parenthesis too many, so that the committed file does not
compile; it is modelled as it is meant. `RecordingInternal` sends queries in a
loop until `GetVScopeState` returns that the recording is over; but that function
returns nothing, so the loop may end any time, or never.

Left out: the sample rate (a divisor of the timer) and, of the client, the queries
of mode and FIFO load, which the device answers on its debug console.

### The small parts

| Module | Code | Actions |
|---|---|---|
| `Descriptors` | `USBNDeviceManufacture` ... `USBNAddInEndpoint`, `_USBNCreateConfDescrField`, `_USBNCreateStringField` | an action per call, in any order an application may make them, `Build` for `USBNStart`; a descriptor is a record of what the calls change, a field a sequence. Setters of single bytes that nothing else looks at are left out |
| `Boot` | `main.c` and the host's `avrusbnboot.c` | `Deliver` and `Lose` a packet (`BootLoader` is the handler), the main loop in four steps (`TwoSeconds`, `Halve`, `ProgramRest`, `Jump`), `SwitchOn`. A packet of the file is its number, and what its first byte reads as |
| `FlashImage` | the promise | a page is programmed by its own two packets, the application starts when the file is there; `ImageReplaced` says every step of an undisturbed `Boot` is one of these or leaves flash and application alone |
| `AtKeyboard` | `atkeyb.c` | `KeyDown`, `KeyUp`, `UpCode` (`atkeyb_interrupt` with `decode` and `put_kbbuff`), `atkeyb_getchar` in three steps |
| `UsbNet` | `demo.c` | `FramePacket` (`usbn2net_reveive`, `usbn2net_event`, `usbn2net_send`), `HostIn`, `TxCallback`; uIP's answer is any |
| `Uip` | `uip.c`, `uip_arp.c`, `exampleapp.c` | `IpFrame` is `uip_process` with a segment: one operator per state of a connection, each giving connection, answer and line for the application; `ArpOut`, `ArpReply`, `ArpRequest`; `usbn2net_send` is `PutOut` and `PutOther`; the host that fetches a reply is `Fetch`; peers that open, send, repeat, acknowledge and give up, a queue of segments each way |
| `VPort` | `vport-uart.c`, `main.c`, `vport.c` | writes in messages with a length byte that wraps, reads by one character, opens and closes, new bindings |
| `UsbFlash` | `usbflash.c`, `main.c`, `at89.c` | the tool's runs, packet by packet, taken or lost |
| `Vlab` | `vlab.c`, `vlabc.c` | client steps with timeouts, a late handler |
| `LinuxDriver` | `usbn.c` | probe, unplug and disconnect, open and close, a read around the semaphore |

`MCDevices` puts them side by side under the rigid variable `device`: a behaviour
is one of a single part while the others stay as they start. They do not
interact, so nothing is lost, and one run serves for all.

On the way to the peers, all answers of uIP go through TX FIFO 1 of the bridge.
`unfetched` says whose answer is in it. An answer put out over one that the host has
not fetched flushes it (`demo.c:212`); and as the toggle goes on (`demo.c:268`), the
second has the PID the host has seen last and is dropped for a duplicate, so that
both are lost and the third is in step again (`Flush`). `robbed` is the peers an
answer to which was lost in this way, which the device, without timers, never sends
again. ARP requests of anybody (`ArpRequest`) are answered through the same FIFO.
Segments are of at most 62 bytes and fit in a packet; a reply of two packets is the
subject of `UsbNet`.

`counted` of `AtKeyboard` is the shift keys that went down, or repeated, since the
last one came up: the flag is on exactly while there is one.

## 3. Runs

| Run | Question | Result |
|---|---|---|
| `control_enumeration` | enumeration on either stack, undisturbed or with lost acknowledges, aborts and resets: is every descriptor whole and in order, the address agreed, a STALL for the right request; which requests are answered; does every undisturbed transfer of those end as it should (liveness)? | holds, with the exceptions named |
| `control_late` | is a SETUP answered when it does not wait for the last event of the transfer before? | violated |
| `bus_traffic` | bulk data, callbacks, suspend, resume, reset, configuration at any time between the steps of an interrupt: is anything lost, doubled, deaf or asleep for ever? | holds, but for a packet that a configuration flushes |
| `bus_registered` | can every registered OUT endpoint receive? | violated |
| `access` | interrupts between the port operations of `USBNStart` and of a sending main loop: does the start end with every access in its place, are the strobes released? | holds |
| `access_mainloop` | does a write of the main loop reach its register? | violated |
| `fifo_handler` | ring buffer between handlers, with restarts, against `BoundedQueue` | holds |
| `fifo_count` | is `count` right when the main loop gets? | violated |
| `fifo_restart` | does a restart leave a get of the main loop in order? | violated |
| `vscope` | is what a client reads a recording; is there one leave to send and the right PID; do internal recordings end and stopped ones drain (liveness)? | holds, but for the events named |
| `devices` | the small parts, a property or two each; sessions with the bridge end (liveness) | holds, with the exceptions named |
| `descriptors_total` | is `wTotalLength` the length of what follows? | violated |

Exceptions are part of the properties, so that what is left can be relied on:

- `SuspendAgrees` and `AppMaySendAgain` except after a reset that ended a suspend
  (SD3 stays masked, `usbn960x.c:203`) or, the latter, a `SET_CONFIGURATION` over a
  packet of the application (it flushes it, `usbn960x.c:612`).
- `OutDeliveredOnce` except for the packet a `SET_CONFIGURATION` is handled before:
  FIFO 0 goes first (`usbn960x.c:101`), line 616 flushes FIFO 1 but not its event, and
  the function is called with what an empty FIFO gives.
- `RequestAnswered` says which requests get an answer, in both directions: those the
  full stack decodes and drops (`Dropped`: `GET_STATUS`, `GET_INTERFACE`,
  `GET_CONFIGURATION`, features of an interface or an endpoint) get none, all others
  do, and those the tiny stack leaves to chance if `EP0tx` holds anything.
  `TransferSucceeds` speaks of the others, but for the reads of `LeftWaiting`.
- `AddressAgreed` until the first bus reset, for the tiny stack.
- `AccessLands` while the main loop is not sending.
- `AnswerIsOwn` but for a printed 0 and for a client in whose time a command was
  handled that had been flushed under its event.
- `ImageInFlash` but for packets handled between the end of the two seconds and the
  jump, page numbers over a byte, and lost packets where one of the file reads as a
  command. Both sessions write the same file, so that it would not see a page left
  from the session before.
- `MemoryIsFile` after an erase that was taken.
- `HandedWhole` and `ReplyWhole` for frames and replies that fit the buffer, the
  latter for a host that waits for it.
- `PortCarries` says what becomes of writes that fail or do not fit.
- `FlagsFollowKeys`: of two shift keys, the one still held when the other comes up
  does not count until it repeats.
- `SessionsEnd` but for peers an answer to which the bridge flushed (`robbed`), and
  those that find the table full of their entries (`KeptOut`).

### Bounds

| Bound | Value | Why it is enough |
|---|---|---|
| `MaxTransfers` | 3 (2 in `control_late`) | a transfer, the one its late events can disturb, and one after it |
| `MaxOut` | 3 | one packet handled, one in the FIFO, one after a reset |
| `MaxConfigurations` | 2 | a repeated configuration with packets around it |
| `DescLen` | 18, 32, 4, 16, 59 | one, two and several packets; 16 and 32 are multiples of 8 |
| `Size` of `Fifo` | 4, with `Byte` 3 and `Word` 9 | `count` needs both bytes, the pointers wrap around |
| `MaxHeld` | 5 | one above `Size`, so that an overfull buffer shows |
| `MCUsbn2mc` | a packet of 2 bytes, a sample of 2 | a burst of one in either direction; all else is the code's |
| `VScope` | `Depth` 3, `PacketSize` 2, `Length` 4, `MaxCalls` 2, `MaxSamples` 4 | more samples than cells, more cells than a packet, a read of two packets, a recording over the rest of another |
| `Descriptors` | `MaxEntries` 6 on both lists together (5 for `descriptors_total`), `MaxStrings` 2, `MaxConfs` 1 | a configuration with two interfaces and two endpoints in any order; a name of each kind and one whose length wraps |
| `Boot` | `Byte` 4, files of 3 to 5 packets, `MaxSessions` 2, `MaxLost` 1 | a file that ends in half a page, in a full one and behind the last page number; packets that read as commands; a download over another |
| `AtKeyboard` | `BuffSize` 2, `MaxStrokes` 5 | the buffer is full and wraps around twice; both shift keys and a repeated F1 |
| `UsbNet` | frames of 42 to 129 bytes, replies of up to 170, `MaxFrames` 2 | a frame on the heels of the one before; one, two and three packets, and the sizes at their edges |
| `Uip` | 3 `Peers`, `Conns` 2, up to 3 lines, `MaxFlight` 2 | one peer more than entries; a repeated, early or lost segment beside the next one |
| `VPort` | `FifoSize` 6, `LenValues` 8, `Counts` 2, 3, 4 and 9, `MaxChars` 9, `MaxArrived` 3 | writes that fit in a packet, that do not, whose length byte wraps to 0 and to more than a header; two flushed characters and one after them |
| `UsbFlash` | `Room` 2, `Cells` 4, files of 1, 3 and 5, `MaxRuns` 4 | a last packet full, half full, and one that wraps around memory; erase and upload twice |
| `Vlab` | `Pins` 2, `MaxClients` 3 | a late answer, the client that may get it, and one after |
| `LinuxDriver` | 2 `Devices`, 2 `Readers` | a second probe and a disconnect with reads under way to either |

`Enumeration` has a request (`Begin`) that asks for less than the descriptor: its
status stage is refused with NAK, as the receiver is armed with the last packet
only (`usbn960x.c:461`), and the host gives up; what follows must work. It has
another (`Behind`) with the `wLength` the wrong `wTotalLength` leads hosts to.
The host of the full stack sends `GET_STATUS` to the device, which is dropped, gives
up and goes on; the one of the tiny stack sends it to interface and endpoint too,
and `SYNCH_FRAME`, `CLR_FEATURE` and `SET_INTERFACE`, after transfers of all kinds.

In `devices` three peers run on an undisturbed network (`Crowd`), where their answers
flush each other in the FIFO they share; loss, hasty repetition and the router are
checked with one peer (`Single`), loss with one that waits for its answers, as no
property speaks of the other, and hasty repetition by one that does not wait with up
to two lines.

`CHECK_DEADLOCK FALSE` stands where the environment stops at its bound: the host
of `UsbControl` after `MaxTransfers`, the producer of `fifo_count` and
`fifo_restart` at `MaxHeld`, the client of `vscope` after its calls, and the
small parts at their bounds.

### Fairness

`UsbnTiny!StackSpec`: interrupts are enabled and a handler has no wait in it,
so the firmware's steps are weakly fair; the host polls the stage it is in.
`UsbBus!FairSpec`: the same, the host resumes what it suspended, and polls the
IN endpoint again and again (strong fairness: the endpoint may be disturbed by
suspends). `Usbn2mc!FairSpec`: the controller executes, the chip ends its software
reset. The main program is weakly fair only: nothing is promised to it while
interrupts follow each other without end, and none can come before the last
step of `USBNStart`. `VScope!FairSpec`: commands, callback, timer and main loop
go on; the client goes on with its call, and an armed packet is fetched before its
reads time out for ever (strong fairness, as a timeout disables the fetch).
`MCDevices!DevicesSpec`: in a session with the bridge device or peer goes on as long
as one of them can; this is fairness of the session, not of any single step. The
host fetches what is in the FIFO (its driver keeps a read submitted). Loss, resets,
others' ARP requests and the router's answer have no fairness; the router may answer
from `asked` on, also where the request was flushed after all, which only adds
behaviours.

## 4. Proofs

TLAPS checks these for every value of the constants.

| Module | Theorem | States |
|---|---|---|
| `UsbControlProofs` | `TypeCorrect`, `StackTypeCorrect` | all types, on the full stack and on either; the latter also that `EP0tx.Index` does not pass `EP0tx.Size` (which for the configuration is `wLength`, be it more than the descriptor has) |
| | `NoInterruptLost` | a pending event has an interrupt coming |
| | `SlicesCurrent`, `StackSlicesCurrent` | an armed slice is the one `EP0tx` ended at, with the PID of its place |
| | `StallsOwnRequest` | a STALL is for the request that was refused, and for no other |
| | `AddressesAgree` | a quiet device listens to the address its host uses |
| | `RequestsAnswered` | a handled SETUP has left a packet or a STALL, if and only if its request is not one the stack drops |
| | `ReadsDescriptor` | a control read brings the descriptor, whole and in order |
| `UsbBusProofs` | `TypeCorrect`, `NoInterruptLost` | the same with bulk traffic and bus states |
| | `SuspendedCanWake`, `SuspendsWithBus` | a suspended node has resume and reset unmasked; a quiet node sleeps when its bus does |
| | `ReceiverNeverDeaf` | a quiet configured device can take an OUT packet |
| | `PacketsDelivered` | every acknowledged OUT packet reaches the application once and in order, but for one a configuration was handled before |
| `VScopeProofs` | `LeaveIsOne`, `PidsInStep` | one leave to send, until a `GETDATA` too early or a state query; the PID the client expects, but for one packet after a disturbance |
| | `InternalIsGapless`, `ReadsRecording` | a recording in the buffer, and what a client reads, is in order and has no gap, but for the events named |
| `FlashProofs` | `LinesAreReleased` | the strobes are given back, for any programs, whoever interrupts whom |
| | `BytesLand` | every byte lands in its register, and is read from it |
| | `BootImage`, `BootReplaces` | what was sent of the file when the application starts is in its place; undisturbed, the boot loader implements `FlashImage` |
| | `UploadIsFile` | after an upload over erased memory the target's memory is the file, but for lost packets |
| `StreamProofs` | `KeyFlags`, `KeysInOrder` | shift is on exactly while a shift key is down that went down or repeated after the last one came up; characters are read as typed |
| | `PortInOrder` | the serial port keeps the order both ways; what it sends that was not written stands for characters of an overlong write, one for one |
| | `FramesWhole`, `RepliesWhole` | uIP gets whole frames, of the sizes `NetAssumption` allows; a host that waits for it gets a reply of up to two packets whole, but for the first of two when PIDs are out of step |
| `DeviceProofs` | `NamesAreFound` | a name is found at the index its descriptor gives |
| | `FieldIsATree` | the field of the one configuration is a tree of all that was added, and fits its memory |
| | `DriverSafe`, `VlabAnswers` | no disconnect within a message, but for files that outlive their device; a port other than 0 that a client prints is its own answer, but for flushed commands handled in its time |
| | `PointersStay` | ring buffer: pointers stay in it, interrupted or not, if no handler restarts it |
| | `CountCorrect`, `TypeCorrect` | between handlers `count` is the fill |
| | `RingBufferIsQueue` | between handlers the buffer implements `BoundedQueue` |
| `UipProofs` | `SessionsInOrder` | lines are looked at in order, each once, none acknowledged before; each line has its answer once, if none was flushed |

Each safety theorem has an inductive invariant, stronger than the property. TLC
checked these invariants on the instances of the runs before they were proved.

### Assumptions

Those named in the modules. They are about the constants and say what the code
or its surroundings give:

- `ChipAssumption`, `FirmwareAssumption`, `ControlAssumption`, `BusAssumption`,
  `FifoAssumption`, `VlabAssumption`, `PortAssumption`,
  `FlashAssumption`, `DescriptorsAssumption`: types and ranges of sizes, bounds and
  descriptors. `PortAssumption` wants packets longer than the header of a message,
  `FlashAssumption` a memory of at least one packet.
- `AskedAssumption`: the requests have the form USB gives them (a `SET_ADDRESS` has
  no data stage, a read asks for something that is there), and the device descriptor
  has the 8 bytes a host asks for first. It says nothing of which requests there are:
  those that are never answered are among them.
- `AccessAssumption`: the programs are `WellFormed`, and before the start the chip may not
  interrupt.
- `BootAssumption`: a file is a finite sequence of packets.
- `KeyboardAssumption`, `DriverAssumption`: the values that stand for "nobody" are
  not keys, devices or readers.
- `NetAssumption`: a frame of Ethernet with an ARP packet has 42 bytes, frames that
  are not IP fit in a packet, IP frames and replies in three. Longer ones run over the
  buffer's end (`demo.c:139`) or have a high byte of their length, which the code
  multiplies by 255 (`demo.c:147`).
- `VScopeAssumption`: `Length` is a multiple of the packet, as the client requires.
- `UipAssumption`: a script is a sequence of the lines the application knows, with
  "q", after which it closes, at its end only; the table has an entry.

`BytesLand` has the hypothesis `InterruptsLast`, that no access of `USBNStart` but
the last lets the chip drive INT. That is its order (`usbnapi.c:577`), and the
mutant `EarlyInt` of the run `access` shows that it matters. The theorems about the
ring buffer name the value of `Interruptible` or `Restarts` they need. The last four
of `UsbControlProofs` have the hypotheses `Patient` and `SetupDisarms`, the values
of the run `control_enumeration`: the host leaves the device the time its interrupt
needs, and the chip drops an unsent packet when a SETUP arrives. `control_late`
shows that an impatient host is let down.

### Invariants

*No interrupt is lost.* The property speaks of the states between interrupts
only and is not inductive. The strengthening, `InterruptComing`, says: outside
an interrupt a pending event has its edge latched; inside one nothing is
claimed, as `RewriteMask` will latch whatever is pending. The chip's events keep
it because the first pending event makes the edge and later ones find it
latched (`LatchKeepsInterrupt`).

*Slices.* `SliceCurrent` ties the armed FIFO to `EP0tx` and adds that `Index` is
a multiple of 8 until the end is reached and that `DataPid` follows from it;
`TransmitFits` shows that `_USBNTransmit` takes one boundary to the next. It is
kept by a late transmit event, since that loads the next slice from the same
`EP0tx` or flushes. The tiny stack transmits for requests that load nothing, from
an `EP0tx` an earlier request left: `IndexInv` says it is within bounds even then.

*Control transfers.* `TransferInv` relates host and device while a SETUP packet
waits (`SetupPending`) and after it was handled. `EventsInv`: no event of another
transfer is about, so the next interrupt is for this one. `StallInv`: a handled
request is stalled if it was refused, and only then. `AnswerInv`: at the start of a
transfer (`AtStart`) a packet or a STALL waits exactly if the request is not dropped.
A read that is left to chance may bring any number of packets of another descriptor,
so that for it only this is claimed: they come from an `EP0tx` that holds one.
`AddressInv` follows a
`SET_ADDRESS`: still in the FIFO (`AddressPending`); taken by the device, which
answers at 0 through `DEF` while the host still uses that (`AddressTaken`); or
settled, unless it was given up half way (`AddressUnsettled`). `HostReads` says that
what the host has are the first slices; `FirmwareReads`, with `NextPacket`, that the
next packet is the one behind them: armed, or what `EP0tx` stands at until the
transmit event is handled. The two hold each other up: a packet is in order
because the firmware follows the host, which acknowledged the one before.

*Suspend.* `SuspendInv` divides a suspend into `Awake`, `FallingAsleep`, `Asleep` and
`WakingUp`, each with the node's state and the events that may be pending.

*Receiver.* `ReceiverAlive`: once configured, the receiver of FIFO 1 is armed or
its event is pending. Every handler that disarms it arms it in the same step.

*Delivery.* `OutDeliveredOnce` is inductive once `Delivery` adds that FIFO 0 receives
nothing but configuration requests: what is due is what was received and the packet
in the FIFO under its event, if there is one; a receiver with an unhandled packet is
off, so that no other can come; and a configuration handled before it changes the
packet, not the event, on both sides (`OtherInFlight`).

*Ring buffer.* `Pointers` keeps each pointer and its distance together across
the three steps of a get; `Agree` relates the pointers modulo `Size` to `count`
and to the step the consumer is at; `Elements` says the held cells are data. The
refinement maps the cells before the write pointer to the queue, and a get takes
effect with the last byte of `count`.

*Logic analyzer.* `LeaveInv` finds the one leave in the packet being filled, the
armed one, the pending callback or the flag, and nowhere twice. `PidInv`
says that the PID the client expects is the armed packet's, or else the next
one's, unless something has disturbed it; and that the toggle is always the one
behind the last packet of the main loop, taken or dropped, which is why one packet
mends it. `FifoInv` says what may lie in FIFO 1 besides a packet being filled: the
answer to a query. For the recording, `StreamInv` takes all that lies between the timer and the
caller (samples read, in the part being read, armed, being filled, in the buffer)
as one sequence in which neighbours follow each other, unless an event of `upset`
or the answer to a query lies between; each step appends to it, drops a part, or moves a border within it.
The proof of `InternalGapless` showed that it holds up to the stop that ends a
recording and not beyond, and the property now says so.

*Register access.* `LinesInv`: the asserted lines are the exclusive-or of what the two
contexts hold (`Held`, from the kind of access and the number of the next operation).
This survives an interrupt between two strobes, though the lines are then not
what either context means; so `LinesReleased` holds without any condition. For the
bytes this is not enough. `StartInv` says that what `USBNStart` has left to do
cannot be interrupted, so that one context has the bus for itself; `BusAt` says what
latch, port and direction are before each operation, and, with `PlansInv`, that
a burst finds them as it needs them.

*Boot loader.* `InStep` says which half of which page comes next, from the number
of packets sent, and what is in the flash; it holds while the circumstances are
those of `Regular` (page numbers fit in a byte, the end of the wait did not race a
packet, and nothing was lost unless no packet of the file reads as a command).
`CalmIsDone`: undisturbed, the loader waits until the host has sent everything.

*Uploads.* `SentIsThere`: the memory holds what was sent and not lost, and is
blank behind it.

*Keyboard.* `Counting` relates the count, the copy that a get holds of it and
`slips`, the puts that fell between its load and store; `RingHoldsUnread` finds the
unread characters from the read position on. `UpIsReleasing`: `decode` expects
an up-code exactly between the two bytes of a key that comes up. `FlagsFollowKeys` is
inductive by itself, as `counted` falls with the flag.

*Serial port.* Writing: a message that waits announces the last characters written
(`MessageIsLast`), or is of an overlong write and announces no more characters than
that had; all before them have been sent, have failed, or belong to overlong writes
(`AllAccounted`); and what was not written stands in the place of one of the latter
(`JunkInPlace`). Reading:
`FlushedPay` charges each dropped packet to a flushed one by way of the PID that
it left out of step.

*Ethernet bridge.* `FrameInv` says the buffer holds the packets of the frame so far.
For replies, `ReplyInv` says where one stands: none, the first of two packets,
between them, the last.

*Descriptor builder.* `BuilderInv` needs, besides what is listed where
(`NamesListed`), that no two entries have the same type and number
(`EntriesAreUnique`): the code finds the entry to name by a search from the front.
For the field, `EndpointsCounted` says of the list that an interface's count is the
number of entries that are its endpoints, and that every endpoint has an interface.
Then what is copied at an interface is a `Branch`, its descriptor and as many
endpoints as it counts, and a sequence of branches is a tree (`Grown`), by induction
over the interfaces. That nothing is missing, and the length in bytes, follow
from counting: every entry of a configuration is in the share of one branch
(`Shares`). The field is put together by `FlattenSeq`, a recursion over the walk
through the list; section "Sequences put together by recursion" says what it
computes (`FlattenSteps`) and, of parts and result, which lengths (`FlattenLen`) and
which elements (`FlattenFrom`). The library's induction theorems take an operator
as a parameter; `SetInduction` takes the set of the numbers that have the
property, and rests on the smallest element of its complement (`WFMin`).

*Driver, virtual lab.* A reader inside a message holds the semaphore
(`HolderReads`); the client's and the device's FIFO hold what belongs to the
command of the present client (`FifosAreOwn`).

*uIP.* Sessions meet in the table of connections only: a peer has one entry at most
(`OneEach`), and a step for one peer takes at most another's entry in `TIME_WAIT`.
So the invariant is one of a single session: its connection, the segments on their
way in both directions, the peer, and the lines looked at.
`SessionOK` is about the peer's stream. `StateOK` ties `rcv_nxt` to the number of
lines looked at; `AckOK` says that no acknowledgement, taken or under way, is ahead of
that. `YoungOK` is needed because every connection starts with the same sequence
numbers: until one is established no late segment is about that it could mistake for
its own. `InTurn` says that without loss every line not looked at is on its way
and those before it go first, so that a repeated line never overtakes; with loss
this takes a peer that waits, whose next line is one ahead at most (`RemoteOK`).
`AnswerOK` is about the device's stream, when nothing of it is lost and the peer
waits: the answer to the last line is either on its way, once, and `snd_nxt` stands
before it (`Awaiting`), or the peer has it (`Answered`); a line that will be looked at
acknowledges it (`NextOK`), without which `appsend` would send with the length of the
answer before; and who has closed says nothing with data any more (`Sending`,
`Ending`).

### Model-checked only

Liveness (`TransferSucceeds`, `AppMaySendAgain`, `StartCompletes`, `Drains`,
`InternalEnds`, `SessionsEnd`): fairness and ENABLED are out of the prover's reach.
Every invariant, action property and refinement that a passing run checks is proved.

No module declares a recursive operator: what the code sums over a list is a
cardinality, and what it copies from one is flattened.

## 5. What the code does that a document says otherwise

Each of these is a violation run, quoted under `findings`: the late transmit
event that flushes an answer; registered endpoints that are never armed; the write
of the main loop that lands in another register; the unsynchronised `count`; the
restart within a get; `wTotalLength`, 9 bytes too long.

Met on the way, and either an exception of a property or left out of the
inputs:

- Stack. `GET_STATUS`, `GET_INTERFACE`, `GET_CONFIGURATION` and features of an
  interface or an endpoint are never answered although a comment (`usbn960x.c:346`)
  promises a zero-length response to every SETUP; `RequestAnswered` says for which
  requests it holds. A `SET_CONFIGURATION` handled before a bulk packet flushes it
  under its event. The first descriptor request is cut to 8 bytes by its `wLength` of 64,
  not for being first (`usbn960x.c:556`).
- Builder. Of several configurations only the last gets memory. A device whose
  first string is a name has it at index 0, where hosts ask for languages; the
  length of a name of 127 characters or more wraps.
- Tiny stack. A bus reset is read and ignored (`usbn960x.c:123`); every standard
  request for an interface or an endpoint that its application does not know, also
  one no device supports, is answered with what `EP0tx` was left at (`:265`);
  `SET_FEATURE` and `CLR_FEATURE` for the device are refused.
- Boot loader. The main loop's end of the two seconds and a packet's handler
  can both halve the page number and program a page.
- Ethernet bridge. The high byte of the IP length is multiplied by 255; a frame of
  more than three packets runs over the buffer; a reply of more than 128 bytes is cut;
  the first packet of a long one is always DATA1; a reply flushes one the host has not
  fetched, and is taken for its duplicate. A frame that comes while a reply waits
  overwrites it.
- Logic analyzer. The state query flushes the recording's packet and answers with
  DATA0 from the interrupt; `vscope.c:126` does not compile; `GetVScopeState` does
  not read the answer and returns nothing, and `RecordingInternal` loops on that.
- uIP. Timers are never called, so that a lost answer is not sent again by the
  device, an entry whose peer vanished in `SYN_RCVD`, `FIN_WAIT` or `LAST_ACK` is
  never free again, and every connection starts with the sequence number 0. The
  comment at `uip.c:1058` says the acknowledgement resets "the length of the
  outstanding data", which it does not: a FIN that is the first segment to
  acknowledge the last answer is dropped, as are its repetitions. A FIN without
  data is taken out of order. A line that comes with the acknowledgement of the
  handshake is acknowledged and never looked at. The answer to a line that comes
  before the last answer is acknowledged has the length of the last one. An
  answer to a peer behind a router not asked for yet becomes an ARP request.
  `uip_arp_update` overwrites the last entry of a full table, not the oldest.
- Serial port. The protocol's text allows 61 bytes, the driver sends 60; what is
  longer, or times out, is reported as written, and the length byte of 252 characters
  or more wraps.
- Programmer. The comment speaks of 60 bytes in a packet, 59 are sent; the
  firmware has no branch for the reset command.
- Virtual lab. Setting port 1 is commented out; a command flushed under its event
  is handled as whatever is in memory.
- Linux driver. After a disconnect files go on to read from the device that was.

## 6. Plan

Done: all modules and runs of section 3; the proofs of section 4.

Left: liveness, should the provers learn fairness.

### Not modelled

- uIP: timers (never called), UDP, active open, reassembly, urgent data and stopped
  connections (not built, or nobody uses them); ping and checksums, which keep no
  state; the ARP table at its limit of eight; `uip-0.9` and `httpd`, which are not
  built. The window and the segment size: peers take every answer, and the
  application's are of 8 bytes.
- `cdcrs232`: a character of the UART is sent at once, as in `VPort`; requests are
  answered from constants; its ring buffers are set up through pointers without
  a value, and not used. `usbndemo`: an echo. `cdc_ether`: descriptors.
- Of the logic analyzer the sample rate and the queries of mode and FIFO load.
- Front ends of the logic analyzer (GTK, VCD), `uart.c` and the debug terminal: no
  state of the stack.
- Setters of single descriptor bytes; the branches of FIFOs 2 and 3, which cannot
  run.
- Copies of the stack and of other files under `applications`: what is modelled is
  the original. They are the larger part of the repository's lines, with the
  headers, register definitions and third-party code.
