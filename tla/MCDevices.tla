------------------------------ MODULE MCDevices ------------------------------
(* One run for the parts that are small and do not interact: a behaviour is   *)
(* one of a single part, the others stay as they start.  Descriptors with a   *)
(* short and an overlong name and an endpoint for each direction; Boot with   *)
(* files that end in a full page, in half a page and behind the last page     *)
(* number, and with packets that read as commands; UsbNet with frames at the  *)
(* edges of a packet; VPort with one write too long for its length byte; Uip  *)
(* with one peer more than it has connections.                                *)
EXTENDS Descriptors, Boot, AtKeyboard, UsbNet, VPort, UsbFlash, Vlab, LinuxDriver,
        Uip

VARIABLE device

MCNames == {[id |-> "short", chars |-> 4], [id |-> "long", chars |-> 127]}
MCEndpoints == {[fifo |-> 1, adr |-> 2, dir |-> "out"], [fifo |-> 1, adr |-> 3, dir |-> "in"]}

Code(n) == [k \in 0..(n - 1) |-> "code"]
MCFiles ==
  {Code(3), Code(5), [Code(4) EXCEPT ![1] = "write"], [Code(4) EXCEPT ![2] = "start"]}

Sized(t, s) == [type |-> t, size |-> s]
MCFrames ==
  {Sized("arp", 42), Sized("ip", 64), Sized("ip", 65), Sized("ip", 129), Sized("other", 60)}
MCReplies == {Sized("arp", 42), Sized("ip", 64), Sized("ip", 128), Sized("ip", 170)}

allVars == <<device, builderVars, bootVars, keyVars, netVars, portVars, flashVars,
             vlabVars, driverVars, uipVars>>

MCScripts == {<<"h">>, <<"q">>, <<"h", "other">>, <<"other", "h", "q">>}

\* The choices of a part are open in its own behaviours and settled in the others.
BootStyle ==
  IF device = "boot" THEN file \in Files /\ calm \in BOOLEAN /\ (file = Code(5) => calm)
  ELSE file = Code(3) /\ calm = TRUE

NetStyle ==
  IF device = "net" THEN frame \in Frames /\ polite \in BOOLEAN
  ELSE frame = Sized("arp", 42) /\ polite = TRUE

\* Three peers on an undisturbed network, of which two close by a command or all by
\* themselves, or one in any other circumstances that a property speaks of.
Say(first, second) == [p \in Peers |-> IF p = "a" THEN first ELSE IF p = "b" THEN second ELSE <<"h">>]

Crowd ==
  /\ active = Peers /\ beyond = {}
  /\ \E s \in {<<"h">>, <<"q">>} : script = Say(s, s)
  /\ lossy = FALSE /\ hasty = FALSE /\ patient = TRUE /\ prompt = TRUE

Single ==
  /\ active = {"a"} /\ beyond \in SUBSET Beyond
  /\ \E s \in Scripts : script = Say(s, <<"h">>)
  /\ lossy \in BOOLEAN /\ hasty \in BOOLEAN /\ patient \in BOOLEAN /\ prompt \in BOOLEAN
  /\ (lossy => hasty /\ prompt /\ patient)
  /\ (hasty /\ ~patient => Lines("a") <= 2)
  /\ (beyond # {} => ~lossy /\ ~hasty)

UipStyle ==
  IF device = "uip" THEN Crowd \/ Single
  ELSE /\ active = {} /\ beyond = {} /\ script = Say(<<"h">>, <<"h">>)
       /\ lossy = FALSE /\ hasty = FALSE /\ patient = FALSE /\ prompt = FALSE

DevicesInit ==
  /\ device \in {"builder", "boot", "keyboard", "net", "port", "flash", "vlab", "driver",
                "uip"}
  /\ BootStyle /\ NetStyle /\ UipStyle
  /\ BuilderInit /\ BootInit /\ KeyInit /\ NetInit /\ PortInit
  /\ FlashInit /\ VlabInit /\ DriverInit /\ UipInit

DevicesNext ==
  /\ UNCHANGED device
  /\ IF device = "builder" THEN BuilderNext ELSE UNCHANGED builderVars
  /\ IF device = "boot" THEN BootNext ELSE UNCHANGED bootVars
  /\ IF device = "keyboard" THEN KeyNext ELSE UNCHANGED keyVars
  /\ IF device = "net" THEN NetNext ELSE UNCHANGED netVars
  /\ IF device = "port" THEN PortNext ELSE UNCHANGED portVars
  /\ IF device = "flash" THEN FlashNext ELSE UNCHANGED flashVars
  /\ IF device = "vlab" THEN VlabNext ELSE UNCHANGED vlabVars
  /\ IF device = "driver" THEN DriverNext ELSE UNCHANGED driverVars
  /\ IF device = "uip" THEN UipNext ELSE UNCHANGED uipVars

otherVars == <<device, builderVars, bootVars, keyVars, netVars, portVars, flashVars, vlabVars, driverVars>>

\* In every session with the bridge one or the other side goes on as long as it can,
\* and the host fetches what the bridge puts out.
DevicesSpec ==
  /\ DevicesInit /\ [][DevicesNext]_allVars
  /\ \A p \in Peers :
       WF_allVars(device = "uip" /\ Session(p) /\ UNCHANGED otherVars)
  /\ WF_allVars(device = "uip" /\ Fetch /\ UNCHANGED otherVars)
=============================================================================
