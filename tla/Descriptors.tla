----------------------------- MODULE Descriptors -----------------------------
(***************************************************************************)
(* The descriptor builder of firmware/usbn960x/usbnapi.c: an application   *)
(* names its device and adds configurations, interfaces and endpoints, in  *)
(* an order of its own, to two lists; USBNStart turns them into the fields *)
(* _USBNGetDescriptor sends from.  A descriptor is a record of the bytes   *)
(* the calls change, a field in memory a sequence of descriptors.          *)
(***************************************************************************)
EXTENDS Integers, Sequences, FiniteSets, SequencesExt

CONSTANTS
  Names,         \* strings, with their numbers of characters
  Endpoints,     \* endpoints an application adds: FIFO, address, direction
  Functions,     \* functions for endpoints; NoFunction is NULL
  NoFunction,
  Settings,      \* alternate settings
  MaxEntries,    \* bound on the two lists together
  MaxStrings,    \* bound on the string list
  MaxConfs       \* bound on the configurations

ASSUME DescriptorsAssumption ==
  /\ \A name \in Names : name.chars \in Nat
  /\ \A ep \in Endpoints : ep.fifo \in 1..3 /\ ep.dir \in {"in", "out"}
  /\ MaxEntries \in Nat /\ MaxStrings \in Nat /\ MaxConfs \in Nat

VARIABLES
  DescriptorList,
  StringList,
  numConfs, ids,         \* of DeviceDescriptor: bNumConfigurations and indices
  rxfifos, txfifos,      \* functions of the FIFOs
  built,                 \* has USBNStart run?
  confField, confSpace,  \* FinalConfigurationArray, bytes reserved
  stringField,           \* FinalStringArray
  given                  \* history: the name given to what

fields     == <<built, confField, confSpace, stringField>>
deviceVars == <<numConfs, ids>>
fifos      == <<rxfifos, txfifos>>
builderVars == <<DescriptorList, StringList, deviceVars, fifos, fields, given>>

Config(c) == [type |-> "conf", conf |-> 0, index |-> c, count |-> 0, name |-> 0, alt |-> 0]
Interface(c, i) ==
  [type |-> "interf", conf |-> c, index |-> i, count |-> 0, name |-> 0, alt |-> 0]
Endpoint(c, i, ep) == [type |-> "endp", conf |-> c, interf |-> i, ep |-> ep]

IsConfig(e, c)       == e.type = "conf" /\ e.index = c
IsInterface(e, c, i) == e.type = "interf" /\ e.conf = c /\ e.index = i
IsEndpoint(e, c, i)  == e.type = "endp" /\ e.conf = c /\ e.interf = i

\* The bytes of some of a field's or list's descriptors, and of all: 7 of an endpoint.
Bytes(s, places) ==
  LET endpoints == {k \in places : s[k].type = "endp"}
  IN 7 * Cardinality(endpoints) + 9 * Cardinality(places \ endpoints)
Length(s) == Bytes(s, DOMAIN s)

\* A string descriptor: its length is a byte.
StringDescriptor(name) == [name |-> name, len |-> (2 * name.chars + 2) % 256]

\* Every entry that passes the test is changed.
Update(Test(_), Change(_)) ==
  [k \in DOMAIN DescriptorList |->
     IF Test(DescriptorList[k]) THEN Change(DescriptorList[k]) ELSE DescriptorList[k]]

\* _USBNAddToList: at the end.
AddToList(list, entry) == Append(list, entry)

Increment(e) == [e EXCEPT !.count = @ + 1]

BuilderInit ==
  /\ DescriptorList = <<>> /\ StringList = <<>>
  /\ numConfs = 0 /\ ids = [k \in {"manufacturer", "product", "serial"} |-> 0]
  /\ rxfifos = [f \in 1..3 |-> NoFunction] /\ txfifos = [f \in 1..3 |-> NoFunction]
  /\ built = FALSE /\ confField = <<>> /\ confSpace = <<>> /\ stringField = <<>>
  /\ given = <<>>

-----------------------------------------------------------------------------
(* What an application calls before USBNStart.  An index is what an earlier  *)
(* call returned.                                                            *)

Roomy(n) == ~built /\ Len(DescriptorList) + Len(StringList) + n <= MaxEntries

\* USBNAddToStringList returns the index of the new string.
AddString(who, name) ==
  /\ given' = [w \in DOMAIN given \cup {who} |-> IF w = who THEN name ELSE given[w]]
  /\ Roomy(1) /\ Len(StringList) < MaxStrings
  /\ StringList' = Append(StringList, StringDescriptor(name))
NewIndex == Len(StringList)

AddLanguage(name) ==
  /\ StringList = <<>>
  /\ AddString(<<"language">>, name)
  /\ UNCHANGED <<DescriptorList, deviceVars, fifos, fields>>

\* USBNDeviceManufacture, USBNDeviceProduct, USBNDeviceSerialNumber.  Index 0 is
\* not saved.
NameDevice(which, name) ==
  /\ AddString(<<which>>, name)
  /\ ids' = IF NewIndex > 0 THEN [ids EXCEPT ![which] = NewIndex] ELSE ids
  /\ UNCHANGED <<DescriptorList, numConfs, fifos, fields>>

AddConfiguration ==
  /\ Roomy(1) /\ numConfs < MaxConfs
  /\ numConfs' = numConfs + 1
  /\ DescriptorList' = AddToList(DescriptorList, Config(numConfs + 1))
  /\ UNCHANGED <<StringList, ids, fifos, fields, given>>

ConfigurationName(c, name) ==
  /\ AddString(<<"conf", c>>, name)
  /\ DescriptorList' = Update(LAMBDA e : IsConfig(e, c),
                              LAMBDA e : [e EXCEPT !.name = NewIndex])
  /\ UNCHANGED <<deviceVars, fifos, fields>>

TheConfig(c) == SelectLastInSeq(DescriptorList, LAMBDA e : IsConfig(e, c))

\* USBNAddInterface, USBNAddInterfaceClass: the index is the number of
\* interfaces the configuration has now.
Interfaces(c) == DescriptorList[TheConfig(c)].count

AddInterface(c) ==
  /\ Roomy(1)
  /\ DescriptorList' =
       AddToList(Update(LAMBDA e : IsConfig(e, c), Increment), Interface(c, Interfaces(c) + 1))
  /\ UNCHANGED <<StringList, deviceVars, fifos, fields, given>>

\* Mutant: the index is what the list had before.
InterfaceNameEarly(c, i, name) ==
  /\ AddString(<<"interf", c, i>>, name)
  /\ DescriptorList' = Update(LAMBDA e : IsInterface(e, c, i),
                              LAMBDA e : [e EXCEPT !.name = NewIndex - 1])
  /\ UNCHANGED <<deviceVars, fifos, fields>>

InterfaceName(c, i, name) ==
  /\ AddString(<<"interf", c, i>>, name)
  /\ DescriptorList' = Update(LAMBDA e : IsInterface(e, c, i),
                              LAMBDA e : [e EXCEPT !.name = NewIndex])
  /\ UNCHANGED <<deviceVars, fifos, fields>>

AlternateSetting(c, i, setting) ==
  /\ ~built
  /\ DescriptorList' = Update(LAMBDA e : IsInterface(e, c, i),
                              LAMBDA e : [e EXCEPT !.alt = setting])
  /\ UNCHANGED <<StringList, deviceVars, fifos, fields, given>>

\* _USBNAddEndpoint
AddEndpoint(c, i, ep) ==
  /\ Roomy(1)
  /\ DescriptorList' = AddToList(Update(LAMBDA e : IsInterface(e, c, i), Increment),
                                 Endpoint(c, i, ep))
  /\ UNCHANGED <<StringList, deviceVars, fields, given>>

AddOutEndpoint(c, i, ep, fkt) ==
  /\ ep.dir = "out" /\ AddEndpoint(c, i, ep)
  /\ rxfifos' = [rxfifos EXCEPT ![ep.fifo] = fkt]
  /\ UNCHANGED txfifos

AddInEndpoint(c, i, ep, fkt) ==
  /\ ep.dir = "in" /\ AddEndpoint(c, i, ep)
  /\ txfifos' = IF fkt = NoFunction THEN txfifos ELSE [txfifos EXCEPT ![ep.fifo] = fkt]
  /\ UNCHANGED rxfifos

-----------------------------------------------------------------------------
(* The fields USBNStart builds                                              *)

Places(Test(_)) == {k \in DOMAIN DescriptorList : Test(DescriptorList[k])}
Configurations  == Cardinality(Places(LAMBDA e : e.type = "conf"))

\* A walk over the list, with what is copied of each entry.
Walk(Copied(_)) == FlattenSeq([k \in DOMAIN DescriptorList |-> Copied(DescriptorList[k])])

\* Mutant: an endpoint is copied behind every interface.
AllEndpoints(c, i) ==
  Walk(LAMBDA e : IF e.type = "endp" /\ e.conf = c THEN <<e>> ELSE <<>>)
EndpointsOf(c, i) == Walk(LAMBDA e : IF IsEndpoint(e, c, i) THEN <<e>> ELSE <<>>)

\* What is copied behind configuration c: its interfaces 1, 2 and so on, each
\* with its endpoints.
Subtree(c) ==
  FlattenSeq([i \in 1..Interfaces(c) |->
    Walk(LAMBDA e : IF IsInterface(e, c, i) THEN <<e>> \o EndpointsOf(c, i) ELSE <<>>)])

\* The entry of a configuration has conf 0 and is not in the sum.
Desclen(c) == 9 + Bytes(DescriptorList, Places(LAMBDA e : e.conf = c))

\* Memory is reserved at Configurations - 1 for each of them, and what is copied
\* to place i - 1 goes on where the configuration before ended.
CreateConfDescrField ==
  LET all == Configurations
      last == DescriptorList[TheConfig(all)]
      before(c) == FlattenSeq([d \in 1..(c - 1) |-> Subtree(d)])
  IN /\ confSpace' = [c \in 1..all |-> IF c = all THEN Desclen(c) ELSE 0]
     /\ confField' = [c \in 1..all |->
          [header |-> IF c = all THEN <<last>> ELSE <<>>,
           total  |-> IF c = all THEN Desclen(c) + 9 ELSE 0,
           start  |-> 9 + Length(before(c)), tree |-> Subtree(c)]]

CreateStringField == stringField' = StringList

\* USBNStart.  Without a string the string field would be built from nothing.
Build ==
  /\ ~built /\ StringList # <<>> /\ Configurations > 0
  /\ built' = TRUE
  /\ CreateConfDescrField /\ CreateStringField
  /\ UNCHANGED <<DescriptorList, StringList, deviceVars, fifos, given>>

BuilderNext ==
  \/ \E name \in Names :
       \/ AddLanguage(name)
       \/ \E which \in DOMAIN ids : NameDevice(which, name)
       \/ \E c \in 1..numConfs :
            \/ ConfigurationName(c, name)
            \/ \E i \in 1..Interfaces(c) : InterfaceName(c, i, name)
  \/ AddConfiguration
  \/ \E c \in 1..numConfs :
       \/ AddInterface(c)
       \/ \E i \in 1..Interfaces(c) :
            \/ \E setting \in Settings : AlternateSetting(c, i, setting)
            \/ \E ep \in Endpoints :
                 \/ \E fkt \in Functions : AddOutEndpoint(c, i, ep, fkt)
                 \/ \E fkt \in Functions \cup {NoFunction} : AddInEndpoint(c, i, ep, fkt)
  \/ Build

BuilderSpec == BuilderInit /\ [][BuilderNext]_builderVars
-----------------------------------------------------------------------------
(* Properties, for a device with one configuration, as every application of   *)
(* the repository is: of several, only the last has memory.                   *)

OneConfiguration == built /\ numConfs = 1

\* The field is a tree the host can parse: interfaces in the order they were
\* added, as many as the configuration says, each followed by as many endpoints
\* as it says, those that were added to it; nothing is missing; and what is copied
\* fills the memory reserved for it, and no more.
TreeIsComplete ==
    LET tree == confField[1].tree
        interfaces == {k \in DOMAIN tree : tree[k].type = "interf"}
    IN /\ Cardinality(interfaces) = confField[1].header[1].count
       /\ \A k \in interfaces :
            /\ tree[k].index = Cardinality({j \in interfaces : j <= k})
            /\ k + tree[k].count <= Len(tree)
            /\ \A n \in (k + 1)..Len(tree) :
                 n <= k + tree[k].count <=> (\A x \in (k + 1)..n : tree[x].type = "endp")
            /\ \A n \in (k + 1)..(k + tree[k].count) : tree[n].interf = tree[k].index
       /\ Len(tree) = Len(DescriptorList) - 1

FieldFits == confField[1].start + Length(confField[1].tree) = confSpace[1]

FieldIsTree == OneConfiguration => TreeIsComplete /\ FieldFits

TheInterface(c, i) == SelectLastInSeq(DescriptorList, LAMBDA e : IsInterface(e, c, i))

\* The name given to the device, a configuration or an interface is the one the
\* host finds at the index in its descriptor, if the language came first and the
\* length of the name fits in a byte.
IndexOf(who) ==
  CASE who[1] = "language" -> 0
    [] who[1] = "conf"     -> DescriptorList[TheConfig(who[2])].name
    [] who[1] = "interf"   ->
         DescriptorList[TheInterface(who[2], who[3])].name
    [] OTHER               -> ids[who[1]]

NamesFound ==
  built /\ <<"language">> \in DOMAIN given =>
    \A who \in DOMAIN given :
      LET string == stringField[IndexOf(who) + 1] IN
      /\ string.name = given[who]
      /\ given[who].chars < 127 => string.len = 2 * given[who].chars + 2

\* "update configuration total length" (usbnapi.c, line 424): wTotalLength is the
\* length of the configuration with all its interfaces and endpoints.
TotalLengthRight ==
  OneConfiguration => confField[1].total = 9 + Length(confField[1].tree)
=============================================================================
