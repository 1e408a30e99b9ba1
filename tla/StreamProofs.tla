---------------------------- MODULE StreamProofs ----------------------------
(***************************************************************************)
(* What arrives in what order: the keys of the AT keyboard for every set   *)
(* of keys and size of its buffer, the characters of the virtual serial    *)
(* port for every size of a packet, and the frames of the Ethernet bridge  *)
(* with the replies to them, for every number of frames.                   *)
(***************************************************************************)
EXTENDS AtKeyboard, VPort, UsbNet, SequenceTheorems, TLAPS

-----------------------------------------------------------------------------
(* The AT keyboard                                                          *)

KeyTypeOK ==
  /\ held \subseteq Keys /\ releasing \in held \cup {"none"}
  /\ isUp \in BOOLEAN /\ shift \in BOOLEAN /\ mode \in 0..3
  /\ kbBuffer \in [0..(BuffSize - 1) -> Nat]
  /\ inpt \in 0..(BuffSize - 1) /\ outpt \in 0..(BuffSize - 1)
  /\ buffcnt \in 0..BuffSize
  /\ getPc \in {"count", "load", "store"} /\ getReg \in Nat
  /\ typed \in Seq(Nat) /\ read \in Seq(Nat)
  /\ strokes \in Nat /\ slips \in Nat

\* Between the identifier and the code of a key that comes up, and only there,
\* decode expects an up-key.
UpIsReleasing == isUp <=> releasing # "none"

\* The count, and the copy of it that atkeyb_getchar is about to decrement.
Counting ==
  /\ CountHidesSlips
  /\ getPc = "load" => buffcnt > 0
  /\ getPc = "store" => getReg \in 1..BuffSize /\ getReg = Unread - slips + 1
  /\ getPc = "store" /\ slips = 0 => buffcnt = getReg

\* The j-th position from p on in the ring.
RingPos(p, j) == IF p + j < BuffSize THEN p + j ELSE p + j - BuffSize

\* As long as no count was lost the ring holds what is unread, from outpt to inpt.
RingHoldsUnread ==
  slips = 0 =>
    /\ Unread \in 0..BuffSize
    /\ inpt = RingPos(outpt, IF Unread < BuffSize THEN Unread ELSE 0)
    /\ \A j \in 0..(BuffSize - 1) :
         j < Unread => kbBuffer[RingPos(outpt, j)] = typed[Len(read) + 1 + j]
    /\ \A i \in 1..Len(read) : read[i] = typed[i]

KeyInv == KeyTypeOK /\ UpIsReleasing /\ FlagsFollowKeys /\ Counting /\ RingHoldsUnread

LEMMA KeyInitInv == KeyInit => KeyInv
<1> SUFFICES ASSUME KeyInit PROVE KeyInv
  OBVIOUS
<1>1. /\ typed = <<>> /\ read = <<>> /\ Len(typed) = 0 /\ Len(read) = 0 /\ Unread = 0
      /\ typed \in Seq(Nat) /\ read \in Seq(Nat)
  BY DEF KeyInit, Unread
<1>2. KeyTypeOK
  <2>1. buffcnt \in 0..BuffSize /\ inpt \in 0..(BuffSize - 1) /\ outpt \in 0..(BuffSize - 1)
    BY KeyboardAssumption DEF KeyInit
  <2>2. mode \in 0..3 /\ slips \in Nat /\ strokes \in Nat /\ getReg \in Nat
    BY DEF KeyInit
  <2>3. kbBuffer \in [0..(BuffSize - 1) -> Nat]
    BY DEF KeyInit
  <2> QED BY <1>1, <2>1, <2>2, <2>3 DEF KeyInit, KeyTypeOK
<1>3. UpIsReleasing /\ FlagsFollowKeys
  BY DEF KeyInit, UpIsReleasing, FlagsFollowKeys
<1>4. Counting
  BY <1>1 DEF KeyInit, Counting, CountHidesSlips
<1>5. RingHoldsUnread
  BY <1>1, KeyboardAssumption DEF KeyInit, RingHoldsUnread, RingPos
<1> QED BY <1>2, <1>3, <1>4, <1>5 DEF KeyInv

-----------------------------------------------------------------------------
(* The flags                                                                *)

\* A code changes the flags as its key does.
LEMMA FlagsDown ==
  ASSUME KeyInv, NEW k \in Keys, KeyDown(k)
  PROVE  FlagsFollowKeys' /\ UpIsReleasing' /\ shift' \in BOOLEAN /\ mode' \in 0..3
<1>1. /\ ~isUp /\ DecodeDown(k) /\ held' = held \cup {k} /\ UNCHANGED releasing
      /\ counted' = counted \cup ({k} \cap Shifts)
  BY DEF KeyInv, UpIsReleasing, KeyDown, Decode
<1>2. UpIsReleasing'
  BY <1>1, Zenon DEF KeyInv, UpIsReleasing, DecodeDown
<1>3. shift' = (shift \/ k \in Shifts)
  BY <1>1, Zenon DEF DecodeDown
<1>4. shift' \in BOOLEAN /\ (shift' <=> counted' # {}) /\ counted' \subseteq held' \cap Shifts
  BY <1>1, <1>3 DEF KeyInv, KeyTypeOK, FlagsFollowKeys
<1>5. mode' \in 0..3 /\ (mode' \in {1, 3} <=> "F1" \in held')
  <2>1. mode' = IF k # "F1" THEN mode ELSE <<1, 1, 3, 3>>[mode + 1]
    BY <1>1 DEF DecodeDown
  <2>2. mode \in {0, 1, 2, 3} /\ (mode \in {1, 3} <=> "F1" \in held)
    BY DEF KeyInv, KeyTypeOK, FlagsFollowKeys
  <2> QED BY <1>1, <2>1, <2>2
<1> QED BY <1>2, <1>4, <1>5 DEF FlagsFollowKeys

LEMMA FlagsUp ==
  ASSUME KeyInv, UpCode
  PROVE  FlagsFollowKeys' /\ UpIsReleasing' /\ shift' \in BOOLEAN /\ mode' \in 0..3
<1> DEFINE k == releasing
<1>1. /\ isUp /\ DecodeUp(k) /\ held' = held \ {k} /\ releasing' = "none"
      /\ counted' = IF k \in Shifts THEN {} ELSE counted
  BY DEF KeyInv, UpIsReleasing, UpCode, Decode
<1>2. UpIsReleasing'
  BY <1>1 DEF UpIsReleasing, DecodeUp
<1>3. shift' = (shift /\ k \notin Shifts)
  BY <1>1, Zenon DEF DecodeUp
<1>4. shift' \in BOOLEAN /\ (shift' <=> counted' # {}) /\ counted' \subseteq held' \cap Shifts
  BY <1>1, <1>3 DEF KeyInv, KeyTypeOK, FlagsFollowKeys
<1>5. mode' \in 0..3 /\ (mode' \in {1, 3} <=> "F1" \in held')
  <2>1. mode' = IF k # "F1" THEN mode ELSE <<0, 2, 2, 0>>[mode + 1]
    BY <1>1 DEF DecodeUp
  <2>2. mode \in {0, 1, 2, 3} /\ (mode \in {1, 3} <=> "F1" \in held)
    BY DEF KeyInv, KeyTypeOK, FlagsFollowKeys
  <2> QED BY <1>1, <2>1, <2>2
<1> QED BY <1>2, <1>4, <1>5 DEF FlagsFollowKeys

-----------------------------------------------------------------------------
(* The buffer                                                               *)

\* A position of the ring is in it, two different ones are apart, and the next one
\* follows.
LEMMA RingPositions ==
  ASSUME NEW p \in 0..(BuffSize - 1), NEW i \in 0..(BuffSize - 1), NEW j \in 0..(BuffSize - 1)
  PROVE  /\ RingPos(p, j) \in 0..(BuffSize - 1) /\ Wrap(p) \in 0..(BuffSize - 1)
         /\ i # j => RingPos(p, i) # RingPos(p, j)
         /\ RingPos(p, 0) = p
         /\ j + 1 < BuffSize => /\ Wrap(RingPos(p, j)) = RingPos(p, j + 1)
                                /\ RingPos(Wrap(p), j) = RingPos(p, j + 1)
         /\ j + 1 = BuffSize => Wrap(RingPos(p, j)) = p /\ RingPos(Wrap(p), j) = p
BY KeyboardAssumption DEF RingPos, Wrap

\* A code leaves the buffer alone or puts a character into it.
LEMMA DecodePuts ==
  ASSUME NEW k \in Keys, Decode(k)
  PROVE  NoPut \/ (~isUp /\ buffcnt < BuffSize /\ Put)
BY DEF Decode, DecodeDown, DecodeUp, Put, NoPut

\* A character goes behind the unread ones.
LEMMA PutInv ==
  ASSUME KeyInv, buffcnt < BuffSize, Put, UNCHANGED <<outpt, getPc, getReg, read>>,
         slips' = IF getPc = "store" THEN slips + 1 ELSE slips
  PROVE  Counting' /\ RingHoldsUnread' /\ typed' \in Seq(Nat) /\ buffcnt' \in 0..BuffSize
         /\ kbBuffer' \in [0..(BuffSize - 1) -> Nat] /\ inpt' \in 0..(BuffSize - 1)
<1>1. /\ kbBuffer' = [kbBuffer EXCEPT ![inpt] = strokes + 1] /\ inpt' = Wrap(inpt)
      /\ buffcnt' = buffcnt + 1 /\ typed' = Append(typed, strokes + 1)
  BY DEF Put
<1>2. /\ typed \in Seq(Nat) /\ read \in Seq(Nat) /\ slips \in Nat /\ buffcnt \in Nat
      /\ strokes + 1 \in Nat /\ BuffSize \in Nat /\ getReg \in Nat /\ BuffSize > 0
      /\ inpt \in 0..(BuffSize - 1) /\ outpt \in 0..(BuffSize - 1)
  BY KeyboardAssumption DEF KeyInv, KeyTypeOK
<1>3. /\ typed' \in Seq(Nat) /\ Len(typed') = Len(typed) + 1
      /\ Len(typed) \in Nat /\ Len(read) \in Nat
      /\ \A i \in 1..Len(typed) : typed'[i] = typed[i]
      /\ typed'[Len(typed) + 1] = strokes + 1
  BY <1>1, <1>2, AppendProperties, LenProperties
<1>4. Unread' = Unread + 1 /\ Unread \in Int
  BY <1>2, <1>3 DEF Unread
<1>5. Counting'
  BY <1>1, <1>2, <1>4 DEF KeyInv, KeyTypeOK, Counting, CountHidesSlips
<1>8. /\ inpt \in 0..(BuffSize - 1) /\ outpt \in 0..(BuffSize - 1)
      /\ kbBuffer \in [0..(BuffSize - 1) -> Nat]
  BY DEF KeyInv, KeyTypeOK
<1>9. \A i, j \in 0..(BuffSize - 1) :
        /\ RingPos(outpt, j) \in 0..(BuffSize - 1)
        /\ i # j => RingPos(outpt, i) # RingPos(outpt, j)
        /\ j + 1 < BuffSize => Wrap(RingPos(outpt, j)) = RingPos(outpt, j + 1)
        /\ j + 1 = BuffSize => Wrap(RingPos(outpt, j)) = RingPos(outpt, 0)
  <2> TAKE i, j \in 0..(BuffSize - 1)
  <2>1. RingPos(outpt, j) \in 0..(BuffSize - 1)
    BY <1>8, RingPositions
  <2>2. i # j => RingPos(outpt, i) # RingPos(outpt, j)
    BY <1>8, RingPositions
  <2>3. j + 1 < BuffSize => Wrap(RingPos(outpt, j)) = RingPos(outpt, j + 1)
    BY <1>8, RingPositions
  <2>4. j + 1 = BuffSize => Wrap(RingPos(outpt, j)) = RingPos(outpt, 0)
    BY <1>8, RingPositions
  <2> QED BY <2>1, <2>2, <2>3, <2>4
<1>6. inpt' \in 0..(BuffSize - 1) /\ buffcnt' \in 0..BuffSize
      /\ kbBuffer' \in [0..(BuffSize - 1) -> Nat]
  <2>1. Wrap(inpt) \in 0..(BuffSize - 1)
    BY <1>8, RingPositions
  <2>2. kbBuffer' \in [0..(BuffSize - 1) -> Nat]
    BY <1>1, <1>2, <1>8
  <2> QED BY <1>1, <1>2, <2>1, <2>2
<1>7. RingHoldsUnread'
  <2> SUFFICES ASSUME slips' = 0 PROVE RingHoldsUnread'
    BY DEF RingHoldsUnread
  <2> DEFINE u == Unread
  <2>1. slips = 0 /\ getPc # "store" /\ u <= buffcnt
    BY <1>2, <1>4 DEF KeyInv, Counting, CountHidesSlips
  <2>2. u \in 0..(BuffSize - 1) /\ inpt = RingPos(outpt, u)
    BY <1>2, <1>4, <2>1 DEF KeyInv, RingHoldsUnread
  <2>3. Len(typed) = Len(read) + u
    BY <1>3 DEF Unread
  <2> HIDE DEF u
  <2>4. inpt' = RingPos(outpt, IF u + 1 < BuffSize THEN u + 1 ELSE 0)
    <3>1. u + 1 < BuffSize \/ u + 1 = BuffSize
      BY <1>2, <2>2
    <3> QED BY <1>1, <1>2, <1>9, <2>2, <3>1
  <2>5. ASSUME NEW j \in 0..(BuffSize - 1), j < u + 1
        PROVE  kbBuffer'[RingPos(outpt, j)] = typed'[Len(read) + 1 + j]
    <3>1. CASE j = u
      <4>1. RingPos(outpt, j) = inpt
        BY <2>2, <3>1
      <4>2. kbBuffer'[inpt] = strokes + 1
        BY <1>1, <1>8
      <4>3. Len(read) + 1 + j = Len(typed) + 1
        BY <1>3, <2>2, <2>3, <3>1
      <4> QED BY <1>3, <4>1, <4>2, <4>3
    <3>2. CASE j < u
      <4>1. RingPos(outpt, j) \in 0..(BuffSize - 1) /\ RingPos(outpt, j) # inpt
        BY <1>9, <2>2, <2>5, <3>2
      <4>2. kbBuffer[RingPos(outpt, j)] = typed[Len(read) + 1 + j]
        BY <2>1, <2>5, <3>2 DEF KeyInv, RingHoldsUnread, u
      <4>3. Len(read) + 1 + j \in 1..Len(typed)
        BY <1>3, <2>2, <2>3, <2>5, <3>2
      <4> QED BY <1>1, <1>3, <1>8, <4>1, <4>2, <4>3
    <3> QED BY <2>2, <2>5, <3>1, <3>2
  <2>6. \A i \in 1..Len(read) : read[i] = typed'[i]
    <3>1. \A i \in 1..Len(read) : i \in 1..Len(typed) /\ read[i] = typed[i]
      BY <1>3, <2>1, <2>2, <2>3 DEF KeyInv, RingHoldsUnread
    <3> QED BY <1>3, <3>1
  <2>7. Unread' = u + 1 /\ outpt' = outpt /\ read' = read
    BY <1>4 DEF u
  <2>8. u + 1 \in 0..BuffSize
    BY <1>2, <2>2
  <2>9. \A i \in 1..Len(read') : read'[i] = typed'[i]
    BY <2>6, <2>7
  <2>10. \A j \in 0..(BuffSize - 1) :
           j < Unread' => kbBuffer'[RingPos(outpt, j)'] = typed'[Len(read') + 1 + j]
    BY <2>5, <2>7 DEF RingPos
  <2> QED BY <2>4, <2>7, <2>8, <2>9, <2>10 DEF RingHoldsUnread, RingPos
<1> QED BY <1>3, <1>5, <1>6, <1>7

\* A code that puts nothing leaves the buffer as it is.
LEMMA NoPutInv ==
  ASSUME KeyInv, NoPut, UNCHANGED <<outpt, getPc, getReg, read, slips>>
  PROVE  Counting' /\ RingHoldsUnread'
BY DEF KeyInv, NoPut, Counting, CountHidesSlips, RingHoldsUnread, RingPos, Unread

LEMMA KeyDownInv ==
  ASSUME KeyInv, NEW k \in Keys, KeyDown(k)
  PROVE  KeyInv'
<1>1. FlagsFollowKeys' /\ UpIsReleasing' /\ shift' \in BOOLEAN /\ mode' \in 0..3
  BY FlagsDown
<1>2. /\ Decode(k) /\ held' = held \cup {k} /\ strokes' = strokes + 1
      /\ slips' = IF getPc = "store" /\ buffcnt' # buffcnt THEN slips + 1 ELSE slips
      /\ UNCHANGED <<outpt, getPc, getReg, read, releasing>>
  BY DEF KeyDown, Reader
<1>3. isUp' \in BOOLEAN
  <2>1. isUp' = isUp
    BY <1>2, Zenon DEF KeyInv, UpIsReleasing, KeyDown, Decode, DecodeDown
  <2> QED BY <2>1 DEF KeyInv, KeyTypeOK
<1>4. CASE NoPut
  <2>1. UNCHANGED <<kbBuffer, inpt, buffcnt, typed, slips>>
    BY <1>2, <1>4 DEF NoPut
  <2>2. Counting' /\ RingHoldsUnread'
    BY <1>2, <1>4, <2>1, NoPutInv
  <2>3. KeyTypeOK'
    BY <1>1, <1>2, <1>3, <2>1 DEF KeyInv, KeyTypeOK
  <2> QED BY <1>1, <2>2, <2>3 DEF KeyInv
<1>5. CASE buffcnt < BuffSize /\ Put
  <2>1. buffcnt' # buffcnt
    BY <1>5 DEF Put, KeyInv, KeyTypeOK
  <2>2. /\ Counting' /\ RingHoldsUnread' /\ typed' \in Seq(Nat) /\ buffcnt' \in 0..BuffSize
        /\ kbBuffer' \in [0..(BuffSize - 1) -> Nat] /\ inpt' \in 0..(BuffSize - 1)
    BY <1>2, <1>5, <2>1, PutInv
  <2>3. KeyTypeOK'
    BY <1>1, <1>2, <1>3, <2>2 DEF KeyInv, KeyTypeOK
  <2> QED BY <1>1, <2>2, <2>3 DEF KeyInv
<1> QED BY <1>2, <1>4, <1>5, DecodePuts

LEMMA KeyUpInv ==
  ASSUME KeyInv, NEW k \in Keys, KeyUp(k)
  PROVE  KeyInv'
<1>1. /\ releasing' = k /\ isUp' = TRUE /\ k \in held
      /\ UNCHANGED <<held, counted, shift, mode, kbBuffer, inpt, buffcnt, typed, Reader, strokes, slips>>
  BY DEF KeyUp
<1>2. UNCHANGED <<outpt, getPc, getReg, read>> /\ NoPut
  BY <1>1 DEF Reader, NoPut
<1>3. Counting' /\ RingHoldsUnread'
  BY <1>1, <1>2, NoPutInv
<1>4. "none" \notin Keys
  BY KeyboardAssumption DEF Keys, Shifts
<1>5. KeyTypeOK' /\ UpIsReleasing' /\ FlagsFollowKeys'
  BY <1>1, <1>2, <1>4 DEF KeyInv, KeyTypeOK, UpIsReleasing, FlagsFollowKeys
<1> QED BY <1>3, <1>5 DEF KeyInv

LEMMA UpCodeInv ==
  ASSUME KeyInv, UpCode
  PROVE  KeyInv'
<1>1. FlagsFollowKeys' /\ UpIsReleasing' /\ shift' \in BOOLEAN /\ mode' \in 0..3
  BY FlagsUp
<1>2. /\ NoPut /\ isUp' = FALSE /\ held' = held \ {releasing} /\ releasing' = "none"
      /\ UNCHANGED <<outpt, getPc, getReg, read, strokes, slips>>
  BY DEF UpCode, Decode, DecodeUp, Reader, KeyInv, UpIsReleasing
<1>3. Counting' /\ RingHoldsUnread'
  BY <1>2, NoPutInv
<1>4. KeyTypeOK'
  BY <1>1, <1>2 DEF KeyInv, KeyTypeOK, NoPut
<1> QED BY <1>1, <1>3, <1>4 DEF KeyInv

\* atkeyb_getchar takes the first of the unread characters; its two halves of the
\* decrement leave the ring alone.
LEMMA GetByteInv ==
  ASSUME KeyInv, GetByte
  PROVE  KeyInv'
<1>1. /\ getPc = "count" /\ buffcnt # 0 /\ read' = Append(read, kbBuffer[outpt])
      /\ outpt' = Wrap(outpt) /\ getPc' = "load"
      /\ UNCHANGED <<held, counted, releasing, isUp, shift, mode, kbBuffer, inpt, buffcnt, getReg,
                     typed, strokes, slips>>
  BY DEF GetByte, decodeVars
<1>2. /\ typed \in Seq(Nat) /\ read \in Seq(Nat) /\ slips \in Nat /\ buffcnt \in 0..BuffSize
      /\ BuffSize \in Nat /\ BuffSize > 0
      /\ inpt \in 0..(BuffSize - 1) /\ outpt \in 0..(BuffSize - 1)
      /\ kbBuffer \in [0..(BuffSize - 1) -> Nat] /\ kbBuffer[outpt] \in Nat
  BY KeyboardAssumption DEF KeyInv, KeyTypeOK
<1>3. /\ read' \in Seq(Nat) /\ Len(read') = Len(read) + 1
      /\ Len(typed) \in Nat /\ Len(read) \in Nat
      /\ \A i \in 1..Len(read) : read'[i] = read[i]
      /\ read'[Len(read) + 1] = kbBuffer[outpt]
  BY <1>1, <1>2, AppendProperties, LenProperties
<1>4. Unread' = Unread - 1 /\ Unread \in Int
  BY <1>1, <1>2, <1>3 DEF Unread
<1>5. Counting'
  BY <1>1, <1>2, <1>4 DEF KeyInv, Counting, CountHidesSlips
<1>6. KeyTypeOK' /\ UpIsReleasing' /\ FlagsFollowKeys'
  <2>1. outpt' \in 0..(BuffSize - 1)
    BY <1>1, <1>2, RingPositions
  <2>2. KeyTypeOK'
    BY <1>1, <1>3, <2>1 DEF KeyInv, KeyTypeOK
  <2> QED BY <1>1, <2>2 DEF KeyInv, UpIsReleasing, FlagsFollowKeys
<1>7. RingHoldsUnread'
  <2> SUFFICES ASSUME slips = 0 PROVE RingHoldsUnread'
    BY <1>1 DEF RingHoldsUnread
  <2> DEFINE u == Unread
  <2>1. u = buffcnt /\ u \in 1..BuffSize /\ Len(typed) = Len(read) + u
    BY <1>1, <1>2, <1>3, <1>4 DEF KeyInv, Counting, CountHidesSlips, Unread
  <2>2. /\ inpt = RingPos(outpt, IF u < BuffSize THEN u ELSE 0)
        /\ \A j \in 0..(BuffSize - 1) :
             j < u => kbBuffer[RingPos(outpt, j)] = typed[Len(read) + 1 + j]
        /\ \A i \in 1..Len(read) : read[i] = typed[i]
    BY DEF KeyInv, RingHoldsUnread
  <2> HIDE DEF u
  <2>3. inpt = RingPos(Wrap(outpt), u - 1)
    <3>1. u - 1 \in 0..(BuffSize - 1)
      BY <1>2, <2>1
    <3>2. CASE u < BuffSize
      BY <1>2, <2>1, <2>2, <3>1, <3>2, RingPositions
    <3>3. CASE u = BuffSize
      <4>1. inpt = outpt
        BY <1>2, <2>2, <3>3, RingPositions
      <4>2. RingPos(Wrap(outpt), u - 1) = outpt
        BY <1>2, <3>1, <3>3, RingPositions
      <4> QED BY <4>1, <4>2
    <3> QED BY <1>2, <2>1, <3>2, <3>3
  <2>4. ASSUME NEW j \in 0..(BuffSize - 1), j < u - 1
        PROVE  kbBuffer[RingPos(Wrap(outpt), j)] = typed[Len(read) + 1 + 1 + j]
    <3>1. j + 1 \in 0..(BuffSize - 1) /\ j + 1 < u
      BY <1>2, <2>1, <2>4
    <3>2. RingPos(Wrap(outpt), j) = RingPos(outpt, j + 1)
      BY <1>2, <2>4, <3>1, RingPositions
    <3>3. kbBuffer[RingPos(outpt, j + 1)] = typed[Len(read) + 1 + (j + 1)]
      BY <2>2, <3>1
    <3> QED BY <1>3, <2>4, <3>2, <3>3
  <2>5. \A i \in 1..Len(read') : read'[i] = typed[i]
    <3>1. kbBuffer[outpt] = typed[Len(read) + 1]
      <4>1. 0 \in 0..(BuffSize - 1) /\ RingPos(outpt, 0) = outpt
        BY <1>2, RingPositions
      <4>2. kbBuffer[RingPos(outpt, 0)] = typed[Len(read) + 1 + 0]
        BY <2>1, <2>2, <4>1
      <4> QED BY <1>3, <4>1, <4>2
    <3> QED BY <1>3, <2>2, <3>1
  <2>6. Unread' = u - 1 /\ u - 1 \in 0..BuffSize /\ u - 1 < BuffSize
    BY <1>2, <1>4, <2>1 DEF u
  <2>7. \A j \in 0..(BuffSize - 1) :
          j < Unread' => kbBuffer'[RingPos(outpt, j)'] = typed'[Len(read') + 1 + j]
    BY <1>1, <1>3, <2>4, <2>6 DEF RingPos
  <2> QED BY <1>1, <2>3, <2>5, <2>6, <2>7 DEF RingHoldsUnread, RingPos
<1> QED BY <1>5, <1>6, <1>7 DEF KeyInv

LEMMA DecrementInv ==
  ASSUME KeyInv, LoadCount \/ StoreCount
  PROVE  KeyInv'
<1>1. /\ UNCHANGED <<held, counted, releasing, isUp, shift, mode, kbBuffer, inpt, outpt, read, typed,
                     strokes, slips>>
      /\ \/ getPc = "load" /\ getReg' = buffcnt /\ getPc' = "store" /\ buffcnt' = buffcnt
         \/ getPc = "store" /\ buffcnt' = getReg - 1 /\ getPc' = "count" /\ getReg' = getReg
  BY DEF LoadCount, StoreCount, decodeVars, bufferVars
<1>2. /\ buffcnt \in 0..BuffSize /\ getReg \in Nat /\ BuffSize \in Nat /\ slips \in Nat
      /\ typed \in Seq(Nat) /\ read \in Seq(Nat)
  BY KeyboardAssumption DEF KeyInv, KeyTypeOK
<1>3. Unread \in Int /\ Unread' = Unread
  BY <1>1, <1>2, LenProperties DEF Unread
<1>4. Counting' /\ buffcnt' \in 0..BuffSize /\ getReg' \in Nat
  <2>1. CASE getPc = "load"
    BY <1>1, <1>2, <1>3, <2>1 DEF KeyInv, Counting, CountHidesSlips
  <2>2. CASE getPc = "store"
    <3>1. getReg \in 1..BuffSize /\ getReg = Unread - slips + 1
      BY <2>2 DEF KeyInv, Counting
    <3>2. getPc' = "count" /\ buffcnt' = getReg - 1 /\ getReg' = getReg
      BY <1>1, <2>2
    <3> QED BY <1>1, <1>2, <1>3, <3>1, <3>2 DEF Counting, CountHidesSlips
  <2> QED BY <1>1, <2>1, <2>2
<1>5. RingHoldsUnread'
  BY <1>1, <1>3 DEF KeyInv, RingHoldsUnread, RingPos
<1>6. KeyTypeOK' /\ UpIsReleasing' /\ FlagsFollowKeys'
  BY <1>1, <1>4 DEF KeyInv, KeyTypeOK, UpIsReleasing, FlagsFollowKeys
<1> QED BY <1>4, <1>5, <1>6 DEF KeyInv

LEMMA KeyStepInv ==
  ASSUME KeyInv, [KeyNext]_keyVars
  PROVE  KeyInv'
<1>1. CASE UNCHANGED keyVars
  BY <1>1 DEF keyVars, decodeVars, bufferVars, KeyInv, KeyTypeOK, UpIsReleasing,
     FlagsFollowKeys, Counting, CountHidesSlips, RingHoldsUnread, RingPos, Unread
<1> QED BY <1>1, KeyDownInv, KeyUpInv, UpCodeInv, GetByteInv, DecrementInv
       DEF KeyNext, GetChar

\* The shift flag is on exactly while a shift key is down that went down, or repeated,
\* after the last one came up, and the halfway modes are those with F1 down, whatever
\* keys go down, repeat and come up in whatever order.
THEOREM KeyFlags == KeySpec => []FlagsFollowKeys
<1>1. KeyInv => FlagsFollowKeys
  BY DEF KeyInv
<1> QED BY <1>1, KeyInitInv, KeyStepInv, PTL DEF KeySpec

\* The characters are read as they were typed, across the wraps of a buffer of any
\* size, as long as no count is lost; and each count the interrupt loses between
\* the load and the store hides exactly one character.
THEOREM KeysInOrder == KeySpec => []ReadAsTyped
<1>1. KeyInv => ReadAsTyped
  <2> SUFFICES ASSUME KeyInv PROVE ReadAsTyped
    OBVIOUS
  <2>1. ASSUME slips = 0
        PROVE  read = SubSeq(typed, 1, Len(read))
    <3>1. /\ typed \in Seq(Nat) /\ read \in Seq(Nat)
          /\ Len(typed) \in Nat /\ Len(read) \in Nat
      BY LenProperties DEF KeyInv, KeyTypeOK
    <3>2. Len(read) <= Len(typed) /\ \A i \in 1..Len(read) : read[i] = typed[i]
      BY <2>1, <3>1 DEF KeyInv, RingHoldsUnread, Unread
    <3>3. /\ SubSeq(typed, 1, Len(read)) \in Seq(Nat)
          /\ Len(SubSeq(typed, 1, Len(read))) = Len(read)
          /\ \A i \in 1..Len(read) : SubSeq(typed, 1, Len(read))[i] = typed[i]
      BY <3>1, <3>2, SubSeqProperties
    <3> QED BY <3>1, <3>2, <3>3, SeqEqual
  <2> QED BY <2>1 DEF ReadAsTyped, KeyInv, Counting
<1> QED BY <1>1, KeyInitInv, KeyStepInv, PTL DEF KeySpec

-----------------------------------------------------------------------------
(* The virtual serial port: from the tty to the UART                        *)

\* The characters a message carries in its first packet, and the last written before.
Carried == Len(message[1].chars)
Base    == message[1].chars[1] - 1

SerialPackets == [head : BOOLEAN, len : Nat, chars : Seq(Nat)]

WriteTypeOK ==
  /\ written \in Nat
  /\ line \in Seq(Nat)
  /\ \A i \in DOMAIN line : line[i] <= written
  /\ Len(line) <= written
  /\ overlong \subseteq 1..written
  /\ message \in Seq(SerialPackets) /\ Len(message) \in 0..2

\* A message that has not begun carries the last characters written, and the line has
\* none of them.  It has them all and announces as many, or it is too long.
MessageIsLast ==
  message # <<>> /\ message[1].head =>
    /\ Base \in Nat /\ Carried >= 1 /\ Base + Carried <= written
    /\ \A i \in 1..Carried : message[1].chars[i] = Base + i
    /\ \A i \in DOMAIN line : line[i] <= Base
    /\ Len(line) <= Base
    /\ \/ Base + Carried = written /\ Announced(message[1]) = Carried
       \/ /\ Base + Carried < written /\ Announced(message[1]) <= written - Base
          /\ (Base + 1)..written \subseteq overlong
    /\ Len(message) = 2 => ~message[2].head

RestIsLast == message # <<>> /\ ~message[1].head => Len(message) = 1

Sent(c) == c \in failed \cup overlong \/ \E i \in DOMAIN line : line[i] = c

\* What is not in the message that waits has been sent or has failed.
AllAccounted ==
  \A c \in 1..written :
    Sent(c) \/ (message # <<>> /\ message[1].head /\ c > Base)

LineInOrder ==
  \A i, j \in DOMAIN line :
    i < j /\ Junk \notin {line[i], line[j]} => line[i] < line[j]

\* What was not written stands in the place of a character that was too many, one of
\* a write before the message that waits.
JunkInPlace ==
  \A i \in DOMAIN line :
    line[i] = Junk =>
      \E c \in overlong :
        InPlaceOf(i, c) /\ (message # <<>> /\ message[1].head => c <= Base)

WriteInv ==
  /\ WriteTypeOK /\ MessageIsLast /\ RestIsLast /\ AllAccounted
  /\ LineInOrder /\ JunkInPlace

-----------------------------------------------------------------------------
(* The virtual serial port: from the UART to the tty                        *)

ReadTypeOK ==
  /\ portTogl \in {0, 1} /\ expectedPid \in {0, 1}
  /\ arrived \in Nat /\ flushed \in Nat /\ dropped \in Nat
  /\ tty \in Seq(Nat)
  /\ portTx # <<>> => Len(portTx) = 1 /\ portTx[1].char = arrived /\ portTx[1].pid = 1 - portTogl

\* The packet in the FIFO, or the next one, has not the PID the host expects.
OutOfStep == IF portTx = <<>> THEN portTogl # expectedPid ELSE portTogl = expectedPid

\* Each packet the host has dropped, and the one it is going to drop, is paid for by
\* one that was flushed.
FlushedPay == dropped + (IF OutOfStep THEN 1 ELSE 0) <= flushed

TtyInOrder ==
  /\ \A i, j \in DOMAIN tty : i < j => tty[i] < tty[j]
  /\ \A i \in DOMAIN tty : tty[i] <= arrived /\ (portTx # <<>> => tty[i] < arrived)

ReadInv == ReadTypeOK /\ FlushedPay /\ TtyInOrder

\* Joined sequences of one element.
LEMMA Pairs ==
  ASSUME NEW a, NEW b
  PROVE  /\ Len(<<a>> \o <<b>>) = 2 /\ (<<a>> \o <<b>>)[1] = a /\ (<<a>> \o <<b>>)[2] = b
         /\ Len(<<a>> \o <<>>) = 1 /\ (<<a>> \o <<>>)[1] = a
<1>1. <<a>> \in Seq({a, b}) /\ <<b>> \in Seq({a, b}) /\ <<>> \in Seq({a, b})
  OBVIOUS
<1>2. Len(<<a>>) = 1 /\ Len(<<b>>) = 1 /\ <<a>>[1] = a /\ <<b>>[1] = b
  OBVIOUS
<1>3. Len(<<a>> \o <<b>>) = 2 /\ (<<a>> \o <<b>>)[1] = a /\ (<<a>> \o <<b>>)[2] = b
  BY <1>1, <1>2, ConcatProperties
<1>4. Len(<<a>> \o <<>>) = 1 /\ (<<a>> \o <<>>)[1] = a
  BY <1>1, <1>2, ConcatProperties
<1> QED BY <1>3, <1>4

\* The length byte: the characters of a write that fits are announced, and never more
\* than were written.
LEMMA LengthAnnounced ==
  ASSUME NEW n \in Nat \ {0}, NEW packet, packet.len = LengthByte(n)
  PROVE  /\ LengthByte(n) \in Nat
         /\ Announced(packet) \in Nat /\ Announced(packet) <= n
         /\ n <= FifoSize - Header => Announced(packet) = n
<1>1. /\ LenValues \in Nat \ {0} /\ FifoSize \in Nat /\ LenValues > FifoSize
      /\ n + Header \in Nat
  BY PortAssumption DEF Header
<1>2. /\ (n + Header) % LenValues \in Nat /\ (n + Header) % LenValues <= n + Header
      /\ n + Header < LenValues => (n + Header) % LenValues = n + Header
  BY <1>1
<1> DEFINE len == (n + Header) % LenValues
<1>3. packet.len = len /\ LengthByte(n) = len
  BY DEF LengthByte
<1> HIDE DEF len
<1>4. /\ len \in Nat /\ len <= n + 4 /\ FifoSize \in Nat /\ LenValues \in Nat
      /\ LenValues > FifoSize /\ (n + 4 < LenValues => len = n + 4)
  BY <1>1, <1>2 DEF len, Header
<1> QED BY <1>3, <1>4 DEF Announced, Header

\* vport_serial_write makes one packet of a message, or two.
LEMMA WriteTtyMessage ==
  ASSUME WriteInv, NEW n \in Counts, WriteTty(n)
  PROVE  /\ n \in Nat \ {0} /\ message = <<>> /\ written' = written + n
         /\ UNCHANGED <<line, failed>>
         /\ overlong \subseteq overlong' /\ overlong' \subseteq 1..written'
         /\ message' \in Seq(SerialPackets) /\ Len(message') \in {1, 2}
         /\ message'[1].head /\ Len(message'[1].chars) \in 1..n
         /\ Announced(message'[1]) <= n
         /\ Len(message'[1].chars) = n => Announced(message'[1]) = n
         /\ Len(message'[1].chars) < n => (written + 1)..(written + n) \subseteq overlong'
         /\ \A i \in 1..Len(message'[1].chars) : message'[1].chars[i] = written + i
         /\ Len(message') = 2 => ~message'[2].head
<1> DEFINE chars == [i \in 1..n |-> written + i]
           first == IF n > FifoSize - Header THEN FifoSize - Header ELSE n
           head  == [head |-> TRUE, len |-> LengthByte(n), chars |-> SubSeq(chars, 1, first)]
           rest  == [head |-> FALSE, len |-> 0, chars |-> SubSeq(chars, first + 1, n)]
<1>1. /\ n \in Nat \ {0} /\ written \in Nat /\ FifoSize - Header \in Nat \ {0}
      /\ first \in 1..n /\ (first < n => n > FifoSize - Header)
      /\ (first = n => n <= FifoSize - Header) /\ overlong \subseteq 1..written
  BY PortAssumption DEF WriteInv, WriteTypeOK, Header
<1>2. chars \in Seq(Nat) /\ Len(chars) = n
  BY <1>1, LenProperties
<1>3. /\ SubSeq(chars, 1, first) \in Seq(Nat) /\ Len(SubSeq(chars, 1, first)) = first
      /\ \A i \in 1..first : SubSeq(chars, 1, first)[i] = written + i
  <2>1. \A i \in 1..n : chars[i] = written + i
    OBVIOUS
  <2> HIDE DEF chars, first
  <2> QED BY <1>1, <1>2, <2>1, SubSeqProperties
<1>4. first < n => SubSeq(chars, first + 1, n) \in Seq(Nat)
  <2> HIDE DEF chars, first
  <2> QED BY <1>1, <1>2, SubSeqProperties
<1>5. message' = <<head>> \o (IF first < n THEN <<rest>> ELSE <<>>)
  BY DEF WriteTty
<1>6. /\ message'[1] = head /\ Len(message') = (IF first < n THEN 2 ELSE 1)
      /\ Len(message') = 2 => message'[2] = rest
  <2> HIDE DEF head, rest, first
  <2> QED BY <1>5, Pairs
<1>7. /\ message = <<>> /\ written' = written + n /\ UNCHANGED <<line, failed>>
      /\ overlong' = IF n > FifoSize - Header
                     THEN overlong \cup (written + 1)..(written + n) ELSE overlong
  BY DEF WriteTty
<1>8. /\ overlong \subseteq overlong' /\ overlong' \subseteq 1..written'
      /\ first < n => (written + 1)..(written + n) \subseteq overlong'
  <2>1. 1..written \subseteq 1..(written + n)
    BY <1>1
  <2>2. (written + 1)..(written + n) \subseteq 1..(written + n)
    BY <1>1
  <2> HIDE DEF first
  <2> QED BY <1>1, <1>7, <2>1, <2>2
<1> HIDE DEF chars, first
<1>9. /\ message'[1].head /\ message'[1].len = LengthByte(n)
      /\ message'[1].chars = SubSeq(chars, 1, first)
      /\ Len(message') = 2 => ~message'[2].head
  <2>1. head.head /\ head.len = LengthByte(n) /\ head.chars = SubSeq(chars, 1, first)
    OBVIOUS
  <2>2. ~rest.head
    OBVIOUS
  <2> HIDE DEF head, rest
  <2> QED BY <1>6, <2>1, <2>2
<1>10. /\ Len(message'[1].chars) = first
       /\ \A i \in 1..Len(message'[1].chars) : message'[1].chars[i] = written + i
  BY <1>3, <1>9
<1>11. /\ LengthByte(n) \in Nat /\ Announced(message'[1]) <= n
       /\ n <= FifoSize - Header => Announced(message'[1]) = n
  BY <1>1, <1>9, LengthAnnounced
<1>12. message' \in Seq(SerialPackets) /\ Len(message') \in {1, 2}
  <2>1. head \in SerialPackets
    BY <1>3, <1>11 DEF SerialPackets
  <2>2. first < n => rest \in SerialPackets
    BY <1>4 DEF SerialPackets
  <2> HIDE DEF head, rest
  <2>3. <<head>> \in Seq(SerialPackets)
    BY <2>1
  <2>4. (IF first < n THEN <<rest>> ELSE <<>>) \in Seq(SerialPackets)
    BY <2>2
  <2> QED BY <1>5, <1>6, <2>3, <2>4, ConcatProperties
<1> QED BY <1>1, <1>7, <1>8, <1>9, <1>10, <1>11, <1>12

LEMMA WriteTtyInv ==
  ASSUME WriteInv, NEW n \in Counts, WriteTty(n)
  PROVE  WriteInv'
<1>1. /\ n \in Nat \ {0} /\ message = <<>> /\ written' = written + n
      /\ UNCHANGED <<line, failed>>
      /\ overlong \subseteq overlong' /\ overlong' \subseteq 1..written'
      /\ message' \in Seq(SerialPackets) /\ Len(message') \in {1, 2}
      /\ message'[1].head /\ Carried' \in 1..n
      /\ Announced(message'[1]) <= n
      /\ Carried' = n => Announced(message'[1]) = n
      /\ Carried' < n => (written + 1)..(written + n) \subseteq overlong'
      /\ \A i \in 1..Carried' : message'[1].chars[i] = written + i
      /\ Len(message') = 2 => ~message'[2].head
  BY WriteTtyMessage DEF Carried
<1>2. /\ written \in Nat /\ line \in Seq(Nat) /\ Len(line) \in Nat /\ Len(line) <= written
      /\ overlong \subseteq 1..written
      /\ \A i \in DOMAIN line : line[i] \in Nat /\ line[i] <= written
  BY LenProperties, ElementOfSeq DEF WriteInv, WriteTypeOK
<1>3. Base' = written
  <2>1. message'[1].chars[1] = written + 1
    BY <1>1
  <2> QED BY <1>2, <2>1 DEF Base
<1>4. message' # <<>> /\ message'[1].head
  <2>1. Len(message') # 0
    BY <1>1
  <2> QED BY <1>1, <2>1
<1>5. WriteTypeOK'
  <2>1. \A i \in DOMAIN line : line[i] <= written'
    BY <1>1, <1>2
  <2>2. Len(message') \in 0..2 /\ Len(line) <= written' /\ written' \in Nat
    BY <1>1, <1>2
  <2> QED BY <1>1, <1>2, <2>1, <2>2 DEF WriteTypeOK
<1>6. MessageIsLast'
  <2>1. Base' + Carried' <= written' /\ Carried' >= 1
    BY <1>1, <1>2, <1>3
  <2>2. \/ Base' + Carried' = written' /\ Announced(message'[1]) = Carried'
        \/ /\ Base' + Carried' < written' /\ Announced(message'[1]) <= written' - Base'
           /\ (Base' + 1)..written' \subseteq overlong'
    <3>1. CASE Carried' = n
      BY <1>1, <1>2, <1>3, <3>1
    <3>2. CASE Carried' # n
      <4>1. Carried' < n /\ written' - Base' = n
        BY <1>1, <1>2, <1>3, <3>2
      <4>2. (Base' + 1)..written' \subseteq overlong'
        BY <1>1, <1>3, <4>1
      <4>3. Base' + Carried' < written'
        <5> DEFINE carried == Carried'
        <5>1. carried \in Nat /\ carried < n /\ n \in Nat /\ written \in Nat
          BY <1>1, <1>2, <4>1
        <5> HIDE DEF carried
        <5>2. written + carried < written + n
          BY <5>1
        <5> QED BY <1>1, <1>3, <5>2 DEF carried
      <4> QED BY <1>1, <4>1, <4>2, <4>3
    <3> QED BY <3>1, <3>2
  <2> QED BY <1>1, <1>2, <1>3, <2>1, <2>2 DEF MessageIsLast, Announced
<1>7. RestIsLast' /\ LineInOrder'
  BY <1>1, <1>4 DEF WriteInv, RestIsLast, LineInOrder
<1>8. AllAccounted'
  <2> SUFFICES ASSUME NEW c \in 1..written', c <= written
               PROVE  Sent(c)'
    BY <1>1, <1>2, <1>3, <1>4 DEF AllAccounted
  <2>1. Sent(c)
    BY <1>1, <1>2 DEF WriteInv, AllAccounted
  <2> QED BY <1>1, <2>1 DEF Sent
<1>9. JunkInPlace'
  <2> SUFFICES ASSUME NEW i \in DOMAIN line, line[i] = Junk
               PROVE  \E c \in overlong' : InPlaceOf(i, c)' /\ c <= Base'
    BY <1>1 DEF JunkInPlace
  <2>1. PICK c \in overlong : InPlaceOf(i, c)
    BY DEF WriteInv, JunkInPlace
  <2>2. c \in overlong' /\ c <= Base'
    BY <1>1, <1>2, <1>3, <2>1
  <2>3. InPlaceOf(i, c)'
    BY <1>1, <2>1 DEF InPlaceOf
  <2> QED BY <2>2, <2>3
<1> QED BY <1>5, <1>6, <1>7, <1>8, <1>9 DEF WriteInv

\* The packet of a message that waits.
LEMMA MessageHead ==
  ASSUME WriteInv, message # <<>>
  PROVE  /\ Len(message) \in {1, 2} /\ 1 \in DOMAIN message /\ message[1] = Head(message)
         /\ message[1].chars \in Seq(Nat) /\ message[1].len \in Nat
         /\ Carried \in Nat /\ DOMAIN message[1].chars = 1..Carried
         /\ Announced(message[1]) \in Nat
<1>1. message \in Seq(SerialPackets) /\ Len(message) \in 0..2
  BY DEF WriteInv, WriteTypeOK
<1>2. Len(message) # 0 /\ Len(message) \in Nat /\ DOMAIN message = 1..Len(message)
  BY <1>1, EmptySeq, LenProperties
<1>3. Len(message) \in {1, 2} /\ 1 \in DOMAIN message
  BY <1>1, <1>2
<1>4. message[1] \in SerialPackets
  BY <1>1, <1>3, ElementOfSeq, LenProperties
<1>5. message[1] = Head(message)
  BY <1>1
<1>6. message[1].chars \in Seq(Nat) /\ message[1].len \in Nat
  BY <1>4 DEF SerialPackets
<1>7. Announced(message[1]) \in Nat
  BY <1>6 DEF Announced, Header
<1> QED BY <1>3, <1>5, <1>6, <1>7, LenProperties DEF Carried

\* The UART sends what the message announces, be it there or not.
LEMMA ParseLine ==
  ASSUME WriteInv, ParseCommand, message[1].head
  PROVE  LET n == Announced(message[1])
         IN /\ line' \in Seq(Nat) /\ Len(line') = Len(line) + n
            /\ \A i \in 1..Len(line) : line'[i] = line[i]
            /\ \A i \in 1..n :
                 line'[Len(line) + i] = IF i <= Carried THEN Base + i ELSE Junk
<1> DEFINE n == Announced(message[1])
           f == [i \in 1..n |-> IF i \in DOMAIN message[1].chars
                                THEN message[1].chars[i] ELSE Junk]
<1>1. /\ message # <<>> /\ n \in Nat /\ Carried \in Nat
      /\ DOMAIN message[1].chars = 1..Carried /\ message[1] = Head(message)
      /\ line \in Seq(Nat) /\ Len(line) \in Nat
      /\ Base \in Nat /\ \A i \in 1..Carried : message[1].chars[i] = Base + i
  BY MessageHead, LenProperties DEF ParseCommand, WriteInv, WriteTypeOK, MessageIsLast
<1>2. line' = line \o f
  BY <1>1 DEF ParseCommand
<1>3. \A i \in 1..n : f[i] = IF i <= Carried THEN Base + i ELSE Junk
  BY <1>1
<1>4. f \in Seq(Nat) /\ Len(f) = n
  <2>1. ASSUME NEW i \in 1..n
        PROVE  f[i] \in Nat
    <3>1. f[i] = Base + i \/ f[i] = 0
      BY <1>3 DEF Junk
    <3> QED BY <1>1, <3>1
  <2>2. n \in Nat
    BY <1>1
  <2>3. f \in [1..n -> Nat]
    BY <2>1
  <2>4. f \in Seq(Nat) /\ DOMAIN f = 1..n
    BY <2>2, <2>3
  <2> HIDE DEF f, n
  <2> QED BY <2>2, <2>4, LenProperties
<1> HIDE DEF f, n
<1>5. /\ line' \in Seq(Nat) /\ Len(line') = Len(line) + n
      /\ \A i \in 1..(Len(line) + n) :
           line'[i] = IF i <= Len(line) THEN line[i] ELSE f[i - Len(line)]
  <2>1. line \in Seq(Nat)
    BY <1>1
  <2> QED BY <2>1, <1>2, <1>4, ConcatProperties
<1>6. ASSUME NEW i \in 1..n
      PROVE  line'[Len(line) + i] = IF i <= Carried THEN Base + i ELSE Junk
  <2>1. /\ Len(line) + i \in 1..(Len(line) + n) /\ ~(Len(line) + i <= Len(line))
        /\ (Len(line) + i) - Len(line) = i
    BY <1>1
  <2> QED BY <1>3, <1>5, <2>1
<1>7. ASSUME NEW i \in 1..Len(line)
      PROVE  line'[i] = line[i]
  <2>1. i \in 1..(Len(line) + n) /\ i <= Len(line)
    BY <1>1
  <2> QED BY <1>5, <2>1
<1> QED BY <1>5, <1>6, <1>7 DEF n

LEMMA ParseInv ==
  ASSUME WriteInv, ParseCommand
  PROVE  WriteInv'
<1>1. /\ message # <<>> /\ message \in Seq(SerialPackets)
      /\ written \in Nat /\ line \in Seq(Nat) /\ Len(line) \in Nat
      /\ DOMAIN line = 1..Len(line) /\ Len(line) <= written
      /\ \A i \in DOMAIN line : line[i] \in Nat /\ line[i] <= written
      /\ overlong \subseteq 1..written
      /\ UNCHANGED <<written, failed, overlong>> /\ message' = Tail(message)
  BY LenProperties, ElementOfSeq DEF ParseCommand, WriteInv, WriteTypeOK
<1>0. /\ Len(message) \in {1, 2} /\ message[1] = Head(message)
      /\ Carried \in Nat /\ Announced(message[1]) \in Nat
  BY <1>1, MessageHead
<1>2. /\ message' \in Seq(SerialPackets)
      /\ Len(message) = 1 => message' = <<>>
      /\ Len(message) = 2 => Len(message') = 1 /\ message'[1] = message[2]
  <2>1. /\ message' \in Seq(SerialPackets) /\ Len(message') = Len(message) - 1
        /\ \A i \in 1..(Len(message) - 1) : message'[i] = message[i + 1]
    BY <1>0, <1>1, HeadTailProperties
  <2>2. Len(message') = 0 => message' = <<>>
    BY <2>1, EmptySeq
  <2> QED BY <1>0, <1>1, <2>1, <2>2
<1>3. CASE ~message[1].head
  <2>1. line' = line /\ message' = <<>> /\ Len(message') = 0
    <3>1. line' = line
      BY <1>0, <1>3 DEF ParseCommand
    <3>2. Len(message) = 1
      BY <1>1, <1>3 DEF WriteInv, RestIsLast
    <3> QED BY <1>2, <3>1, <3>2
  <2>2. \A c \in 1..written : Sent(c)
    BY <1>3 DEF WriteInv, AllAccounted
  <2>3. WriteTypeOK' /\ MessageIsLast' /\ RestIsLast'
    BY <1>1, <1>2, <2>1 DEF WriteTypeOK, MessageIsLast, RestIsLast
  <2>4. AllAccounted'
    BY <1>1, <2>1, <2>2 DEF AllAccounted, Sent
  <2>5. LineInOrder' /\ JunkInPlace'
    BY <1>1, <2>1 DEF WriteInv, LineInOrder, JunkInPlace, InPlaceOf
  <2> QED BY <2>3, <2>4, <2>5 DEF WriteInv
<1>4. CASE message[1].head
  <2> DEFINE n == Announced(message[1])
  <2>1. /\ Base \in Nat /\ Carried >= 1 /\ Base + Carried <= written
        /\ \A i \in DOMAIN line : line[i] <= Base
        /\ Len(line) <= Base
        /\ n \in Nat /\ Base + n <= written
        /\ n > Carried \/ Base + Carried < written => (Base + 1)..written \subseteq overlong
        /\ n < Carried => Base + Carried < written
        /\ Len(message) = 2 => ~message[2].head
    BY <1>0, <1>1, <1>4 DEF WriteInv, MessageIsLast
  <2>2. /\ line' \in Seq(Nat) /\ Len(line') = Len(line) + n
        /\ \A i \in 1..Len(line) : line'[i] = line[i]
        /\ \A i \in 1..n : line'[Len(line) + i] = IF i <= Carried THEN Base + i ELSE Junk
    BY <1>4, ParseLine
  <2> HIDE DEF n
  <2>3. DOMAIN line' = 1..(Len(line) + n)
    BY <2>2, LenProperties
  <2>4. ASSUME NEW i \in DOMAIN line'
        PROVE  \/ i \in DOMAIN line /\ line'[i] = line[i] /\ line[i] <= Base
               \/ /\ i \notin DOMAIN line /\ i - Len(line) \in 1..n
                  /\ line'[i] = IF i - Len(line) <= Carried
                                THEN Base + (i - Len(line)) ELSE Junk
    <3>1. CASE i <= Len(line)
      BY <1>1, <2>1, <2>2, <2>3, <3>1
    <3>2. CASE ~(i <= Len(line))
      <4>1. i - Len(line) \in 1..n /\ Len(line) + (i - Len(line)) = i /\ i \notin DOMAIN line
        BY <1>1, <2>1, <2>3, <3>2
      <4> QED BY <2>2, <4>1
    <3> QED BY <3>1, <3>2
  <2>5. message' = <<>> \/ (Len(message') = 1 /\ ~message'[1].head)
    BY <1>0, <1>2, <2>1
  <2>6. WriteTypeOK'
    <3>1. \A i \in DOMAIN line' : line'[i] <= written
      BY <1>0, <1>1, <2>1, <2>4 DEF Junk
    <3>2. Len(message') \in 0..2
      <4>1. message' = <<>> => Len(message') = 0
        OBVIOUS
      <4> QED BY <2>5, <4>1
    <3>3. Len(line') <= written
      BY <1>1, <2>1, <2>2
    <3> QED BY <1>1, <1>2, <2>2, <3>1, <3>2, <3>3 DEF WriteTypeOK
  <2>7. MessageIsLast' /\ RestIsLast'
    BY <2>5 DEF MessageIsLast, RestIsLast
  <2>8. AllAccounted'
    <3> SUFFICES ASSUME NEW c \in 1..written PROVE Sent(c)'
      BY <1>1 DEF AllAccounted
    <3>1. CASE Sent(c)
      <4>1. ASSUME NEW i \in DOMAIN line, line[i] = c
            PROVE  i \in DOMAIN line' /\ line'[i] = c
        BY <1>1, <2>1, <2>2, <2>3, <4>1
      <4> QED BY <1>1, <3>1, <4>1 DEF Sent
    <3>2. CASE ~Sent(c)
      <4>1. c > Base
        BY <3>2, <1>1 DEF WriteInv, AllAccounted
      <4>2. c \notin overlong /\ c \in (Base + 1)..written
        BY <1>1, <2>1, <3>2, <4>1 DEF Sent
      <4>3. Base + Carried = written /\ n = Carried
        BY <1>0, <1>1, <2>1, <4>2
      <4> DEFINE k == c - Base
      <4>4. k \in 1..n /\ k <= Carried /\ Base + k = c
        BY <1>0, <1>1, <2>1, <4>2, <4>3
      <4>5. Len(line) + k \in DOMAIN line'
        BY <1>1, <2>1, <2>3, <4>4
      <4>6. line'[Len(line) + k] = c
        BY <2>2, <4>4
      <4> QED BY <4>5, <4>6 DEF Sent
    <3> QED BY <3>1, <3>2
  <2>9. LineInOrder'
    <3>1. ASSUME NEW i \in DOMAIN line', NEW j \in DOMAIN line', i < j,
                 Junk \notin {line'[i], line'[j]}
          PROVE  line'[i] < line'[j]
      <4>1. CASE j \in DOMAIN line
        <5>1. i \in DOMAIN line
          BY <1>1, <2>3, <3>1, <4>1
        <5> QED BY <1>1, <2>2, <3>1, <4>1, <5>1 DEF WriteInv, LineInOrder
      <4>2. CASE j \notin DOMAIN line
        <5>1. j - Len(line) \in 1..n /\ line'[j] = Base + (j - Len(line))
          BY <2>4, <3>1, <4>2
        <5>2. CASE i \in DOMAIN line
          <6>1. line'[i] = line[i] /\ line[i] \in Nat /\ line[i] <= Base
            BY <1>1, <2>1, <2>4, <5>2
          <6> QED BY <2>1, <5>1, <6>1
        <5>3. CASE i \notin DOMAIN line
          <6>1. line'[i] = Base + (i - Len(line)) /\ i - Len(line) \in 1..n
            BY <2>4, <3>1, <5>3
          <6>2. i - Len(line) < j - Len(line)
            BY <1>1, <2>3, <3>1
          <6> QED BY <2>1, <5>1, <6>1, <6>2
        <5> QED BY <5>2, <5>3
      <4> QED BY <4>1, <4>2
    <3> QED BY <3>1 DEF LineInOrder
  <2>10. JunkInPlace'
    <3> SUFFICES ASSUME NEW i \in DOMAIN line', line'[i] = Junk
                 PROVE  \E c \in overlong : InPlaceOf(i, c)'
      BY <1>1, <2>5 DEF JunkInPlace
    <3>1. CASE i \in DOMAIN line
      <4>1. line[i] = Junk
        BY <2>4, <3>1
      <4>2. PICK c \in overlong : InPlaceOf(i, c) /\ c <= Base
        BY <1>1, <1>4, <3>1, <4>1 DEF WriteInv, JunkInPlace
      <4>3. c \in Nat
        BY <1>1
      <4>4. ASSUME NEW j \in DOMAIN line', j < i
            PROVE  line'[j] < c
        <5>1. j \in DOMAIN line
          BY <1>1, <2>3, <3>1, <4>4
        <5> QED BY <2>4, <4>2, <4>4, <5>1 DEF InPlaceOf
      <4>5. ASSUME NEW j \in DOMAIN line', j > i
            PROVE  line'[j] = Junk \/ line'[j] > c
        <5>1. CASE j \in DOMAIN line
          BY <2>4, <4>2, <4>5, <5>1 DEF InPlaceOf
        <5>2. CASE j \notin DOMAIN line
          <6>1. \/ line'[j] = Junk
                \/ line'[j] = Base + (j - Len(line)) /\ j - Len(line) \in 1..n
            BY <2>4, <5>2
          <6> QED BY <2>1, <4>2, <4>3, <6>1
        <5> QED BY <5>1, <5>2
      <4>6. InPlaceOf(i, c)'
        BY <4>4, <4>5 DEF InPlaceOf
      <4> QED BY <4>6
    <3>2. CASE i \notin DOMAIN line
      <4>1. i - Len(line) \in 1..n /\ ~(i - Len(line) <= Carried)
        BY <2>1, <2>4, <3>2 DEF Junk
      <4>2. n > Carried /\ Base + Carried < written
        BY <1>0, <1>1, <2>1, <4>1
      <4>3. written \in overlong
        BY <1>0, <1>1, <2>1, <4>2
      <4>4. ASSUME NEW j \in DOMAIN line', j < i
            PROVE  line'[j] < written
        <5>1. \/ line'[j] \in Nat /\ line'[j] <= Base
              \/ line'[j] = Base + (j - Len(line)) /\ j - Len(line) <= Carried /\ j \in Nat
              \/ line'[j] = 0
          BY <1>1, <2>3, <2>4, <4>4 DEF Junk
        <5> QED BY <1>0, <1>1, <2>1, <4>2, <5>1
      <4>5. ASSUME NEW j \in DOMAIN line', j > i
            PROVE  line'[j] = Junk
        <5>1. j \notin DOMAIN line /\ ~(j - Len(line) <= Carried)
          BY <1>0, <1>1, <2>3, <3>2, <4>1, <4>5
        <5> QED BY <2>4, <5>1
      <4>6. InPlaceOf(i, written)'
        BY <1>1, <4>4, <4>5 DEF InPlaceOf
      <4> QED BY <1>1, <4>3, <4>6
    <3> QED BY <3>1, <3>2
  <2> QED BY <2>6, <2>7, <2>8, <2>9, <2>10 DEF WriteInv
<1> QED BY <1>3, <1>4

\* What timed out counts as failed, all that is left of it.
LEMMA TimeoutInv ==
  ASSUME WriteInv, WriteTimeout
  PROVE  WriteInv'
<1>1. /\ message # <<>> /\ message' = <<>> /\ UNCHANGED <<written, line, overlong>>
      /\ failed' = failed \cup UNION {ToSet(message[k].chars) : k \in DOMAIN message}
  BY DEF WriteTimeout
<1>2. ToSet(message[1].chars) \subseteq failed' /\ failed \subseteq failed'
  <2>1. 1 \in DOMAIN message
    BY <1>1, MessageHead
  <2> QED BY <1>1, <2>1
<1>3. ASSUME NEW c \in 1..written
      PROVE  Sent(c)'
  <2>1. CASE Sent(c)
    BY <1>1, <1>2, <2>1 DEF Sent
  <2>2. CASE ~Sent(c)
    <3> DEFINE k == c - Base
    <3>1. /\ message[1].head /\ c > Base /\ c \notin overlong /\ written \in Nat
      BY <1>1, <2>2 DEF WriteInv, WriteTypeOK, AllAccounted, Sent
    <3>2. /\ Base \in Nat /\ \A i \in 1..Carried : message[1].chars[i] = Base + i
          /\ \/ Base + Carried = written
             \/ (Base + 1)..written \subseteq overlong
      BY <1>1, <3>1 DEF WriteInv, MessageIsLast
    <3>3. Carried \in Nat /\ DOMAIN message[1].chars = 1..Carried
      BY <1>1, MessageHead
    <3>4. Base + Carried = written
      BY <3>1, <3>2
    <3>5. k \in 1..Carried /\ Base + k = c
      BY <3>1, <3>2, <3>3, <3>4
    <3>6. c \in ToSet(message[1].chars)
      BY <3>2, <3>3, <3>5 DEF ToSet
    <3> QED BY <1>2, <3>6 DEF Sent
  <2> QED BY <2>1, <2>2
<1>4. Len(message') = 0
  BY <1>1
<1> QED BY <1>1, <1>3, <1>4
       DEF WriteInv, WriteTypeOK, MessageIsLast, RestIsLast, AllAccounted, LineInOrder,
           JunkInPlace, InPlaceOf

LEMMA WriteUnchanged ==
  ASSUME WriteInv, UNCHANGED writeVars
  PROVE  WriteInv'
BY DEF writeVars, WriteInv, WriteTypeOK, MessageIsLast, RestIsLast, AllAccounted,
       LineInOrder, JunkInPlace, InPlaceOf, Sent, Base, Carried

\* A character that comes takes the place of one the host did not fetch, and puts
\* the PIDs out of step with it, or in step again.
LEMMA UartReceiveInv ==
  ASSUME ReadInv, UartReceive
  PROVE  ReadInv'
<1>1. /\ arrived' = arrived + 1 /\ portTx' = <<[char |-> arrived + 1, pid |-> portTogl]>>
      /\ portTogl' = 1 - portTogl /\ flushed' = flushed + Len(portTx)
      /\ UNCHANGED <<expectedPid, tty, dropped>>
  BY DEF UartReceive
<1>2. /\ portTogl \in {0, 1} /\ expectedPid \in {0, 1} /\ tty \in Seq(Nat)
      /\ arrived \in Nat /\ flushed \in Nat /\ dropped \in Nat
      /\ \A i \in DOMAIN tty : tty[i] \in Nat /\ tty[i] <= arrived
  BY ElementOfSeq, LenProperties DEF ReadInv, ReadTypeOK, TtyInOrder
<1>3. /\ portTx' # <<>> /\ Len(portTx') = 1
      /\ portTx'[1].char = arrived' /\ portTx'[1].pid = 1 - portTogl'
  BY <1>1, <1>2
<1>4. (portTx = <<>> => Len(portTx) = 0) /\ (portTx # <<>> => Len(portTx) = 1)
  BY DEF ReadInv, ReadTypeOK
<1>5. ReadTypeOK'
  BY <1>1, <1>2, <1>3, <1>4 DEF ReadTypeOK
<1>6. FlushedPay'
  BY <1>1, <1>2, <1>3, <1>4 DEF ReadInv, FlushedPay, OutOfStep
<1>7. TtyInOrder'
  BY <1>1, <1>2 DEF ReadInv, TtyInOrder
<1> QED BY <1>5, <1>6, <1>7 DEF ReadInv

LEMMA ReadCallbackInv ==
  ASSUME ReadInv, ReadCallback
  PROVE  ReadInv'
<1>1. /\ portTx # <<>> /\ portTx' = <<>> /\ UNCHANGED <<portTogl, arrived, flushed>>
  BY DEF ReadCallback
<1>2. /\ portTogl \in {0, 1} /\ expectedPid \in {0, 1} /\ tty \in Seq(Nat)
      /\ arrived \in Nat /\ flushed \in Nat /\ dropped \in Nat
      /\ portTx[1].char = arrived /\ portTx[1].pid = 1 - portTogl
      /\ Len(tty) \in Nat /\ DOMAIN tty = 1..Len(tty)
      /\ \A i \in DOMAIN tty : tty[i] \in Nat /\ tty[i] < arrived
  BY <1>1, ElementOfSeq, LenProperties DEF ReadInv, ReadTypeOK, TtyInOrder
<1>3. CASE portTx[1].pid = expectedPid
  <2>1. tty' = Append(tty, arrived) /\ expectedPid' = 1 - expectedPid /\ dropped' = dropped
    BY <1>2, <1>3 DEF ReadCallback
  <2>2. /\ tty' \in Seq(Nat) /\ DOMAIN tty' = 1..(Len(tty) + 1)
        /\ \A i \in 1..Len(tty) : tty'[i] = tty[i]
        /\ tty'[Len(tty) + 1] = arrived
    BY <1>2, <2>1, AppendProperties, LenProperties
  <2>3. ReadTypeOK' /\ FlushedPay'
    BY <1>1, <1>2, <1>3, <2>1, <2>2 DEF ReadInv, ReadTypeOK, FlushedPay, OutOfStep
  <2>4. ASSUME NEW i \in DOMAIN tty', NEW j \in DOMAIN tty', i < j
        PROVE  tty'[i] < tty'[j]
    <3>1. CASE j \in 1..Len(tty)
      BY SMTT(30), <1>2, <2>2, <2>4, <3>1 DEF ReadInv, TtyInOrder
    <3>2. CASE j = Len(tty) + 1
      <4>1. i \in 1..Len(tty)
        BY <1>2, <2>2, <2>4, <3>2
      <4>2. tty'[i] = tty[i] /\ tty[i] < arrived
        BY <1>2, <2>2, <4>1
      <4> QED BY <2>2, <3>2, <4>2
    <3> QED BY <1>2, <2>2, <3>1, <3>2
  <2>5. ASSUME NEW i \in DOMAIN tty'
        PROVE  tty'[i] \in Nat /\ tty'[i] <= arrived'
    BY SMTT(30), <1>1, <1>2, <2>2
  <2>6. TtyInOrder'
    BY <1>1, <2>4, <2>5 DEF TtyInOrder
  <2> QED BY <2>3, <2>6 DEF ReadInv
<1>4. CASE portTx[1].pid # expectedPid
  <2>1. UNCHANGED <<tty, expectedPid>> /\ dropped' = dropped + 1
    BY <1>4 DEF ReadCallback
  <2>2. ReadTypeOK' /\ FlushedPay'
    BY <1>1, <1>2, <1>4, <2>1 DEF ReadInv, ReadTypeOK, FlushedPay, OutOfStep
  <2>3. TtyInOrder'
    BY <1>1, <1>2, <2>1 DEF ReadInv, TtyInOrder
  <2> QED BY <2>2, <2>3 DEF ReadInv
<1> QED BY <1>3, <1>4

LEMMA RebindInv ==
  ASSUME ReadInv, Rebind
  PROVE  ReadInv'
<1>1. /\ portTx' = <<>> /\ expectedPid' = 0 /\ UNCHANGED <<portTogl, arrived, tty, dropped>>
      /\ flushed' = flushed + (IF expectedPid = 0 THEN 0 ELSE 1) + Len(portTx)
  BY DEF Rebind
<1>2. (portTx = <<>> => Len(portTx) = 0) /\ (portTx # <<>> => Len(portTx) = 1)
  BY DEF ReadInv, ReadTypeOK
<1>3. ReadTypeOK' /\ FlushedPay'
  BY <1>1, <1>2 DEF ReadInv, ReadTypeOK, FlushedPay, OutOfStep
<1>4. TtyInOrder'
  BY <1>1 DEF ReadInv, TtyInOrder
<1> QED BY <1>3, <1>4 DEF ReadInv

LEMMA PortStepInv ==
  ASSUME WriteInv, ReadInv, [PortNext]_portVars
  PROVE  WriteInv' /\ ReadInv'
<1>1. ASSUME UNCHANGED readVars
      PROVE  ReadInv'
  BY <1>1 DEF readVars, ReadInv, ReadTypeOK, FlushedPay, OutOfStep, TtyInOrder
<1>2. CASE UNCHANGED portVars
  BY <1>1, <1>2, WriteUnchanged DEF portVars, readVars, writeVars
<1>3. ASSUME NEW n \in Counts, WriteTty(n)
      PROVE  WriteInv' /\ ReadInv'
  BY <1>1, <1>3, WriteTtyInv DEF WriteTty
<1>4. CASE ParseCommand \/ WriteTimeout
  BY <1>1, <1>4, ParseInv, TimeoutInv DEF ParseCommand, WriteTimeout
<1>5. CASE OpenOrClose
  <2>1. ReadInv'
    BY <1>5 DEF OpenOrClose, ReadInv, ReadTypeOK, FlushedPay, OutOfStep, TtyInOrder
  <2> QED BY <1>5, <2>1, WriteUnchanged DEF OpenOrClose
<1>6. CASE UartReceive
  BY <1>6, UartReceiveInv, WriteUnchanged DEF UartReceive
<1>7. CASE ReadCallback
  BY <1>7, ReadCallbackInv, WriteUnchanged DEF ReadCallback
<1>8. CASE Rebind
  BY <1>8, RebindInv, WriteUnchanged DEF Rebind
<1> QED BY <1>2, <1>3, <1>4, <1>5, <1>6, <1>7, <1>8 DEF PortNext

\* The UART sends what was written, in order and once.  A character is missing only
\* if its write timed out or was longer than a packet has room for; and one that was
\* not written is sent only in the place of one of such a longer write.  The tty gets
\* what came in order, with no more packets dropped for their PID than were flushed.
\* This holds for packets and length bytes of any size (a message of one packet has
\* its length in the byte), writes of any length and any number of characters, of
\* which none reads as a message.
THEOREM PortInOrder == PortSpec => []PortCarries
<1>1. PortInit => WriteInv /\ ReadInv
  <2> SUFFICES ASSUME PortInit PROVE WriteInv /\ ReadInv
    OBVIOUS
  <2>1. /\ message = <<>> /\ line = <<>> /\ tty = <<>> /\ portTx = <<>> /\ DOMAIN line = {}
        /\ overlong = {} /\ Len(line) = 0
        /\ DOMAIN tty = {} /\ Len(message) = 0 /\ message \in Seq(SerialPackets)
        /\ line \in Seq(Nat) /\ tty \in Seq(Nat)
    BY DEF PortInit
  <2>2. /\ written = 0 /\ portTogl = 0 /\ expectedPid = 0 /\ arrived = 0
        /\ flushed = 0 /\ dropped = 0
    BY DEF PortInit
  <2>3. WriteInv
    BY <2>1, <2>2
       DEF WriteInv, WriteTypeOK, MessageIsLast, RestIsLast, AllAccounted, LineInOrder,
           JunkInPlace
  <2>4. ReadInv
    BY <2>1, <2>2 DEF ReadInv, ReadTypeOK, FlushedPay, OutOfStep, TtyInOrder
  <2> QED BY <2>3, <2>4
<1>2. WriteInv /\ ReadInv => PortCarries
  <2> SUFFICES ASSUME WriteInv, ReadInv PROVE PortCarries
    OBVIOUS
  <2>1. LineIsWritten
    <3>1. \A i \in DOMAIN line : line[i] = Junk => \E c \in overlong : InPlaceOf(i, c)
      BY DEF WriteInv, JunkInPlace
    <3> QED BY <3>1 DEF WriteInv, WriteTypeOK, AllAccounted, LineInOrder, Sent, LineIsWritten
  <2>2. LossesBounded
    BY DEF ReadInv, ReadTypeOK, FlushedPay, TtyInOrder, LossesBounded
  <2> QED BY <2>1, <2>2 DEF PortCarries
<1>3. WriteInv /\ ReadInv /\ [PortNext]_portVars => WriteInv' /\ ReadInv'
  BY PortStepInv
<1> QED BY <1>1, <1>2, <1>3, PTL DEF PortSpec

-----------------------------------------------------------------------------
(* The USB to Ethernet bridge: frames                                       *)

NetPackets ==
  [from : {"none", "host", "uIP"}, of : Nat, part : Nat, type : {"ip", "arp", "other"},
   size : Nat]
Buffers == [0..3 -> NetPackets]

NetTypeOK ==
  /\ uipBuf \in Buffers /\ frame \in Frames
  /\ number \in Nat /\ part \in Nat /\ fillindex \in Nat
  /\ handed \in Seq([buf : Buffers, len : Nat])

\* The packets of the frame that came so far are in their places: nobody writes there
\* while a frame is under way.
FrameInv ==
  /\ part < Packets(frame.size) /\ fillindex = 64 * part
  /\ \A b \in 0..(part - 1) : uipBuf[b] = Packet("host", number, frame, b)

HandedInv ==
  /\ HandedWhole
  /\ \A i \in DOMAIN handed : handed[i].buf[0].of < number

NetInv == NetTypeOK /\ FrameInv /\ HandedInv

LEMMA PacketsOf ==
  ASSUME NEW size \in 1..192
  PROVE  Packets(size) = IF size <= 64 THEN 1 ELSE IF size <= 128 THEN 2 ELSE 3
BY DEF Packets

LEMMA FrameOf ==
  ASSUME NEW f \in Frames
  PROVE  /\ f.type \in {"ip", "arp", "other"} /\ f.size \in 42..192
         /\ f.type # "ip" => f.size <= 64
         /\ f.type = "arp" => f.size = 42
         /\ f.size \in 1..192 /\ f.size \in Nat /\ Packets(f.size) \in 1..3
<1>1. /\ f.type \in {"ip", "arp", "other"} /\ f.size \in 42..192
      /\ f.type # "ip" => f.size <= 64
      /\ f.type = "arp" => f.size = 42
  BY NetAssumption
<1>2. \A s \in 42..192 : s \in 1..192 /\ s \in Nat
  OBVIOUS
<1>3. \A s \in 1..192 : Packets(s) \in 1..3
  BY PacketsOf
<1> QED BY <1>1, <1>2, <1>3

\* What the buffer is when a packet of a frame has come.
Arrived == [uipBuf EXCEPT ![part] = Packet("host", number, frame, part)]

LEMMA ArrivedIs ==
  ASSUME NetInv
  PROVE  /\ part \in 0..2 /\ Arrived \in Buffers
         /\ \A b \in 0..part : Arrived[b] = Packet("host", number, frame, b)
         /\ Arrived[0].type = frame.type /\ Arrived[0].size = frame.size
         /\ Arrived[0].of = number
<1>1. frame.type \in {"ip", "arp", "other"} /\ frame.size \in 42..192
  BY FrameOf DEF NetInv, NetTypeOK
<1>2. part \in 0..2
  <2>1. Packets(frame.size) \in 1..3
    BY FrameOf DEF NetInv, NetTypeOK
  <2> QED BY <2>1 DEF NetInv, NetTypeOK, FrameInv
<1>3. Packet("host", number, frame, part) \in NetPackets
  <2>1. frame.size \in Nat
    BY <1>1
  <2>2. number \in Nat /\ part \in Nat
    BY DEF NetInv, NetTypeOK
  <2> QED BY <1>1, <2>1, <2>2 DEF Packet, NetPackets
<1>4. Arrived \in Buffers
  BY <1>2, <1>3 DEF NetInv, NetTypeOK, Arrived, Buffers
<1>5. \A b \in 0..part : Arrived[b] = Packet("host", number, frame, b)
  <2> SUFFICES ASSUME NEW b \in 0..part
               PROVE  Arrived[b] = Packet("host", number, frame, b)
    OBVIOUS
  <2>1. CASE b = part
    BY <1>2, <2>1 DEF NetInv, NetTypeOK, Arrived, Buffers
  <2>2. CASE b # part
    <3>1. b \in 0..(part - 1) /\ b \in 0..3
      BY <1>2, <2>2
    <3> QED BY <2>2, <3>1 DEF NetInv, NetTypeOK, FrameInv, Arrived, Buffers
  <2> QED BY <2>1, <2>2
<1>6. Arrived[0] = Packet("host", number, frame, 0)
  BY <1>2, <1>5
<1> QED BY <1>1, <1>2, <1>4, <1>5, <1>6 DEF Packet

\* A packet is put into its place; uIP is called when it was the last of its frame,
\* and with the length of the frame.
LEMMA ReceiveDoes ==
  ASSUME NetInv, UsbnReceive(Packet("host", number, frame, part))
  PROVE  /\ part + 1 < Packets(frame.size) =>
              /\ fillindex' = fillindex + 64 /\ uipBuf' = Arrived
              /\ UNCHANGED <<uipLen, sendBlocks, togl, armed, handed, reply, inStep, taken>>
         /\ ~(part + 1 < Packets(frame.size)) =>
              /\ fillindex' = 0
              /\ \/ Event(Arrived, frame.size)
                 \/ /\ uipBuf' = Arrived
                    /\ UNCHANGED <<uipLen, sendBlocks, togl, armed, handed, reply, inStep, taken>>
<1> DEFINE buf == [uipBuf EXCEPT ![fillindex \div 64] = Packet("host", number, frame, part)]
           ipLength == buf[0].size - 14
           NoEvent == /\ uipBuf' = buf
                      /\ UNCHANGED <<uipLen, sendBlocks, togl, armed, handed, reply, inStep, taken>>
<1>1. /\ frame.type \in {"ip", "arp", "other"} /\ frame.size \in 42..192
      /\ frame.type # "ip" => frame.size <= 64
      /\ frame.type = "arp" => frame.size = 42
  BY FrameOf DEF NetInv, NetTypeOK
<1>2. /\ part \in 0..2 /\ Arrived[0].type = frame.type /\ Arrived[0].size = frame.size
      /\ fillindex = 64 * part /\ part < Packets(frame.size)
  BY ArrivedIs DEF NetInv, FrameInv
<1>3. fillindex \div 64 = part
  BY <1>2
<1>4. buf = Arrived
  BY <1>3 DEF Arrived
<1>5. /\ buf[0].type = frame.type /\ ipLength = frame.size - 14 /\ ipLength + 14 = frame.size
  <2>1. ipLength = buf[0].size - 14
    OBVIOUS
  <2> HIDE DEF buf, ipLength
  <2>2. buf[0].size = frame.size /\ buf[0].type = frame.type
    BY <1>2, <1>4
  <2> QED BY <1>1, <2>1, <2>2
<1>6. /\ Packets(frame.size) =
           (IF frame.size <= 64 THEN 1 ELSE IF frame.size <= 128 THEN 2 ELSE 3)
      /\ (frame.size <= 64 => part = 0 /\ fillindex = 0)
  BY <1>1, <1>2, PacketsOf
<1>7. \/ /\ buf[0].type = "ip" /\ ipLength <= 50
         /\ Event(buf, ipLength + 14) /\ UNCHANGED fillindex
      \/ /\ buf[0].type = "ip" /\ ipLength > 50 /\ Complete(fillindex + 64, ipLength)
         /\ fillindex' = 0 /\ Event(buf, ipLength + 14)
      \/ /\ buf[0].type = "ip" /\ ipLength > 50 /\ ~Complete(fillindex + 64, ipLength)
         /\ fillindex' = fillindex + 64 /\ NoEvent
      \/ buf[0].type = "arp" /\ Event(buf, 42) /\ UNCHANGED fillindex
      \/ buf[0].type = "other" /\ NoEvent /\ UNCHANGED fillindex
  BY DEF UsbnReceive
<1> HIDE DEF buf, ipLength
<1>8. CASE frame.type = "ip" /\ frame.size <= 64 /\ Event(buf, ipLength + 14) /\ UNCHANGED fillindex
  BY <1>4, <1>5, <1>6, <1>8
<1>9. CASE /\ frame.size > 64 /\ Complete(fillindex + 64, ipLength)
           /\ fillindex' = 0 /\ Event(buf, ipLength + 14)
  <2>1. ~(part + 1 < Packets(frame.size))
    BY <1>1, <1>2, <1>5, <1>6, <1>9 DEF Complete
  <2> QED BY <1>4, <1>5, <1>9, <2>1
<1>10. CASE /\ frame.size > 64 /\ ~Complete(fillindex + 64, ipLength)
            /\ fillindex' = fillindex + 64 /\ NoEvent
  <2>1. part + 1 < Packets(frame.size)
    BY <1>1, <1>2, <1>5, <1>6, <1>10 DEF Complete
  <2> QED BY <1>4, <1>10, <2>1
<1>11. CASE frame.type = "arp" /\ Event(buf, 42) /\ UNCHANGED fillindex
  BY <1>1, <1>4, <1>6, <1>11
<1>12. CASE frame.type = "other" /\ NoEvent /\ UNCHANGED fillindex
  BY <1>1, <1>4, <1>6, <1>12
<1>13. (ipLength <= 50 <=> frame.size <= 64) /\ (ipLength > 50 <=> frame.size > 64)
  BY <1>1, <1>5
<1> QED BY <1>5, <1>7, <1>8, <1>9, <1>10, <1>11, <1>12, <1>13

LEMMA ReplyOf ==
  ASSUME NEW r \in Replies
  PROVE  r.type \in {"ip", "arp", "other"} /\ r.size \in 1..192 /\ r.size \in Nat
<1>1. r.type \in {"ip", "arp"} /\ r.size \in 1..192
  BY NetAssumption
<1> QED BY <1>1

\* What uIP is handed is put to the history; its answer is written over the buffer.
LEMMA EventTypes ==
  ASSUME NetInv, NEW buf \in Buffers, NEW len \in Nat, Event(buf, len)
  PROVE  /\ handed' = Append(handed, [buf |-> buf, len |-> len])
         /\ handed' \in Seq([buf : Buffers, len : Nat]) /\ uipBuf' \in Buffers
<1>1. handed' = Append(handed, [buf |-> buf, len |-> len])
  BY DEF Event
<1>2. handed' \in Seq([buf : Buffers, len : Nat])
  BY <1>1 DEF NetInv, NetTypeOK
<1>3. uipBuf' \in Buffers
  <2>1. CASE uipBuf' = buf
    BY <2>1
  <2>2. ASSUME NEW r \in Replies,
               uipBuf' = [b \in 0..3 |-> IF b < Packets(r.size)
                                         THEN Packet("uIP", number, r, b) ELSE buf[b]]
        PROVE  uipBuf' \in Buffers
    <3>1. \A b \in 0..3 : Packet("uIP", number, r, b) \in NetPackets
      BY ReplyOf DEF NetInv, NetTypeOK, Packet, NetPackets
    <3>2. \A b \in 0..3 : buf[b] \in NetPackets
      BY DEF Buffers
    <3> QED BY <2>2, <3>1, <3>2 DEF Buffers
  <2> QED BY <2>1, <2>2 DEF Event
<1> QED BY <1>1, <1>2, <1>3

\* A frame that is handed over whole keeps the history as it should be.
LEMMA HandedOver ==
  ASSUME NetInv, ~(part + 1 < Packets(frame.size)),
         handed' = Append(handed, [buf |-> Arrived, len |-> frame.size]), number' = number + 1
  PROVE  HandedInv'
<1>1. /\ part \in 0..2 /\ Arrived \in Buffers
      /\ \A b \in 0..part : Arrived[b] = Packet("host", number, frame, b)
      /\ Arrived[0].type = frame.type /\ Arrived[0].size = frame.size
      /\ Arrived[0].of = number
  BY ArrivedIs
<1>2. frame.size \in Nat /\ number \in Nat /\ part = Packets(frame.size) - 1
  <2>1. frame.size \in Nat /\ Packets(frame.size) \in 1..3
    BY FrameOf DEF NetInv, NetTypeOK
  <2> QED BY <1>1, <2>1 DEF NetInv, NetTypeOK, FrameInv
<1> DEFINE new == [buf |-> Arrived, len |-> frame.size]
<1>3. new \in [buf : Buffers, len : Nat] /\ new.buf = Arrived /\ new.len = frame.size
  BY <1>1, <1>2
<1> HIDE DEF new
<1>4. /\ handed \in Seq([buf : Buffers, len : Nat])
      /\ \A i \in DOMAIN handed : handed[i].buf[0].of < number
  BY DEF NetInv, NetTypeOK, HandedInv
<1>5. /\ Len(handed) \in Nat /\ DOMAIN handed = 1..Len(handed)
      /\ DOMAIN handed' = 1..(Len(handed) + 1)
      /\ \A i \in 1..Len(handed) : handed'[i] = handed[i]
      /\ handed'[Len(handed) + 1] = new
  <2>1. handed' = Append(handed, new)
    BY DEF new
  <2>2. Append(handed, new) \in Seq([buf : Buffers, len : Nat])
    BY <1>3, <1>4, AppendProperties
  <2> QED BY <1>3, <1>4, <2>1, <2>2, AppendProperties, LenProperties
<1>6. \A i \in DOMAIN handed' : handed'[i].buf[0].of < number'
  <2> SUFFICES ASSUME NEW i \in DOMAIN handed' PROVE handed'[i].buf[0].of < number'
    OBVIOUS
  <2>1. CASE i \in 1..Len(handed)
    <3>1. handed'[i].buf[0].of < number /\ handed[i] \in [buf : Buffers, len : Nat]
      BY <1>4, <1>5, <2>1, ElementOfSeq
    <3>2. handed'[i].buf[0].of \in Nat
      BY <1>5, <2>1, <3>1 DEF Buffers, NetPackets
    <3> QED BY <1>2, <3>1, <3>2
  <2>2. CASE i = Len(handed) + 1
    BY <1>1, <1>2, <1>3, <1>5, <2>2
  <2> QED BY <1>5, <2>1, <2>2
<1>7. HandedWhole'
  <2> SUFFICES ASSUME NEW i \in DOMAIN handed'
               PROVE  LET head == handed'[i].buf[0] IN
                      /\ handed'[i].len = head.size
                      /\ \A j \in 1..(i - 1) : handed'[j].buf[0].of < head.of
                      /\ \A b \in 0..(Packets(head.size) - 1) :
                           handed'[i].buf[b] = Packet("host", head.of, head, b)
    BY DEF HandedWhole, Packets, Packet
  <2>1. CASE i \in 1..Len(handed)
    <3>1. LET head == handed[i].buf[0] IN
          /\ handed[i].len = head.size
          /\ \A j \in 1..(i - 1) : handed[j].buf[0].of < head.of
          /\ \A b \in 0..(Packets(head.size) - 1) :
               handed[i].buf[b] = Packet("host", head.of, head, b)
      BY <1>5, <2>1 DEF NetInv, HandedInv, HandedWhole
    <3>2. handed'[i] = handed[i] /\ \A j \in 1..(i - 1) : handed'[j] = handed[j]
      BY <1>5, <2>1
    <3> QED BY <3>1, <3>2
  <2>2. CASE i = Len(handed) + 1
    <3>1. handed'[i].len = Arrived[0].size /\ handed'[i].buf = Arrived
      BY <1>1, <1>3, <1>5, <2>2
    <3>2. \A j \in 1..(i - 1) : handed'[j].buf[0].of < Arrived[0].of
      BY <1>1, <1>4, <1>5, <2>2
    <3>3. \A b \in 0..(Packets(Arrived[0].size) - 1) :
            Arrived[b] = Packet("host", Arrived[0].of, Arrived[0], b)
      <4>1. \A b \in 0..part : Arrived[b] = Packet("host", number, Arrived[0], b)
        BY <1>1 DEF Packet
      <4>2. Packets(Arrived[0].size) - 1 = part /\ Arrived[0].of = number
        BY <1>1, <1>2
      <4> QED BY <4>1, <4>2
    <3> QED BY <3>1, <3>2, <3>3
  <2> QED BY <1>5, <2>1, <2>2
<1> QED BY <1>6, <1>7 DEF HandedInv

LEMMA HandedStays ==
  ASSUME NetInv, handed' = handed, number' = number \/ number' = number + 1
  PROVE  HandedInv'
<1>1. HandedWhole'
  BY DEF NetInv, HandedInv, HandedWhole, Packets, Packet
<1>2. \A i \in DOMAIN handed' : handed'[i].buf[0].of < number'
  <2> SUFFICES ASSUME NEW i \in DOMAIN handed PROVE handed[i].buf[0].of < number'
    OBVIOUS
  <2>1. handed[i] \in [buf : Buffers, len : Nat]
    BY ElementOfSeq, LenProperties DEF NetInv, NetTypeOK
  <2>2. handed[i].buf[0].of \in Nat
    BY <2>1 DEF Buffers, NetPackets
  <2> QED BY <2>2 DEF NetInv, NetTypeOK, HandedInv
<1> QED BY <1>1, <1>2 DEF HandedInv

LEMMA FramePacketInv ==
  ASSUME NetInv, FramePacket
  PROVE  NetInv'
<1>1. /\ UsbnReceive(Packet("host", number, frame, part))
      /\ part + 1 < Packets(frame.size) => part' = part + 1 /\ UNCHANGED <<frame, number>>
      /\ ~(part + 1 < Packets(frame.size)) => part' = 0 /\ number' = number + 1 /\ frame' \in Frames
  BY DEF FramePacket
<1>2. /\ part \in 0..2 /\ Arrived \in Buffers
      /\ \A b \in 0..part : Arrived[b] = Packet("host", number, frame, b)
  BY ArrivedIs
<1>3. /\ uipBuf \in Buffers /\ frame \in Frames /\ number \in Nat /\ part \in Nat
      /\ fillindex = 64 * part /\ handed \in Seq([buf : Buffers, len : Nat])
  BY DEF NetInv, NetTypeOK, FrameInv
<1>4. CASE part + 1 < Packets(frame.size)
  <2>1. fillindex' = fillindex + 64 /\ uipBuf' = Arrived /\ handed' = handed
    BY <1>1, <1>4, ReceiveDoes
  <2>2. NetTypeOK' /\ HandedInv'
    BY <1>1, <1>2, <1>3, <1>4, <2>1, HandedStays DEF NetTypeOK
  <2>3. FrameInv'
    <3>1. part' - 1 = part /\ Packets(frame')= Packets(frame)
      BY <1>1, <1>3, <1>4
    <3>2. \A b \in 0..(part' - 1) : uipBuf'[b] = Packet("host", number', frame', b)
      BY <1>1, <1>2, <1>4, <2>1, <3>1
    <3>3. part' < Packets(frame'.size) /\ fillindex' = 64 * part'
      BY <1>1, <1>3, <1>4, <2>1
    <3> QED BY <3>2, <3>3 DEF FrameInv, Packets, Packet
  <2> QED BY <2>2, <2>3 DEF NetInv
<1>5. CASE ~(part + 1 < Packets(frame.size))
  <2>1. /\ fillindex' = 0 /\ part' = 0 /\ number' = number + 1 /\ frame' \in Frames
        /\ \/ Event(Arrived, frame.size)
           \/ uipBuf' = Arrived /\ handed' = handed
    BY <1>1, <1>5, ReceiveDoes
  <2>2. frame.size \in Nat /\ frame'.size \in 1..192
    BY <1>3, <2>1, FrameOf
  <2>3. FrameInv'
    <3>1. Packets(frame'.size) \in 1..3
      BY <2>2, PacketsOf
    <3>2. 0 < Packets(frame'.size) /\ 0..(0 - 1) = {}
      BY <3>1
    <3> QED BY <2>1, <3>2 DEF FrameInv, Packets
  <2>4. CASE Event(Arrived, frame.size)
    <3>1. /\ handed' = Append(handed, [buf |-> Arrived, len |-> frame.size])
          /\ handed' \in Seq([buf : Buffers, len : Nat]) /\ uipBuf' \in Buffers
      BY <1>2, <2>2, <2>4, EventTypes
    <3>2. HandedInv'
      BY <1>5, <2>1, <3>1, HandedOver
    <3> QED BY <1>3, <2>1, <2>3, <3>1, <3>2 DEF NetInv, NetTypeOK
  <2>5. CASE uipBuf' = Arrived /\ handed' = handed
    BY <1>2, <1>3, <2>1, <2>3, <2>5, HandedStays DEF NetInv, NetTypeOK
  <2> QED BY <2>1, <2>4, <2>5
<1> QED BY <1>4, <1>5

LEMMA NetStep == NetInv /\ [NetNext]_netVars => NetInv'
<1> SUFFICES ASSUME NetInv, [NetNext]_netVars PROVE NetInv'
  OBVIOUS
<1>1. CASE FramePacket
  BY <1>1, FramePacketInv
<1>2. CASE HostIn \/ TxCallback \/ UNCHANGED netVars
  <2>1. UNCHANGED <<uipBuf, frame, number, part, fillindex, handed>>
    BY <1>2 DEF HostIn, TxCallback, netVars
  <2> QED BY <2>1, HandedStays DEF NetInv, NetTypeOK, FrameInv, Packets, Packet
<1> QED BY <1>1, <1>2 DEF NetNext

LEMMA NetInitInv == NetInit => NetInv
<1> SUFFICES ASSUME NetInit PROVE NetInv
  OBVIOUS
<1>1. Packets(frame.size) \in 1..3
  BY FrameOf DEF NetInit
<1>2. uipBuf \in Buffers /\ handed \in Seq([buf : Buffers, len : Nat]) /\ DOMAIN handed = {}
  BY DEF NetInit, NoPacket, Buffers, NetPackets
<1>3. FrameInv
  BY <1>1 DEF NetInit, FrameInv
<1> QED BY <1>2, <1>3 DEF NetInit, NetInv, NetTypeOK, HandedInv, HandedWhole

\* uIP is called with whole frames only, each once and in order, whatever replies go
\* out of the same buffer meanwhile: for any number of frames and any choice of uIP,
\* but for frames of the sizes NetAssumption allows.  Those neither overflow uip_buf
\* nor meet the 0xff by which usbn2net_reveive multiplies the high byte of a length.
THEOREM FramesWhole == NetSpec => []HandedWhole
<1>1. NetInv => HandedWhole
  BY DEF NetInv, HandedInv
<1> QED BY <1>1, NetInitInv, NetStep, PTL DEF NetSpec

-----------------------------------------------------------------------------
(* The USB to Ethernet bridge: replies                                      *)

\* What ReplyWhole says of a reply that is over.
ReplyTaken ==
  reply.size \in 1..128 =>
    /\ Len(taken) = Packets(reply.size) - (IF inStep THEN 0 ELSE 1)
    /\ \A i, j \in DOMAIN taken : taken[i].part - taken[j].part = i - j
    /\ \A i \in DOMAIN taken : taken[i].from = "uIP" /\ taken[i].of = taken[1].of

\* A packet of the reply under way.
ReplyPacket(k) == Packet("uIP", number - 1, reply, k)

\* Its last packet, when it has no more than two.
LastPacket == ReplyPacket(IF reply.size > 64 THEN 1 ELSE 0)

\* The four states of the reply to a host that waits for it: none under way; the
\* first of two packets in the FIFO; fetched; the last packet in the FIFO.
NoReply ==
  /\ armed = <<>> /\ uipLen = 0 /\ togl = hostPid /\ sendBlocks = 0
  /\ part > 0 => ~txDone
  /\ ReplyTaken

InTwo ==
  /\ part = 0 /\ reply.size \in 65..192
  /\ uipLen = reply.size - 64 /\ sendBlocks = 1 /\ togl = 0
  /\ uipBuf[1] = ReplyPacket(1)

FirstOfTwo ==
  /\ InTwo
  /\ armed = <<[packet |-> ReplyPacket(0), pid |-> 1]>> /\ ~txDone
  /\ taken = <<>> /\ (inStep <=> hostPid = 1)

BetweenTwo ==
  /\ InTwo
  /\ armed = <<>> /\ txDone
  /\ hostPid = 0 /\ taken = IF inStep THEN <<ReplyPacket(0)>> ELSE <<>>

LastOfReply ==
  /\ part = 0 /\ reply.size \in 1..192
  /\ armed = <<[packet |-> LastPacket, pid |-> hostPid]>>
  /\ ~txDone /\ uipLen = 0 /\ sendBlocks = 0 /\ togl = 1 - hostPid
  /\ reply.size <= 64 => inStep
  /\ taken = IF reply.size > 64 /\ inStep THEN <<ReplyPacket(0)>> ELSE <<>>

ReplyInv ==
  /\ hostPid \in {0, 1}
  /\ polite => NoReply \/ FirstOfTwo \/ BetweenTwo \/ LastOfReply

LEMMA AppendTwo ==
  ASSUME NEW S, NEW x \in S, NEW y \in S
  PROVE  Append(<<x>>, y) = <<x, y>> /\ Append(<<>>, y) = <<y>>
<1>1. <<x>> \in Seq(S) /\ <<>> \in Seq(S) /\ <<x, y>> \in Seq(S) /\ <<y>> \in Seq(S)
  OBVIOUS
<1>2. /\ Append(<<x>>, y) \in Seq(S) /\ Len(Append(<<x>>, y)) = 2
      /\ Append(<<x>>, y)[1] = x /\ Append(<<x>>, y)[2] = y
  BY <1>1, AppendProperties
<1>3. /\ Append(<<>>, y) \in Seq(S) /\ Len(Append(<<>>, y)) = 1 /\ Append(<<>>, y)[1] = y
  BY <1>1, AppendProperties
<1>4. \A i \in 1..2 : Append(<<x>>, y)[i] = <<x, y>>[i]
  BY <1>2
<1>5. Append(<<x>>, y) = <<x, y>>
  BY <1>1, <1>2, <1>4, SeqEqual
<1>6. Append(<<>>, y) = <<y>>
  BY <1>1, <1>3, SeqEqual
<1> QED BY <1>5, <1>6

\* What is missing of a reply that is over: nothing, or the first of two packets.
LEMMA TakenOf ==
  ASSUME NEW size \in 1..192, NEW started, size <= 64 => started
  PROVE  size \in 1..128 =>
           (IF size > 64 /\ started THEN 2 ELSE 1) = Packets(size) - (IF started THEN 0 ELSE 1)
<1>1. Packets(size) = IF size <= 64 THEN 1 ELSE IF size <= 128 THEN 2 ELSE 3
  BY PacketsOf
<1> QED BY <1>1

\* An answer of uIP is under way as soon as it is made.
LEMMA EventReplies ==
  ASSUME NetInv, NEW buf \in Buffers, NEW len \in Nat, Event(buf, len),
         NoReply, ~txDone, txDone' = txDone, hostPid' = hostPid, hostPid \in {0, 1},
         part' = 0, number' = number + 1
  PROVE  NoReply' \/ FirstOfTwo' \/ LastOfReply'
<1>1. CASE uipLen' = 0 /\ UNCHANGED <<sendBlocks, togl, armed, reply, inStep, taken>>
  <2>1. NoReply'
    BY <1>1 DEF NoReply, ReplyTaken, Packets
  <2> QED BY <2>1
<1>2. ASSUME NEW r \in Replies,
             uipBuf' = [b \in 0..3 |-> IF b < Packets(r.size)
                                       THEN Packet("uIP", number, r, b) ELSE buf[b]],
             UsbnSend(uipBuf', r.size), reply' = r, taken' = <<>>,
             inStep' = (r.size <= 64 \/ hostPid = 1)
      PROVE  NoReply' \/ FirstOfTwo' \/ LastOfReply'
  <2>1. r.size \in 1..192 /\ r.size \in Nat /\ number \in Nat /\ number' - 1 = number
    BY ReplyOf DEF NetInv, NetTypeOK
  <2>2. Packets(r.size) = IF r.size <= 64 THEN 1 ELSE IF r.size <= 128 THEN 2 ELSE 3
    BY <2>1, PacketsOf
  <2>3. \A b \in 0..3 : b < Packets(r.size) => uipBuf'[b] = Packet("uIP", number, r, b)
    BY <1>2
  <2>4. uipBuf'[0] = ReplyPacket(0)'
    BY <1>2, <2>1, <2>2, <2>3 DEF ReplyPacket, Packet
  <2>5. inStep' <=> (r.size <= 64 \/ hostPid = 1)
    BY <1>2
  <2>6. sendBlocks = 0 /\ togl = hostPid
    BY DEF NoReply
  <2>7. CASE r.size > 64
    <3>1. /\ armed' = <<[packet |-> uipBuf'[0], pid |-> 1]>> /\ togl' = 0
          /\ sendBlocks' = 1 /\ uipLen' = r.size - 64
      BY <1>2, <2>6, <2>7 DEF UsbnSend, Send
    <3>2. uipBuf'[1] = ReplyPacket(1)'
      BY <1>2, <2>1, <2>2, <2>3, <2>7 DEF ReplyPacket, Packet
    <3>3. r.size \in 65..192
      BY <2>1, <2>7
    <3>4. InTwo'
      BY <1>2, <3>1, <3>2, <3>3 DEF InTwo
    <3>5. ~txDone' /\ taken' = <<>> /\ (inStep' <=> hostPid' = 1)
      BY <1>2, <2>1, <2>5, <2>7
    <3>6. armed' = <<[packet |-> ReplyPacket(0)', pid |-> 1]>>
      BY <2>4, <3>1
    <3>7. FirstOfTwo'
      BY <3>4, <3>5, <3>6 DEF FirstOfTwo
    <3> QED BY <3>7
  <2>8. CASE ~(r.size > 64)
    <3>1. /\ armed' = <<[packet |-> uipBuf'[0], pid |-> hostPid]>> /\ togl' = 1 - hostPid
          /\ sendBlocks' = 0 /\ uipLen' = 0
      BY <1>2, <2>6, <2>8 DEF UsbnSend, Send
    <3>2. LastPacket' = uipBuf'[0]
      BY <1>2, <2>4, <2>8 DEF ReplyPacket, LastPacket
    <3>5. armed' = <<[packet |-> LastPacket', pid |-> hostPid']>>
      BY <3>1, <3>2
    <3>3. inStep' /\ ~txDone' /\ taken' = <<>>
      BY <1>2, <2>1, <2>5, <2>8
    <3>4. LastOfReply'
      BY <1>2, <2>1, <2>8, <3>1, <3>5, <3>3 DEF LastOfReply
    <3> QED BY <3>4
  <2> QED BY <2>7, <2>8
<1> QED BY <1>1, <1>2 DEF Event

\* A host that waits sends the next packet of a frame only when no reply is under way.
LEMMA FramePacketReply ==
  ASSUME NetInv, ReplyInv, FramePacket
  PROVE  ReplyInv'
<1>1. /\ UsbnReceive(Packet("host", number, frame, part))
      /\ part + 1 < Packets(frame.size) => part' = part + 1 /\ UNCHANGED <<frame, number>>
      /\ ~(part + 1 < Packets(frame.size)) => part' = 0 /\ number' = number + 1 /\ frame' \in Frames
      /\ UNCHANGED <<polite, txDone, hostPid>>
      /\ polite /\ part = 0 => armed = <<>> /\ ~txDone /\ uipLen = 0
  BY DEF FramePacket, Answered
<1>2. hostPid \in {0, 1} /\ part \in Nat /\ frame.size \in Nat /\ Arrived \in Buffers
  BY FrameOf, ArrivedIs DEF ReplyInv, NetInv, NetTypeOK
<1>3. SUFFICES ASSUME polite
               PROVE  NoReply' \/ FirstOfTwo' \/ LastOfReply'
  BY <1>1, <1>2 DEF ReplyInv
<1>4. NoReply /\ ~txDone
  <2>1. NoReply \/ FirstOfTwo \/ BetweenTwo \/ LastOfReply
    BY <1>3 DEF ReplyInv
  <2>2. FirstOfTwo \/ LastOfReply => part = 0 /\ armed # <<>>
    <3>1. FirstOfTwo => part = 0 /\ armed # <<>>
      BY DEF FirstOfTwo, InTwo
    <3>2. LastOfReply => part = 0 /\ armed # <<>>
      BY DEF LastOfReply
    <3> QED BY <3>1, <3>2
  <2>3. BetweenTwo => part = 0 /\ txDone
    BY DEF BetweenTwo, InTwo
  <2>4. NoReply
    BY <1>1, <1>3, <2>1, <2>2, <2>3
  <2> QED BY <1>1, <1>2, <1>3, <2>4 DEF NoReply
<1>5. CASE UNCHANGED <<uipLen, sendBlocks, togl, armed, reply, inStep, taken>>
  <2>1. ~txDone'
    BY <1>1, <1>4
  <2>2. NoReply'
    BY <1>1, <1>4, <1>5, <2>1 DEF NoReply, ReplyTaken, Packets
  <2> QED BY <2>2
<1>6. CASE Event(Arrived, frame.size) /\ ~(part + 1 < Packets(frame.size))
  BY <1>1, <1>2, <1>4, <1>6, EventReplies
<1> QED BY <1>1, <1>5, <1>6, ReceiveDoes

LEMMA HostInReply ==
  ASSUME NetInv, ReplyInv, HostIn
  PROVE  ReplyInv'
<1>1. /\ armed # <<>> /\ armed' = <<>> /\ txDone'
      /\ armed[1].pid = hostPid =>
           hostPid' = 1 - hostPid /\ taken' = Append(taken, armed[1].packet)
      /\ armed[1].pid # hostPid => hostPid' = hostPid /\ taken' = taken
      /\ UNCHANGED <<part, number, uipBuf, uipLen, sendBlocks, togl, reply>>
  BY DEF HostIn
<1>2. polite' = polite /\ (inStep' <=> inStep)
  BY DEF HostIn
<1>3. hostPid \in {0, 1} /\ hostPid' \in {0, 1}
  BY <1>1 DEF ReplyInv
<1>4. SUFFICES ASSUME polite
               PROVE  NoReply' \/ BetweenTwo'
  BY <1>2, <1>3 DEF ReplyInv
<1>5. CASE FirstOfTwo
  <2>1. armed[1].pid = 1 /\ armed[1].packet = ReplyPacket(0) /\ InTwo /\ taken = <<>>
    BY <1>5 DEF FirstOfTwo
  <2>2. InTwo' /\ ReplyPacket(0)' = ReplyPacket(0)
    BY <1>1, <2>1 DEF InTwo, ReplyPacket, Packet
  <2>3. hostPid' = 0 /\ taken' = IF inStep THEN <<ReplyPacket(0)>> ELSE <<>>
    <3>1. inStep <=> hostPid = 1
      BY <1>5 DEF FirstOfTwo
    <3>2. CASE hostPid = 1
      BY <1>1, <2>1, <3>1, <3>2
    <3>3. CASE hostPid = 0
      BY <1>1, <2>1, <3>1, <3>3
    <3> QED BY <1>3, <3>2, <3>3
  <2>4. BetweenTwo'
    BY <1>1, <1>2, <2>2, <2>3 DEF BetweenTwo
  <2> QED BY <2>4
<1>6. CASE LastOfReply
  <2> DEFINE k == IF reply.size > 64 THEN 1 ELSE 0
  <2>1. /\ armed[1].pid = hostPid /\ armed[1].packet = ReplyPacket(k)
        /\ part = 0 /\ uipLen = 0 /\ sendBlocks = 0 /\ togl = 1 - hostPid
        /\ reply.size \in 1..192 /\ (reply.size <= 64 => inStep)
        /\ taken = IF reply.size > 64 /\ inStep THEN <<ReplyPacket(0)>> ELSE <<>>
    BY <1>6 DEF LastOfReply, LastPacket
  <2>2. hostPid' = togl' /\ taken' = Append(taken, ReplyPacket(k))
    BY <1>1, <2>1
  <2>3. taken' = IF reply.size > 64 /\ inStep THEN <<ReplyPacket(0), ReplyPacket(1)>>
                 ELSE <<ReplyPacket(k)>>
    <3>2. CASE reply.size > 64 /\ inStep
      <4>1. k = 1 /\ taken = <<ReplyPacket(0)>>
        BY <2>1, <3>2
      <4> QED BY <2>2, <3>2, <4>1, AppendTwo
    <3>3. CASE ~(reply.size > 64 /\ inStep)
      <4>1. taken = <<>>
        BY <2>1, <3>3
      <4> HIDE DEF k
      <4> QED BY <2>2, <3>3, <4>1, AppendTwo
    <3> QED BY <3>2, <3>3
  <2>4. ReplyTaken'
    <3>1. \A m \in {0, 1} : ReplyPacket(m).from = "uIP" /\ ReplyPacket(m).of = number - 1
                            /\ ReplyPacket(m).part = m
      BY DEF ReplyPacket, Packet
    <3>2. reply.size \in 1..128 =>
            (IF reply.size > 64 /\ inStep THEN 2 ELSE 1)
              = Packets(reply.size) - (IF inStep THEN 0 ELSE 1)
      BY <2>1, TakenOf
    <3>3. CASE reply.size > 64 /\ inStep
      <4>1. /\ Len(taken') = 2 /\ DOMAIN taken' = {1, 2}
            /\ taken'[1] = ReplyPacket(0) /\ taken'[2] = ReplyPacket(1)
        BY <2>3, <3>3
      <4>2. \A i \in {1, 2} : taken'[i].part = i - 1 /\ taken'[i].from = "uIP"
                              /\ taken'[i].of = number - 1
        BY <3>1, <4>1
      <4>3. \A i, j \in DOMAIN taken' : taken'[i].part - taken'[j].part = i - j
        BY <4>1, <4>2
      <4>4. \A i \in DOMAIN taken' : taken'[i].from = "uIP" /\ taken'[i].of = taken'[1].of
        BY <4>1, <4>2
      <4>5. reply'.size \in 1..128 =>
              Len(taken') = Packets(reply'.size) - (IF inStep' THEN 0 ELSE 1)
        BY <1>1, <1>2, <3>2, <3>3, <4>1
      <4> QED BY <4>3, <4>4, <4>5 DEF ReplyTaken, Packets
    <3>4. CASE ~(reply.size > 64 /\ inStep)
      <4>1. Len(taken') = 1 /\ DOMAIN taken' = {1} /\ taken'[1] = ReplyPacket(k)
        BY <2>3, <3>4
      <4>2. taken'[1].part = k /\ taken'[1].from = "uIP" /\ k \in {0, 1}
        BY <3>1, <4>1
      <4> HIDE DEF k
      <4>3. \A i, j \in DOMAIN taken' : taken'[i].part - taken'[j].part = i - j
        BY <4>1, <4>2
      <4>4. \A i \in DOMAIN taken' : taken'[i].from = "uIP" /\ taken'[i].of = taken'[1].of
        BY <4>1, <4>2
      <4>5. reply'.size \in 1..128 =>
              Len(taken') = Packets(reply'.size) - (IF inStep' THEN 0 ELSE 1)
        BY <1>1, <1>2, <3>2, <3>4, <4>1
      <4> QED BY <4>3, <4>4, <4>5 DEF ReplyTaken, Packets
    <3> QED BY <3>3, <3>4
  <2>5. NoReply'
    BY <1>1, <2>1, <2>2, <2>4 DEF NoReply
  <2> QED BY <2>5
<1>7. ~NoReply /\ ~BetweenTwo
  BY <1>1 DEF NoReply, BetweenTwo
<1> QED BY <1>4, <1>5, <1>6, <1>7 DEF ReplyInv

LEMMA TxCallbackReply ==
  ASSUME NetInv, ReplyInv, TxCallback
  PROVE  ReplyInv'
<1>1. /\ txDone /\ ~txDone'
      /\ uipLen # 0 => /\ armed' = <<[packet |-> uipBuf[sendBlocks], pid |-> togl]>>
                       /\ togl' = 1 - togl /\ uipLen' = 0 /\ sendBlocks' = 0
      /\ uipLen = 0 => UNCHANGED <<uipLen, sendBlocks, togl, armed>>
      /\ UNCHANGED <<part, number, uipBuf, hostPid, reply, taken>>
  BY DEF TxCallback, Send
<1>2. polite' = polite /\ (inStep' <=> inStep)
  BY DEF TxCallback
<1>3. hostPid \in {0, 1}
  BY DEF ReplyInv
<1>4. SUFFICES ASSUME polite
               PROVE  NoReply' \/ LastOfReply'
  BY <1>1, <1>2, <1>3 DEF ReplyInv
<1>5. CASE NoReply
  <2>1. NoReply'
    BY <1>1, <1>2, <1>5 DEF NoReply, ReplyTaken, Packets
  <2> QED BY <2>1
<1>6. CASE BetweenTwo
  <2>1. /\ reply.size \in 65..192 /\ uipLen = reply.size - 64 /\ sendBlocks = 1 /\ togl = 0
        /\ uipBuf[1] = ReplyPacket(1) /\ part = 0 /\ hostPid = 0
        /\ taken = IF inStep THEN <<ReplyPacket(0)>> ELSE <<>>
    BY <1>6 DEF BetweenTwo, InTwo
  <2>2. uipLen # 0 /\ reply.size \in 1..192 /\ reply.size > 64 /\ ~(reply.size <= 64)
    <3>1. \A n \in 65..192 : n - 64 # 0 /\ n \in 1..192 /\ n > 64 /\ ~(n <= 64)
      OBVIOUS
    <3> QED BY <2>1, <3>1
  <2>3. /\ armed' = <<[packet |-> ReplyPacket(1), pid |-> hostPid]>> /\ togl' = 1 - hostPid
        /\ uipLen' = 0 /\ sendBlocks' = 0
    BY <1>1, <2>1, <2>2
  <2>4. ReplyPacket(1)' = ReplyPacket(1) /\ ReplyPacket(0)' = ReplyPacket(0)
    BY <1>1 DEF ReplyPacket, Packet
  <2>8. LastPacket' = ReplyPacket(1)
    BY <1>1, <2>2, <2>4 DEF LastPacket, ReplyPacket
  <2>5. armed' = <<[packet |-> LastPacket', pid |-> hostPid']>>
    BY <1>1, <2>3, <2>8
  <2>6. taken' = IF reply'.size > 64 /\ inStep' THEN <<ReplyPacket(0)'>> ELSE <<>>
    BY <1>1, <1>2, <2>1, <2>2, <2>4
  <2>7. LastOfReply'
    BY <1>1, <2>1, <2>2, <2>3, <2>5, <2>6 DEF LastOfReply
  <2> QED BY <2>7
<1>7. ~FirstOfTwo /\ ~LastOfReply
  BY <1>1 DEF FirstOfTwo, LastOfReply
<1> QED BY <1>4, <1>5, <1>6, <1>7 DEF ReplyInv

LEMMA ReplyStep == NetInv /\ ReplyInv /\ [NetNext]_netVars => ReplyInv'
<1> SUFFICES ASSUME NetInv, ReplyInv, [NetNext]_netVars PROVE ReplyInv'
  OBVIOUS
<1>1. CASE UNCHANGED netVars
  <2>1. UNCHANGED <<part, number, uipBuf, uipLen, sendBlocks, togl, armed, hostPid, reply, taken>>
    BY <1>1 DEF netVars
  <2>2. (polite' <=> polite) /\ (inStep' <=> inStep) /\ (txDone' <=> txDone)
    BY <1>1 DEF netVars
  <2>3. (NoReply => NoReply') /\ (InTwo => InTwo')
    BY <2>1, <2>2 DEF NoReply, ReplyTaken, Packets, InTwo, ReplyPacket, Packet
  <2>4. ReplyPacket(0)' = ReplyPacket(0) /\ LastPacket' = LastPacket
    BY <2>1 DEF LastPacket, ReplyPacket, Packet
  <2>5. FirstOfTwo => FirstOfTwo'
    BY <2>1, <2>2, <2>3, <2>4 DEF FirstOfTwo
  <2>6. BetweenTwo => BetweenTwo'
    BY <2>1, <2>2, <2>3, <2>4 DEF BetweenTwo
  <2>7. LastOfReply => LastOfReply'
    BY <2>1, <2>2, <2>4 DEF LastOfReply
  <2> QED BY <2>1, <2>2, <2>3, <2>5, <2>6, <2>7 DEF ReplyInv
<1> QED BY <1>1, FramePacketReply, HostInReply, TxCallbackReply DEF NetNext

\* A polite host, one that sends no frame before it has the reply to the last, gets a
\* reply of up to two packets whole and in order, but for the first of two, which
\* starts with DATA1 whatever PID the host expects: for any number of frames and any
\* choice of uIP.  Of a host that does not wait nothing is said.
THEOREM RepliesWhole == NetSpec => []ReplyWhole
<1>1. NetInit => ReplyInv
  BY DEF NetInit, ReplyInv, NoReply, ReplyTaken
<1>2. NetInv /\ ReplyInv => ReplyWhole
  <2> SUFFICES ASSUME ReplyInv, polite, Answered, reply.size \in 1..128
               PROVE  ReplyTaken
    BY DEF ReplyWhole, ReplyTaken
  <2>1. NoReply
    BY DEF ReplyInv, Answered, FirstOfTwo, BetweenTwo, LastOfReply
  <2> QED BY <2>1 DEF NoReply
<1> QED BY <1>1, <1>2, NetInitInv, NetStep, ReplyStep, PTL DEF NetSpec
=============================================================================
