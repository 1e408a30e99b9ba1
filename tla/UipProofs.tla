----------------------------- MODULE UipProofs -----------------------------
(***************************************************************************)
(* The TCP of the Ethernet bridge, for every set of peers and scripts, any *)
(* size of the connection table and any number of segments on their way.   *)
(* A session is a connection k, its peer's segments q and those t for it,  *)
(* the peer e, the lines w the application has looked at, and the script   *)
(* s.  The invariant says of every session, apart from the others, what    *)
(* these six have to do with each other: SessionOK of the peer's stream,   *)
(* and AnswerOK of the device's, when nothing of it is lost and the peer   *)
(* waits.  Sessions meet in the table of connections only.                 *)
(***************************************************************************)
EXTENDS Uip, SequenceTheorems, TLAPS

Words == {"h", "other", "q"}
Texts == Words \cup {"none", "ok", "prompt"}
OpenStates ==
  {"SYN_RCVD", "ESTABLISHED", "FIN_WAIT_1", "FIN_WAIT_2", "CLOSING", "TIME_WAIT", "LAST_ACK"}
OpenEntries == [state : OpenStates, peer : Peers, sndNxt : Nat, len : Nat, rcvNxt : Nat]
TableEntries == OpenEntries \cup {Closed}
Segments ==
  [flags : {{"syn"}, {"syn", "ack"}, {"ack"}, {"fin", "ack"}, {"rst", "ack"}},
   seq : Nat, ack : Nat, len : Nat, text : Texts]
Remotes ==
  [state : {"idle", "syn_sent", "established", "reset"}, una : Nat, nxt : Nat, rcv : Nat,
   got : Seq([text : Texts, len : Nat]), fin : BOOLEAN]

\* A peer has one connection at most: ConnIn is that one, or none.
MineIn(f, p, c) == f[c].state # "CLOSED" /\ f[c].peer = p
OneEach(f) ==
  \A c, d \in 1..Conns : \A p \in Peers : MineIn(f, p, c) /\ MineIn(f, p, d) => c = d
ConnIn(f, p) ==
  IF \E c \in 1..Conns : MineIn(f, p, c) THEN f[CHOOSE c \in 1..Conns : MineIn(f, p, c)] ELSE Closed

\* Segments of a peer, and the answer to its SYN.
IsSyn(x)      == x.flags = {"syn"}
IsLine(x)     == x.len > 0
IsFin(x)      == "fin" \in x.flags
IsNumbered(x) == IsLine(x) \/ IsFin(x)
IsSynAck(y)   == y.flags = {"syn", "ack"} /\ y.seq = 0 /\ y.len = 0 /\ y.ack = 1
IsGreeting(x) == x.flags = {"ack"} /\ x.len = 0 /\ x.ack = 1

\* The session is about to begin, or under way.
HasSyn(q)   == \E j \in 1..Len(q) : IsSyn(q[j])
Young(k, q) == k.state = "SYN_RCVD" \/ HasSyn(q)
Alive(k, q) == Young(k, q) \/ k.state = "ESTABLISHED"

\* What a peer with the script s may send, and what is on its way from one that has
\* numbered nxt segments: SYNs before all else.
Sendable(x, s) ==
  /\ IsSyn(x) => x.seq = 0 /\ x.ack = 0 /\ x.len = 0
  /\ x.flags # {"syn", "ack"}
  /\ IsLine(x) => x.flags = {"ack"} /\ x.len = 1 /\ x.seq \in 1..Len(s) /\ x.text = s[x.seq]
  /\ IsFin(x) => x.len = 0 /\ x.seq = Len(s) + 1

QueueOK(q, s, nxt) ==
  \A j \in 1..Len(q) :
    /\ Sendable(q[j], s)
    /\ IsNumbered(q[j]) => q[j].seq < nxt
    /\ IsSyn(q[j]) => \A i \in 1..(j - 1) : IsSyn(q[i])

\* No acknowledgement is ahead of the application, but for the FIN's.
AckOK(a, w, s) == a <= Len(w) + 1 \/ (a = Len(s) + 2 /\ Len(w) = Len(s))

\* rcv_nxt counts the lines looked at, and the FIN.
StateOK(k, w, s) ==
  /\ k.state = "SYN_RCVD" => Len(w) = 0 /\ k.rcvNxt = 1 /\ k.sndNxt = 0 /\ k.len = 1
  /\ k.state = "ESTABLISHED" => k.rcvNxt = Len(w) + 1
  /\ k.state \in {"FIN_WAIT_1", "FIN_WAIT_2"} => Len(w) = Len(s) /\ k.rcvNxt = Len(s) + 1
  /\ k.state \in {"CLOSING", "TIME_WAIT", "LAST_ACK"} => Len(w) = Len(s) /\ k.rcvNxt = Len(s) + 2

\* The lines looked at are the first of the script.
LookedOK(w, s) == Len(w) <= Len(s) /\ \A i \in 1..Len(w) : w[i] = s[i]

RemoteOK(k, q, t, e, w, s) ==
  /\ e.state = "idle" => e.una = 0 /\ e.nxt = 0 /\ Len(q) = 0 /\ Len(t) = 0 /\ k.state = "CLOSED"
  /\ e.state = "syn_sent" =>
       /\ e.una = 0 /\ e.nxt = 1
       /\ \A j \in 1..Len(q) : IsSyn(q[j])
       /\ \A j \in 1..Len(t) : IsSynAck(t[j])
  /\ e.state \in {"idle", "syn_sent"} =>
       /\ Len(w) = 0 /\ Len(e.got) = 0 /\ e.rcv = 0 /\ ~e.fin
       /\ k.state \in {"CLOSED", "SYN_RCVD"}
  /\ e.state = "established" => e.una >= 1
  /\ e.una <= e.nxt /\ e.nxt <= Len(s) + 2
  /\ AckOK(e.una, w, s)
  /\ patient => e.nxt <= e.una + 1 /\ (e.nxt > 1 => Len(e.got) > 0)

AnswersOK(t, w, s) == \A j \in 1..Len(t) : "rst" \notin t[j].flags => AckOK(t[j].ack, w, s)

\* Until it is established nothing has been looked at or sent but SYN and ACK, and the
\* peer's acknowledgement goes before its lines.
YoungOK(k, q, t, e, w) ==
  /\ HasSyn(q) => Len(w) = 0 /\ k.state \in {"CLOSED", "SYN_RCVD"}
  /\ Young(k, q) =>
       /\ Len(e.got) = 0
       /\ e.state = "established" => e.rcv = 1
       /\ \A j \in 1..Len(t) : IsSynAck(t[j])
       /\ \A j \in 1..Len(q) : IsNumbered(q[j]) => \E i \in 1..(j - 1) : IsGreeting(q[i])
  /\ Young(k, q) /\ ~lossy /\ e.state = "established" => \E i \in 1..Len(q) : IsGreeting(q[i])

\* Without loss every line not looked at is on its way, before all with higher numbers.
InTurn(k, q, e, w, s) ==
  ~lossy /\ Alive(k, q) =>
    /\ \A j \in 1..Len(q) : IsNumbered(q[j]) =>
         \A i \in (Len(w) + 1)..(q[j].seq - 1) :
           \E h \in 1..(j - 1) : IsLine(q[h]) /\ q[h].seq = i
    /\ \A i \in (Len(w) + 1)..Len(s) : i < e.nxt =>
         \E h \in 1..Len(q) : IsLine(q[h]) /\ q[h].seq = i

SessionOK(k, q, t, e, w, s) ==
  /\ QueueOK(q, s, e.nxt) /\ StateOK(k, w, s) /\ LookedOK(w, s) /\ RemoteOK(k, q, t, e, w, s)
  /\ AnswersOK(t, w, s) /\ YoungOK(k, q, t, e, w) /\ InTurn(k, q, e, w, s)

Types(k, q, t, e, w, s) ==
  /\ k \in TableEntries /\ q \in Seq(Segments) /\ t \in Seq(Segments)
  /\ e \in Remotes /\ w \in Seq(Words) /\ s \in Seq(Words)
  /\ \A i \in 1..Len(s) : s[i] = "q" => i = Len(s)

\* r is q without its first element, without the last ones, or with another one.
IsTail(r, q) ==
  /\ r \in Seq(Segments) /\ Len(q) > 0 /\ Len(r) = Len(q) - 1
  /\ \A j \in 1..Len(r) : r[j] = q[j + 1]
IsFront(r, q) ==
  /\ r \in Seq(Segments) /\ Len(r) <= Len(q)
  /\ \A j \in 1..Len(r) : r[j] = q[j]
IsAppend(r, q, x) ==
  /\ r \in Seq(Segments) /\ Len(r) = Len(q) + 1 /\ r[Len(r)] = x
  /\ \A j \in 1..Len(q) : r[j] = q[j]

LEMMA TailIs ==
  ASSUME NEW q \in Seq(Segments), q # <<>>
  PROVE  IsTail(Tail(q), q) /\ Head(q) = q[1] /\ q[1] \in Segments
<1>1. Len(q) \in Nat /\ Len(q) > 0
  BY EmptySeq, LenProperties
<1>2. /\ Head(q) = q[1] /\ Tail(q) \in Seq(Segments) /\ Len(Tail(q)) = Len(q) - 1
      /\ \A i \in 1..Len(Tail(q)) : Tail(q)[i] = q[i + 1]
  BY HeadTailProperties
<1>3. q[1] \in Segments
  BY <1>1, ElementOfSeq
<1> QED BY <1>1, <1>2, <1>3 DEF IsTail

LEMMA AppendIs ==
  ASSUME NEW q \in Seq(Segments), NEW x \in Segments
  PROVE  IsAppend(Append(q, x), q, x) /\ IsAppend(q \o <<x>>, q, x)
<1>1. IsAppend(Append(q, x), q, x)
  BY AppendProperties, LenProperties DEF IsAppend
<1> QED BY <1>1, AppendIsConcat

LEMMA LenNat ==
  ASSUME NEW S, NEW q \in Seq(S)
  PROVE  Len(q) \in Nat /\ \A i \in 1..Len(q) : q[i] \in S
BY LenProperties, ElementOfSeq

-----------------------------------------------------------------------------
(* The table of connections *)

LEMMA ConnOfMine ==
  ASSUME NEW f, OneEach(f), NEW p \in Peers, NEW c \in 1..Conns, MineIn(f, p, c)
  PROVE  ConnIn(f, p) = f[c]
<1>1. \A d \in 1..Conns : MineIn(f, p, d) => d = c
  BY DEF OneEach
<1>2. (CHOOSE d \in 1..Conns : MineIn(f, p, d)) = c
  BY <1>1
<1> QED BY <1>2 DEF ConnIn

LEMMA ConnOfNone ==
  ASSUME NEW f, NEW p \in Peers, \A c \in 1..Conns : ~MineIn(f, p, c)
  PROVE  ConnIn(f, p) = Closed
BY DEF ConnIn

LEMMA OpenIsOpen == \A k \in OpenEntries : k.state # "CLOSED"
BY DEF OpenEntries, OpenStates

\* From f to g no peer but p loses a connection that is not in TIME_WAIT.
Others(g, f, p) ==
  \A r \in Peers \ {p} :
    \/ ConnIn(g, r) = ConnIn(f, r)
    \/ ConnIn(f, r).state = "TIME_WAIT" /\ ConnIn(g, r) = Closed

Replaced(g, f, c, o) == g = [f EXCEPT ![c] = o]

\* An entry of the table becomes o, which was the peer's or nobody else's but a
\* connection's in TIME_WAIT.
LEMMA Replace ==
  ASSUME NEW f \in [1..Conns -> TableEntries], OneEach(f), NEW p \in Peers, NEW c \in 1..Conns,
         NEW o \in TableEntries, o # Closed => o.peer = p,
         \/ MineIn(f, p, c)
         \/ /\ \A d \in 1..Conns : ~MineIn(f, p, d)
            /\ f[c].state \in {"CLOSED", "TIME_WAIT"},
         NEW g, Replaced(g, f, c, o)
  PROVE  /\ g \in [1..Conns -> TableEntries] /\ OneEach(g) /\ ConnIn(g, p) = o
         /\ Others(g, f, p)
<1>1. g \in [1..Conns -> TableEntries] /\ g[c] = o /\ \A d \in 1..Conns : d # c => g[d] = f[d]
  BY DEF Replaced
<1>2. o.state # "CLOSED" => o \in OpenEntries /\ o.peer = p
  <2>1. Closed.state = "CLOSED"
    BY DEF Closed
  <2> QED BY <2>1 DEF TableEntries
<1>3. \A d \in 1..Conns : d # c => ~MineIn(g, p, d)
  BY <1>1 DEF MineIn, OneEach
<1>4. \A r \in Peers \ {p} : ~MineIn(g, r, c)
  BY <1>1, <1>2 DEF MineIn
<1>5. \A r \in Peers \ {p} : \A d \in 1..Conns : d # c => (MineIn(g, r, d) <=> MineIn(f, r, d))
  BY <1>1 DEF MineIn
<1>6. OneEach(g)
  <2>1. ASSUME NEW r \in Peers, NEW i \in 1..Conns, NEW j \in 1..Conns,
               MineIn(g, r, i), MineIn(g, r, j)
        PROVE  i = j
    <3>1. CASE r = p
      BY <1>3, <2>1, <3>1
    <3>2. CASE r # p
      <4>1. i # c /\ j # c
        BY <1>4, <2>1, <3>2
      <4>2. MineIn(f, r, i) /\ MineIn(f, r, j)
        BY <1>5, <2>1, <3>2, <4>1
      <4> QED BY <4>2 DEF OneEach
    <3> QED BY <3>1, <3>2
  <2> QED BY <2>1 DEF OneEach
<1>7. ConnIn(g, p) = o
  <2>1. CASE o.state = "CLOSED"
    <3>1. o = Closed
      BY <2>1, OpenIsOpen DEF TableEntries
    <3>2. ~MineIn(g, p, c)
      BY <1>1, <2>1 DEF MineIn
    <3> QED BY <1>3, <3>1, <3>2, ConnOfNone
  <2>2. CASE o.state # "CLOSED"
    <3>1. MineIn(g, p, c)
      BY <1>1, <1>2, <2>2 DEF MineIn
    <3> QED BY <1>1, <1>6, <3>1, ConnOfMine
  <2> QED BY <2>1, <2>2
<1>8. ASSUME NEW r \in Peers \ {p}
      PROVE  \/ ConnIn(g, r) = ConnIn(f, r)
             \/ ConnIn(f, r).state = "TIME_WAIT" /\ ConnIn(g, r) = Closed
  <2>1. CASE \E d \in 1..Conns : d # c /\ MineIn(f, r, d)
    <3>1. PICK d \in 1..Conns : d # c /\ MineIn(f, r, d)
      BY <2>1
    <3>2. ConnIn(f, r) = f[d] /\ ConnIn(g, r) = g[d]
      BY <1>5, <1>6, <3>1, ConnOfMine
    <3> QED BY <1>1, <3>1, <3>2
  <2>2. CASE \A d \in 1..Conns : ~MineIn(f, r, d)
    BY <1>4, <1>5, <2>2, ConnOfNone
  <2>3. CASE MineIn(f, r, c) /\ \A d \in 1..Conns : d # c => ~MineIn(f, r, d)
    <3>1. f[c].state = "TIME_WAIT"
      BY <2>3 DEF MineIn
    <3>2. ConnIn(f, r) = f[c]
      BY <2>3, ConnOfMine
    <3>3. ConnIn(g, r) = Closed
      BY <1>4, <1>5, <2>3, ConnOfNone
    <3> QED BY <3>1, <3>2, <3>3
  <2> QED BY <2>1, <2>2, <2>3
<1> QED BY <1>1, <1>6, <1>7, <1>8 DEF Others
-----------------------------------------------------------------------------
(* What the peer and the network do *)

LEMMA Fields ==
  ASSUME NEW k, NEW q, NEW t, NEW e, NEW w, NEW s, Types(k, q, t, e, w, s)
  PROVE  /\ Len(q) \in Nat /\ Len(t) \in Nat /\ Len(w) \in Nat /\ Len(s) \in Nat /\ Len(e.got) \in Nat
         /\ e.una \in Nat /\ e.nxt \in Nat /\ e.rcv \in Nat
         /\ \A j \in 1..Len(q) : q[j] \in Segments /\ q[j].seq \in Nat /\ q[j].ack \in Nat /\ q[j].len \in Nat
         /\ \A j \in 1..Len(t) : t[j] \in Segments /\ t[j].seq \in Nat /\ t[j].ack \in Nat /\ t[j].len \in Nat
<1>1. Len(q) \in Nat /\ \A j \in 1..Len(q) : q[j] \in Segments
  BY LenNat DEF Types
<1>2. Len(t) \in Nat /\ \A j \in 1..Len(t) : t[j] \in Segments
  BY LenNat DEF Types
<1>3. Len(w) \in Nat /\ Len(s) \in Nat
  BY LenNat DEF Types
<1>4. e.una \in Nat /\ e.nxt \in Nat /\ e.rcv \in Nat /\ Len(e.got) \in Nat
  BY LenNat DEF Types, Remotes
<1>5. \A x \in Segments : x.seq \in Nat /\ x.ack \in Nat /\ x.len \in Nat
  BY DEF Segments
<1> QED BY <1>1, <1>2, <1>3, <1>4, <1>5

\* A peer e that becomes e2 sends x: nothing that has a number, what has una once
\* more, or what comes next, which a peer that waits does when all is acknowledged.
NumberOK(x, s, e, e2) ==
  \/ ~IsNumbered(x) /\ e2.nxt = e.nxt
  \/ IsNumbered(x) /\ e2.nxt = e.nxt /\ x.seq = e.una /\ e.una < e.nxt
  \/ /\ IsNumbered(x) /\ e2.nxt = e.nxt + 1 /\ x.seq = e.nxt /\ e.nxt <= Len(s) + 1
     /\ patient => e.una = e.nxt /\ Len(e.got) > 0

\* A segment that is not a SYN goes to the device.
LEMMA SendKeeps ==
  ASSUME patient \/ ~lossy,
         NEW k, NEW q, NEW t, NEW e, NEW w, NEW s, Types(k, q, t, e, w, s),
         SessionOK(k, q, t, e, w, s), e.state = "established",
         NEW x \in Segments, Sendable(x, s), ~IsSyn(x), NEW q2, IsAppend(q2, q, x),
         NEW e2 \in Remotes, e2.una = e.una, e2.rcv = e.rcv, e2.got = e.got,
         e2.state \in {"established", "reset"}, NumberOK(x, s, e, e2)
  PROVE  SessionOK(k, q2, t, e2, w, s)
<1>1. /\ Len(q) \in Nat /\ Len(t) \in Nat /\ Len(w) \in Nat /\ Len(s) \in Nat /\ Len(e.got) \in Nat
      /\ e.una \in Nat /\ e.nxt \in Nat /\ e.rcv \in Nat /\ x.seq \in Nat
  BY Fields DEF Segments
<1>2. /\ Len(q2) = Len(q) + 1 /\ q2[Len(q) + 1] = x
      /\ \A j \in 1..Len(q) : j \in 1..Len(q2) /\ q2[j] = q[j]
      /\ \A j \in 1..Len(q2) : \/ j = Len(q) + 1 /\ q2[j] = x
                               \/ j \in 1..Len(q) /\ q2[j] = q[j]
  BY <1>1 DEF IsAppend
<1>3. /\ QueueOK(q, s, e.nxt) /\ StateOK(k, w, s) /\ LookedOK(w, s) /\ RemoteOK(k, q, t, e, w, s)
      /\ AnswersOK(t, w, s) /\ YoungOK(k, q, t, e, w) /\ InTurn(k, q, e, w, s)
  BY DEF SessionOK
<1>4. HasSyn(q2) <=> HasSyn(q)
  BY <1>2 DEF HasSyn
<1>5. (Young(k, q2) <=> Young(k, q)) /\ (Alive(k, q2) <=> Alive(k, q))
  BY <1>4 DEF Young, Alive
<1>6. /\ e.una >= 1 /\ e.una <= e.nxt /\ e.nxt <= Len(s) + 2 /\ AckOK(e.una, w, s)
      /\ patient => e.nxt <= e.una + 1 /\ (e.nxt > 1 => Len(e.got) > 0)
  BY <1>3 DEF RemoteOK
<1>7. /\ e2.nxt \in Nat /\ e.nxt <= e2.nxt /\ e2.nxt <= Len(s) + 2
      /\ patient => e2.nxt <= e.una + 1 /\ (e2.nxt > 1 => Len(e.got) > 0)
      /\ IsNumbered(x) => /\ x.seq < e2.nxt /\ (x.seq = e.una \/ x.seq = e.nxt)
                          /\ patient => Len(e.got) > 0
      /\ e2.nxt > e.nxt => /\ e2.nxt = e.nxt + 1 /\ IsNumbered(x) /\ x.seq = e.nxt
                           /\ e.nxt <= Len(s) + 1
  <2>1. CASE ~IsNumbered(x) /\ e2.nxt = e.nxt
    BY <1>1, <1>6, <2>1
  <2>2. CASE IsNumbered(x) /\ e2.nxt = e.nxt /\ x.seq = e.una /\ e.una < e.nxt
    BY <1>1, <1>6, <2>2
  <2>3. CASE /\ IsNumbered(x) /\ e2.nxt = e.nxt + 1 /\ x.seq = e.nxt /\ e.nxt <= Len(s) + 1
             /\ patient => e.una = e.nxt /\ Len(e.got) > 0
    BY <1>1, <1>6, <2>3
  <2> QED BY <2>1, <2>2, <2>3 DEF NumberOK
<1>8. QueueOK(q2, s, e2.nxt)
  <2> SUFFICES ASSUME NEW j \in 1..Len(q2)
               PROVE  /\ Sendable(q2[j], s)
                      /\ IsNumbered(q2[j]) => q2[j].seq < e2.nxt
                      /\ IsSyn(q2[j]) => \A i \in 1..(j - 1) : IsSyn(q2[i])
    BY DEF QueueOK
  <2>1. CASE q2[j] = x
    BY <1>7, <2>1
  <2>2. CASE j \in 1..Len(q) /\ q2[j] = q[j]
    <3>1. \A i \in 1..(j - 1) : q2[i] = q[i]
      BY <1>1, <1>2, <2>2
    <3>2. /\ Sendable(q[j], s) /\ (IsNumbered(q[j]) => q[j].seq < e.nxt)
          /\ IsSyn(q[j]) => \A i \in 1..(j - 1) : IsSyn(q[i])
      BY <1>3, <2>2 DEF QueueOK
    <3>3. q[j].seq < e.nxt => q[j].seq < e2.nxt
      <4>1. q[j].seq \in Nat /\ e.nxt \in Nat /\ e2.nxt \in Nat /\ e.nxt <= e2.nxt
        BY <1>7, <2>2, Fields
      <4> QED BY <4>1
    <3> QED BY <2>2, <3>1, <3>2, <3>3
  <2> QED BY <1>2, <2>1, <2>2
<1>9. RemoteOK(k, q2, t, e2, w, s)
  <2>1. e2.state \notin {"idle", "syn_sent"} /\ e2.una >= 1 /\ e2.una <= e2.nxt
    BY <1>1, <1>6, <1>7
  <2>2. patient => e2.nxt <= e2.una + 1 /\ (e2.nxt > 1 => Len(e2.got) > 0)
    BY <1>7
  <2> QED BY <1>6, <1>7, <2>1, <2>2 DEF RemoteOK
<1>10. Young(k, q) /\ IsNumbered(x) => ~patient /\ ~lossy
  <2>1. Young(k, q) => Len(e.got) = 0
    BY <1>3 DEF YoungOK
  <2> QED BY <1>7, <2>1
<1>11. YoungOK(k, q2, t, e2, w)
  <2>1. Young(k, q) /\ ~lossy => \E i \in 1..Len(q) : IsGreeting(q[i])
    BY <1>3 DEF YoungOK
  <2>2. ASSUME Young(k, q), NEW j \in 1..Len(q2), IsNumbered(q2[j])
        PROVE  \E i \in 1..(j - 1) : IsGreeting(q2[i])
    <3>1. CASE j = Len(q) + 1 /\ q2[j] = x
      <4>1. PICK i \in 1..Len(q) : IsGreeting(q[i])
        BY <1>10, <2>1, <2>2, <3>1
      <4>2. i \in 1..(j - 1) /\ q2[i] = q[i]
        BY <1>1, <1>2, <3>1
      <4> QED BY <4>1, <4>2
    <3>2. CASE j \in 1..Len(q) /\ q2[j] = q[j]
      <4>1. \A i \in 1..(j - 1) : q2[i] = q[i]
        BY <1>1, <1>2, <3>2
      <4>2. \E i \in 1..(j - 1) : IsGreeting(q[i])
        BY <1>3, <2>2, <3>2 DEF YoungOK
      <4> QED BY <4>1, <4>2
    <3> QED BY <1>2, <3>1, <3>2
  <2>3. Young(k, q) /\ ~lossy => \E i \in 1..Len(q2) : IsGreeting(q2[i])
    BY <1>2, <2>1
  <2>4. /\ HasSyn(q) => Len(w) = 0 /\ k.state \in {"CLOSED", "SYN_RCVD"}
        /\ Young(k, q) => Len(e.got) = 0 /\ e.rcv = 1 /\ \A j \in 1..Len(t) : IsSynAck(t[j])
    BY <1>3 DEF YoungOK
  <2> QED BY <1>4, <1>5, <2>2, <2>3, <2>4 DEF YoungOK
<1>12. InTurn(k, q2, e2, w, s)
  <2> SUFFICES ASSUME ~lossy, Alive(k, q2)
               PROVE  /\ \A j \in 1..Len(q2) : IsNumbered(q2[j]) =>
                           \A i \in (Len(w) + 1)..(q2[j].seq - 1) :
                             \E h \in 1..(j - 1) : IsLine(q2[h]) /\ q2[h].seq = i
                      /\ \A i \in (Len(w) + 1)..Len(s) : i < e2.nxt =>
                           \E h \in 1..Len(q2) : IsLine(q2[h]) /\ q2[h].seq = i
    BY DEF InTurn
  <2>1. Alive(k, q)
    BY <1>5
  <2>2. \A i \in (Len(w) + 1)..Len(s) : i < e.nxt =>
           \E h \in 1..Len(q) : IsLine(q[h]) /\ q[h].seq = i
    BY <1>3, <2>1 DEF InTurn
  <2>3. ASSUME NEW j \in 1..Len(q2), IsNumbered(q2[j]), NEW i \in (Len(w) + 1)..(q2[j].seq - 1)
        PROVE  \E h \in 1..(j - 1) : IsLine(q2[h]) /\ q2[h].seq = i
    <3>1. CASE j \in 1..Len(q) /\ q2[j] = q[j]
      <4>1. \A h \in 1..(j - 1) : q2[h] = q[h]
        BY <1>1, <1>2, <3>1
      <4>2. \E h \in 1..(j - 1) : IsLine(q[h]) /\ q[h].seq = i
        BY <1>3, <2>1, <2>3, <3>1 DEF InTurn
      <4> QED BY <4>1, <4>2
    <3>2. CASE j = Len(q) + 1 /\ q2[j] = x
      <4>1. i \in (Len(w) + 1)..(x.seq - 1) /\ IsNumbered(x)
        BY <2>3, <3>2
      <4>2. e.una <= Len(w) + 1 \/ e.una = Len(s) + 2
        BY <1>6 DEF AckOK
      <4>3. x.seq # e.una
        <5>1. e.una # Len(s) + 2
          BY <1>1, <1>6, <1>7, <4>1
        <5>2. x.seq > Len(w) + 1
          BY <1>1, <4>1
        <5> QED BY <1>1, <4>2, <5>1, <5>2
      <4>4. x.seq = e.nxt /\ e.nxt <= Len(s) + 1
        BY <1>7, <4>1, <4>3
      <4>5. i \in (Len(w) + 1)..Len(s) /\ i < e.nxt
        BY <1>1, <4>1, <4>4
      <4>6. PICK h \in 1..Len(q) : IsLine(q[h]) /\ q[h].seq = i
        BY <2>2, <4>5
      <4>7. h \in 1..(j - 1) /\ q2[h] = q[h]
        BY <1>1, <1>2, <3>2
      <4> QED BY <4>6, <4>7
    <3> QED BY <1>2, <3>1, <3>2
  <2>4. ASSUME NEW i \in (Len(w) + 1)..Len(s), i < e2.nxt
        PROVE  \E h \in 1..Len(q2) : IsLine(q2[h]) /\ q2[h].seq = i
    <3>1. CASE i < e.nxt
      <4>1. PICK h \in 1..Len(q) : IsLine(q[h]) /\ q[h].seq = i
        BY <2>2, <3>1
      <4> QED BY <1>2, <4>1
    <3>2. CASE ~(i < e.nxt)
      <4>1. i = e.nxt /\ x.seq = i /\ IsNumbered(x)
        BY <1>1, <1>7, <2>4, <3>2
      <4>2. IsLine(x)
        BY <1>1, <4>1 DEF IsNumbered, Sendable
      <4>3. Len(q) + 1 \in 1..Len(q2)
        BY <1>1, <1>2
      <4> QED BY <1>2, <4>1, <4>2, <4>3
    <3> QED BY <3>1, <3>2
  <2> QED BY <2>3, <2>4
<1> QED BY <1>3, <1>8, <1>9, <1>11, <1>12 DEF SessionOK

\* The peer takes an answer, or one is lost.
LEMMA TakeKeeps ==
  ASSUME NEW k, NEW q, NEW t, NEW e, NEW w, NEW s, Types(k, q, t, e, w, s),
         SessionOK(k, q, t, e, w, s), NEW t2, IsTail(t2, t), NEW e2 \in Remotes,
         e2.nxt = e.nxt,
         \/ e2 = e
         \/ e2.state = "reset" /\ e2.una = e.una /\ e2.got = e.got
         \/ /\ e.state = "established" /\ e2.state = "established"
            /\ "rst" \notin t[1].flags
            /\ e2.una = IF t[1].ack \in (e.una + 1)..e.nxt THEN t[1].ack ELSE e.una
            /\ Len(e2.got) >= Len(e.got)
            /\ t[1].seq # e.rcv => e2.rcv = e.rcv /\ e2.got = e.got
  PROVE  SessionOK(k, q, t2, e2, w, s)
<1>1. /\ Len(q) \in Nat /\ Len(t) \in Nat /\ Len(w) \in Nat /\ Len(s) \in Nat /\ Len(e.got) \in Nat
      /\ e.una \in Nat /\ e.nxt \in Nat /\ e.rcv \in Nat /\ Len(e2.got) \in Nat /\ e2.una \in Nat
      /\ \A j \in 1..Len(t) : t[j].ack \in Nat /\ t[j].seq \in Nat
  BY Fields, LenNat DEF Remotes
<1>2. Len(t) > 0 /\ Len(t2) = Len(t) - 1 /\ \A j \in 1..Len(t2) : t2[j] = t[j + 1]
  BY DEF IsTail
<1>3. /\ QueueOK(q, s, e.nxt) /\ StateOK(k, w, s) /\ LookedOK(w, s) /\ RemoteOK(k, q, t, e, w, s)
      /\ AnswersOK(t, w, s) /\ YoungOK(k, q, t, e, w) /\ InTurn(k, q, e, w, s)
  BY DEF SessionOK
<1>10. \A j \in 1..Len(t2) : j + 1 \in 1..Len(t) /\ t2[j] = t[j + 1]
  BY <1>1, <1>2
<1>4. AnswersOK(t2, w, s)
  BY <1>3, <1>10 DEF AnswersOK
<1>5. 1 \in 1..Len(t)
  BY <1>1, <1>2
<1>6. e2.una >= e.una /\ e2.una <= e.nxt /\ AckOK(e2.una, w, s)
  <2>1. e.una <= e.nxt /\ AckOK(e.una, w, s)
    BY <1>3 DEF RemoteOK
  <2>2. "rst" \notin t[1].flags => AckOK(t[1].ack, w, s)
    BY <1>3, <1>5 DEF AnswersOK
  <2> QED BY <1>1, <1>5, <2>1, <2>2
<1>7. RemoteOK(k, q, t2, e2, w, s)
  <2>1. Len(e2.got) >= Len(e.got)
    BY <1>1
  <2>3. e.state # "idle"
    BY <1>2, <1>3 DEF RemoteOK
  <2>4. e.state = "syn_sent" => \A j \in 1..Len(t2) : IsSynAck(t2[j])
    BY <1>3, <1>10 DEF RemoteOK
  <2>5. /\ e.una <= e.nxt /\ e.nxt <= Len(s) + 2
        /\ patient => e.nxt <= e.una + 1 /\ (e.nxt > 1 => Len(e.got) > 0)
    BY <1>3 DEF RemoteOK
  <2>6. patient => e.nxt <= e2.una + 1 /\ (e.nxt > 1 => Len(e2.got) > 0)
    BY <1>1, <1>6, <2>1, <2>5
  <2>7. CASE e2.state = "reset"
    BY <1>6, <2>5, <2>6, <2>7 DEF RemoteOK
  <2>8. CASE e2.state = e.state /\ e2 = e
    BY <1>3, <1>6, <2>3, <2>4, <2>8 DEF RemoteOK
  <2>9. CASE e.state = "established" /\ e2.state = "established"
    <3>1. e2.una >= 1
      BY <1>1, <1>3, <1>6, <2>9 DEF RemoteOK
    <3> QED BY <1>6, <2>5, <2>6, <2>9, <3>1 DEF RemoteOK
  <2> QED BY <2>7, <2>8, <2>9
<1>8. YoungOK(k, q, t2, e2, w)
  <2>1. HasSyn(q) => Len(w) = 0 /\ k.state \in {"CLOSED", "SYN_RCVD"}
    BY <1>3 DEF YoungOK
  <2>2. ASSUME Young(k, q)
        PROVE  /\ Len(e.got) = 0 /\ (e.state = "established" => e.rcv = 1)
               /\ \A j \in 1..Len(t) : IsSynAck(t[j])
               /\ \A j \in 1..Len(q) : IsNumbered(q[j]) => \E i \in 1..(j - 1) : IsGreeting(q[i])
    BY <1>3, <2>2 DEF YoungOK
  <2>3. Young(k, q) => t[1].seq = 0
    BY <1>5, <2>2 DEF IsSynAck
  <2>4. Young(k, q) /\ e2.state = "established" => e.state = "established" /\ e2.rcv = 1
    BY <2>2, <2>3
  <2>5. Young(k, q) => Len(e2.got) = 0
    BY <2>2, <2>3
  <2>6. Young(k, q) => \A j \in 1..Len(t2) : IsSynAck(t2[j])
    BY <1>10, <2>2
  <2>7. Young(k, q) /\ ~lossy /\ e2.state = "established" => \E i \in 1..Len(q) : IsGreeting(q[i])
    BY <1>3, <2>4 DEF YoungOK
  <2> QED BY <2>1, <2>2, <2>4, <2>5, <2>6, <2>7 DEF YoungOK
<1>9. InTurn(k, q, e2, w, s)
  BY <1>3 DEF InTurn
<1> QED BY <1>3, <1>4, <1>7, <1>8, <1>9 DEF SessionOK

\* The device flushes what it sent last.
LEMMA FrontKeeps ==
  ASSUME NEW k, NEW q, NEW t, NEW e, NEW w, NEW s, t \in Seq(Segments),
         SessionOK(k, q, t, e, w, s), NEW t2, IsFront(t2, t)
  PROVE  SessionOK(k, q, t2, e, w, s)
<1>1. /\ QueueOK(q, s, e.nxt) /\ StateOK(k, w, s) /\ LookedOK(w, s) /\ RemoteOK(k, q, t, e, w, s)
      /\ AnswersOK(t, w, s) /\ YoungOK(k, q, t, e, w) /\ InTurn(k, q, e, w, s)
  BY DEF SessionOK
<1>2. /\ \A j \in 1..Len(t2) : j \in 1..Len(t) /\ t2[j] = t[j]
      /\ Len(t) = 0 => Len(t2) = 0
  BY LenNat DEF IsFront
<1>3. AnswersOK(t2, w, s)
  BY <1>1, <1>2 DEF AnswersOK
<1>4. RemoteOK(k, q, t2, e, w, s)
  BY <1>1, <1>2 DEF RemoteOK
<1>5. YoungOK(k, q, t2, e, w)
  BY <1>1, <1>2 DEF YoungOK
<1> QED BY <1>1, <1>3, <1>4, <1>5 DEF SessionOK

\* A SYN goes to the device, for the first time or once more.
LEMMA SynKeeps ==
  ASSUME NEW k, NEW q, NEW t, NEW e, NEW w, NEW s, Types(k, q, t, e, w, s),
         SessionOK(k, q, t, e, w, s), e.state \in {"idle", "syn_sent"},
         NEW x, IsSyn(x), x.seq = 0, x.ack = 0, x.len = 0, NEW q2, IsAppend(q2, q, x),
         NEW e2 \in Remotes, e2.state = "syn_sent", e2.una = 0, e2.nxt = 1, e2.rcv = e.rcv,
         e2.got = e.got, e2.fin = e.fin
  PROVE  SessionOK(k, q2, t, e2, w, s)
<1>1. /\ Len(q) \in Nat /\ Len(t) \in Nat /\ Len(w) \in Nat /\ Len(s) \in Nat /\ Len(e.got) \in Nat
      /\ e.rcv \in Nat
  BY Fields
<1>2. /\ Len(q2) = Len(q) + 1 /\ q2[Len(q) + 1] = x /\ \A j \in 1..Len(q) : q2[j] = q[j]
  BY DEF IsAppend
<1>3. /\ QueueOK(q, s, e.nxt) /\ StateOK(k, w, s) /\ LookedOK(w, s) /\ RemoteOK(k, q, t, e, w, s)
      /\ AnswersOK(t, w, s) /\ YoungOK(k, q, t, e, w)
  BY DEF SessionOK
<1>4. /\ \A j \in 1..Len(q) : IsSyn(q[j])
      /\ Len(w) = 0 /\ Len(e.got) = 0 /\ e.rcv = 0 /\ ~e.fin /\ k.state \in {"CLOSED", "SYN_RCVD"}
      /\ e.state = "idle" => Len(t) = 0
  BY <1>1, <1>3 DEF RemoteOK
<1>5. \A j \in 1..Len(q2) : IsSyn(q2[j]) /\ Sendable(q2[j], s) /\ ~IsNumbered(q2[j])
  <2>1. Sendable(x, s)
    BY DEF Sendable, IsSyn, IsLine, IsFin
  <2>2. \A j \in 1..Len(q) : Sendable(q[j], s)
    BY <1>3 DEF QueueOK
  <2>3. \A j \in 1..Len(q2) : IsSyn(q2[j]) /\ Sendable(q2[j], s)
    BY <1>1, <1>2, <1>4, <2>1, <2>2
  <2>4. \A j \in 1..Len(q2) : q2[j].len = 0 /\ "fin" \notin q2[j].flags
    BY <2>3 DEF Sendable, IsSyn
  <2> QED BY <2>3, <2>4 DEF IsNumbered, IsLine, IsFin
<1>6. QueueOK(q2, s, e2.nxt)
  BY <1>1, <1>2, <1>5 DEF QueueOK
<1>10. \A j \in 1..Len(t) : IsSynAck(t[j])
  BY <1>1, <1>3, <1>4 DEF RemoteOK
<1>7. RemoteOK(k, q2, t, e2, w, s)
  BY <1>1, <1>4, <1>5, <1>10 DEF RemoteOK, AckOK
<1>8. YoungOK(k, q2, t, e2, w)
  <2>3. \A j \in 1..Len(t) : IsSynAck(t[j])
    BY <1>1, <1>3, <1>4 DEF RemoteOK
  <2> QED BY <1>4, <1>5, <2>3 DEF YoungOK
<1>9. InTurn(k, q2, e2, w, s)
  BY <1>1, <1>4, <1>5 DEF InTurn
<1> QED BY <1>3, <1>6, <1>7, <1>8, <1>9 DEF SessionOK

\* The peer takes the answer to its SYN and acknowledges it.
LEMMA GreetKeeps ==
  ASSUME NEW k, NEW q, NEW t, NEW e, NEW w, NEW s, Types(k, q, t, e, w, s),
         SessionOK(k, q, t, e, w, s), e.state = "syn_sent",
         NEW t2, IsTail(t2, t),
         NEW x, IsGreeting(x), NEW q2, IsAppend(q2, q, x),
         NEW e2 \in Remotes, e2.state = "established", e2.una = 1, e2.nxt = e.nxt, e2.rcv = 1,
         e2.got = e.got
  PROVE  SessionOK(k, q2, t2, e2, w, s)
<1>1. /\ Len(q) \in Nat /\ Len(t) \in Nat /\ Len(w) \in Nat /\ Len(s) \in Nat /\ Len(e.got) \in Nat
  BY Fields
<1>2. /\ Len(q2) = Len(q) + 1 /\ q2[Len(q) + 1] = x /\ \A j \in 1..Len(q) : q2[j] = q[j]
  BY DEF IsAppend
<1>3. /\ QueueOK(q, s, e.nxt) /\ StateOK(k, w, s) /\ LookedOK(w, s) /\ RemoteOK(k, q, t, e, w, s)
      /\ AnswersOK(t, w, s) /\ YoungOK(k, q, t, e, w)
  BY DEF SessionOK
<1>4. /\ \A j \in 1..Len(q) : IsSyn(q[j])
      /\ \A j \in 1..Len(t) : IsSynAck(t[j])
      /\ Len(w) = 0 /\ Len(e.got) = 0 /\ e.nxt = 1 /\ k.state \in {"CLOSED", "SYN_RCVD"}
  BY <1>3 DEF RemoteOK
<1>5. Len(t2) = Len(t) - 1 /\ \A j \in 1..Len(t2) : t2[j] = t[j + 1]
  BY DEF IsTail
<1>6. \A j \in 1..Len(t2) : IsSynAck(t2[j])
  <2>1. \A j \in 1..Len(t2) : j + 1 \in 1..Len(t) /\ t2[j] = t[j + 1]
    BY <1>1, <1>5
  <2> QED BY <1>4, <2>1
<1>7. ~IsSyn(x) /\ Sendable(x, s) /\ ~IsNumbered(x)
  BY DEF IsGreeting, IsSyn, Sendable, IsNumbered, IsLine, IsFin
<1>8. \A j \in 1..Len(q) : Sendable(q[j], s) /\ ~IsNumbered(q[j])
  <2>1. \A j \in 1..Len(q) : Sendable(q[j], s)
    BY <1>3 DEF QueueOK
  <2>2. \A j \in 1..Len(q) : q[j].len = 0 /\ "fin" \notin q[j].flags
    BY <1>4, <2>1 DEF Sendable, IsSyn
  <2> QED BY <2>1, <2>2 DEF IsNumbered, IsLine, IsFin
<1>9. \A j \in 1..Len(q2) : Sendable(q2[j], s) /\ ~IsNumbered(q2[j])
  BY <1>1, <1>2, <1>7, <1>8
<1>10. QueueOK(q2, s, e2.nxt)
  <2>1. ASSUME NEW j \in 1..Len(q2), IsSyn(q2[j])
        PROVE  \A i \in 1..(j - 1) : IsSyn(q2[i])
    <3>1. j # Len(q) + 1
      BY <1>2, <1>7, <2>1
    <3>2. \A i \in 1..(j - 1) : i \in 1..Len(q) /\ q2[i] = q[i]
      BY <1>1, <1>2, <3>1
    <3> QED BY <1>4, <3>2
  <2> QED BY <1>9, <2>1 DEF QueueOK
<1>11. RemoteOK(k, q2, t2, e2, w, s)
  BY <1>1, <1>4 DEF RemoteOK, AckOK
<1>12. AnswersOK(t2, w, s)
  BY <1>1, <1>4, <1>6 DEF AnswersOK, AckOK, IsSynAck
<1>13. YoungOK(k, q2, t2, e2, w)
  <2>1. \E i \in 1..Len(q2) : IsGreeting(q2[i])
    BY <1>1, <1>2
  <2> QED BY <1>4, <1>6, <1>9, <2>1 DEF YoungOK
<1>14. InTurn(k, q2, e2, w, s)
  BY <1>1, <1>4, <1>9 DEF InTurn
<1> QED BY <1>3, <1>10, <1>11, <1>12, <1>13, <1>14 DEF SessionOK

\* A segment to the device is lost, whose peer waits for its answers.
LEMMA LossKeeps ==
  ASSUME patient, lossy,
         NEW k, NEW q, NEW t, NEW e, NEW w, NEW s, Types(k, q, t, e, w, s),
         SessionOK(k, q, t, e, w, s), NEW q2, IsTail(q2, q)
  PROVE  SessionOK(k, q2, t, e, w, s)
<1>1. Len(q) \in Nat /\ Len(q2) = Len(q) - 1 /\ \A j \in 1..Len(q2) : q2[j] = q[j + 1]
  BY Fields DEF IsTail
<1>2. \A j \in 1..Len(q2) : j + 1 \in 1..Len(q) /\ q2[j] = q[j + 1]
  BY <1>1
<1>3. /\ QueueOK(q, s, e.nxt) /\ StateOK(k, w, s) /\ LookedOK(w, s) /\ RemoteOK(k, q, t, e, w, s)
      /\ AnswersOK(t, w, s) /\ YoungOK(k, q, t, e, w)
  BY DEF SessionOK
<1>4. QueueOK(q2, s, e.nxt)
  <2>1. ASSUME NEW j \in 1..Len(q2), IsSyn(q2[j])
        PROVE  \A i \in 1..(j - 1) : IsSyn(q2[i])
    <3>1. \A i \in 1..((j + 1) - 1) : IsSyn(q[i])
      BY <1>2, <1>3, <2>1 DEF QueueOK
    <3>2. \A i \in 1..(j - 1) : i \in 1..Len(q2) /\ i + 1 \in 1..((j + 1) - 1)
      BY <1>1
    <3> QED BY <1>2, <3>1, <3>2
  <2> QED BY <1>2, <1>3, <2>1 DEF QueueOK
<1>5. RemoteOK(k, q2, t, e, w, s)
  BY <1>1, <1>2, <1>3 DEF RemoteOK
<1>6. Young(k, q2) => Young(k, q)
  BY <1>2 DEF Young, HasSyn
<1>7. ASSUME Young(k, q), NEW j \in 1..Len(q)
      PROVE  ~IsNumbered(q[j])
  <2>1. Len(e.got) = 0 /\ ~(e.nxt > 1)
    BY <1>3, <1>7, Fields DEF YoungOK, RemoteOK
  <2>2. IsNumbered(q[j]) => q[j].seq < e.nxt /\ q[j].seq >= 1
    BY <1>3, <1>7, Fields DEF QueueOK, Sendable, IsNumbered
  <2> QED BY <2>1, <2>2, <1>7, Fields
<1>8. YoungOK(k, q2, t, e, w)
  BY <1>2, <1>3, <1>6, <1>7 DEF YoungOK, HasSyn
<1> QED BY <1>3, <1>4, <1>5, <1>8 DEF SessionOK, InTurn

\* The entry of a connection in TIME_WAIT is given to another peer.
LEMMA EvictKeeps ==
  ASSUME NEW k, NEW q, NEW t, NEW e, NEW w, NEW s,
         SessionOK(k, q, t, e, w, s), k.state = "TIME_WAIT"
  PROVE  SessionOK(Closed, q, t, e, w, s)
<1>1. Closed.state = "CLOSED"
  BY DEF Closed
<1>2. Young(Closed, q) => Young(k, q)
  BY <1>1 DEF Young
<1>3. RemoteOK(Closed, q, t, e, w, s)
  BY <1>1 DEF RemoteOK, SessionOK
<1>4. YoungOK(Closed, q, t, e, w)
  BY <1>1, <1>2 DEF YoungOK, SessionOK
<1>5. InTurn(Closed, q, e, w, s)
  BY <1>1, <1>2 DEF InTurn, SessionOK, Alive
<1>6. StateOK(Closed, w, s)
  BY <1>1 DEF StateOK
<1> QED BY <1>3, <1>4, <1>5, <1>6 DEF SessionOK

-----------------------------------------------------------------------------
(* What uip_process does, as far as a session's invariant is concerned *)

\* The number of the segment to be handled is one the connection has seen or is
\* waiting for, and before it is established there is none.
LEMMA HeadInTurn ==
  ASSUME patient \/ ~lossy,
         NEW k, NEW q, NEW t, NEW e, NEW w, NEW s, Types(k, q, t, e, w, s),
         SessionOK(k, q, t, e, w, s), Len(q) > 0, Alive(k, q), IsNumbered(q[1])
  PROVE  q[1].seq <= Len(w) + 1 /\ ~Young(k, q)
<1>1. /\ Len(q) \in Nat /\ Len(w) \in Nat /\ Len(s) \in Nat /\ 1 \in 1..Len(q) /\ q[1].seq \in Nat
      /\ e.una \in Nat /\ e.nxt \in Nat
  BY Fields
<1>2. /\ QueueOK(q, s, e.nxt) /\ RemoteOK(k, q, t, e, w, s) /\ YoungOK(k, q, t, e, w)
      /\ InTurn(k, q, e, w, s)
  BY DEF SessionOK
<1>3. ~Young(k, q)
  BY <1>1, <1>2 DEF YoungOK
<1>4. q[1].seq < e.nxt /\ q[1].seq <= Len(s) + 1
  BY <1>1, <1>2 DEF QueueOK, Sendable, IsNumbered
<1>5. CASE patient
  BY <1>1, <1>2, <1>3, <1>4, <1>5 DEF RemoteOK, AckOK
<1>6. CASE ~lossy
  <2>1. \A i \in (Len(w) + 1)..(q[1].seq - 1) : \E h \in 1..(1 - 1) : IsLine(q[h]) /\ q[h].seq = i
    BY <1>1, <1>2, <1>6 DEF InTurn
  <2>2. ~(Len(w) + 1 \in (Len(w) + 1)..(q[1].seq - 1))
    BY <2>1
  <2> QED BY <1>1, <1>3, <2>2
<1> QED BY <1>3, <1>5, <1>6

\* What becomes of a session when the segment x is handled: the connection k is k2
\* then, and the application has looked at w2.
Handled(k, x, w, s, k2, w2) ==
  /\ StateOK(k2, w2, s)
  /\ \/ w2 = w
     \/ /\ k.state = "ESTABLISHED" /\ IsLine(x) /\ x.seq = Len(w) + 1
        /\ Len(w2) = Len(w) + 1 /\ w2[Len(w) + 1] = s[Len(w) + 1]
        /\ \A i \in 1..Len(w) : w2[i] = w[i]
  /\ k2.state = "SYN_RCVD" => (k.state = "SYN_RCVD" /\ ~IsGreeting(x)) \/ IsSyn(x)
  /\ k2.state = "ESTABLISHED" =>
       /\ k.state \in {"SYN_RCVD", "ESTABLISHED"}
       /\ IsLine(x) /\ w2 = w => x.seq <= Len(w)
  /\ IsSyn(x) /\ k.state \in {"CLOSED", "SYN_RCVD"} => k2.state \in {"CLOSED", "SYN_RCVD"}

\* An answer to it.
Replies(y, x, w2, s, k2) ==
  /\ "rst" \notin y.flags => AckOK(y.ack, w2, s)
  /\ IsSyn(x) \/ k2.state = "SYN_RCVD" => IsSynAck(y)

LEMMA HandledKeeps ==
  ASSUME patient \/ ~lossy,
         NEW k, NEW q, NEW t, NEW e, NEW w, NEW s, Types(k, q, t, e, w, s),
         SessionOK(k, q, t, e, w, s), NEW q2, IsTail(q2, q),
         NEW k2, NEW w2 \in Seq(Words), Handled(k, q[1], w, s, k2, w2),
         NEW t2, t2 = t \/ \E y : IsAppend(t2, t, y) /\ Replies(y, q[1], w2, s, k2)
  PROVE  SessionOK(k2, q2, t2, e, w2, s)
<1> DEFINE x == q[1]
<1>1. /\ Len(q) \in Nat /\ Len(t) \in Nat /\ Len(w) \in Nat /\ Len(s) \in Nat /\ Len(w2) \in Nat
      /\ e.una \in Nat /\ e.nxt \in Nat /\ e.rcv \in Nat
      /\ \A j \in 1..Len(q) : q[j].seq \in Nat
      /\ Len(q) > 0 /\ 1 \in 1..Len(q)
      /\ Len(q2) = Len(q) - 1 /\ \A j \in 1..Len(q2) : q2[j] = q[j + 1]
  BY Fields, LenNat DEF IsTail
<1>2. \A j \in 1..Len(q2) : j + 1 \in 1..Len(q) /\ q2[j] = q[j + 1]
  BY <1>1
<1>3. /\ QueueOK(q, s, e.nxt) /\ StateOK(k, w, s) /\ LookedOK(w, s) /\ RemoteOK(k, q, t, e, w, s)
      /\ AnswersOK(t, w, s) /\ YoungOK(k, q, t, e, w) /\ InTurn(k, q, e, w, s)
  BY DEF SessionOK
<1>4. /\ IsSyn(x) => x.seq = 0 /\ x.ack = 0 /\ x.len = 0
      /\ IsLine(x) => x.flags = {"ack"} /\ x.seq \in 1..Len(s)
      /\ IsSyn(x) => ~IsNumbered(x) /\ ~IsGreeting(x)
  BY <1>1, <1>3 DEF QueueOK, Sendable, IsSyn, IsNumbered, IsLine, IsFin, IsGreeting
<1>5. HasSyn(q2) => IsSyn(x) /\ HasSyn(q)
  <2>1. ASSUME NEW j \in 1..Len(q2), IsSyn(q2[j])
        PROVE  IsSyn(x)
    <3>1. \A i \in 1..((j + 1) - 1) : IsSyn(q[i])
      BY <1>2, <1>3, <2>1 DEF QueueOK
    <3> QED BY <3>1
  <2> QED BY <1>1, <2>1 DEF HasSyn
<1>6. IsSyn(x) => HasSyn(q) /\ k.state \in {"CLOSED", "SYN_RCVD"} /\ k2.state \in {"CLOSED", "SYN_RCVD"} /\ w2 = w
  BY <1>1, <1>3 DEF HasSyn, YoungOK, Handled
<1>7. Young(k2, q2) => Young(k, q)
  BY <1>5, <1>6 DEF Young, Handled
<1>8. Alive(k2, q2) => Alive(k, q)
  BY <1>7 DEF Alive, Young, Handled
<1>9. /\ Len(w2) \in {Len(w), Len(w) + 1} /\ \A i \in 1..Len(w) : w2[i] = w[i]
      /\ Len(w2) = Len(w) + 1 =>
           k.state = "ESTABLISHED" /\ IsLine(x) /\ x.seq = Len(w) + 1 /\ w2[Len(w) + 1] = s[Len(w) + 1]
  BY <1>1 DEF Handled
<1>10. LookedOK(w2, s)
  BY <1>1, <1>3, <1>4, <1>9 DEF LookedOK
<1>11. \A a \in Nat : AckOK(a, w, s) => AckOK(a, w2, s)
  BY <1>1, <1>4, <1>9 DEF AckOK
<1>12. QueueOK(q2, s, e.nxt)
  <2>1. ASSUME NEW j \in 1..Len(q2), IsSyn(q2[j])
        PROVE  \A i \in 1..(j - 1) : IsSyn(q2[i])
    <3>1. \A i \in 1..((j + 1) - 1) : IsSyn(q[i])
      BY <1>2, <1>3, <2>1 DEF QueueOK
    <3>2. \A i \in 1..(j - 1) : i \in 1..Len(q2) /\ i + 1 \in 1..((j + 1) - 1)
      BY <1>1
    <3> QED BY <1>2, <3>1, <3>2
  <2> QED BY <1>2, <1>3, <2>1 DEF QueueOK
<1>13. AnswersOK(t2, w2, s)
  <2>1. \A j \in 1..Len(t) : "rst" \notin t[j].flags => AckOK(t[j].ack, w2, s)
    BY <1>3, <1>11, Fields DEF AnswersOK
  <2>2. ASSUME NEW y, IsAppend(t2, t, y), Replies(y, x, w2, s, k2)
        PROVE  AnswersOK(t2, w2, s)
    <3>1. Len(t2) = Len(t) + 1 /\ t2[Len(t) + 1] = y /\ \A j \in 1..Len(t) : t2[j] = t[j]
      BY <1>1, <2>2 DEF IsAppend
    <3>2. "rst" \notin y.flags => AckOK(y.ack, w2, s)
      BY <2>2 DEF Replies
    <3>3. \A j \in 1..Len(t2) : j = Len(t) + 1 \/ j \in 1..Len(t)
      BY <1>1, <3>1
    <3> QED BY <2>1, <3>1, <3>2, <3>3 DEF AnswersOK
  <2> QED BY <2>1, <2>2 DEF AnswersOK
<1>14. IsSyn(x) \/ k2.state = "SYN_RCVD" =>
         ((\A j \in 1..Len(t) : IsSynAck(t[j])) => \A j \in 1..Len(t2) : IsSynAck(t2[j]))
  <2>1. ASSUME NEW y, IsAppend(t2, t, y), Replies(y, x, w2, s, k2),
               IsSyn(x) \/ k2.state = "SYN_RCVD", \A j \in 1..Len(t) : IsSynAck(t[j])
        PROVE  \A j \in 1..Len(t2) : IsSynAck(t2[j])
    <3>1. Len(t2) = Len(t) + 1 /\ t2[Len(t) + 1] = y /\ \A j \in 1..Len(t) : t2[j] = t[j]
      BY <1>1, <2>1 DEF IsAppend
    <3> QED BY <1>1, <2>1, <3>1 DEF Replies
  <2> QED BY <2>1
<1>15. RemoteOK(k2, q2, t2, e, w2, s)
  <2>1. e.state # "idle"
    BY <1>1, <1>3 DEF RemoteOK
  <2>2. e.state = "syn_sent" =>
          /\ IsSyn(x) /\ k2.state \in {"CLOSED", "SYN_RCVD"} /\ w2 = w
          /\ \A j \in 1..Len(q2) : IsSyn(q2[j])
          /\ \A j \in 1..Len(t2) : IsSynAck(t2[j])
    <3>1. e.state = "syn_sent" => IsSyn(x) /\ \A j \in 1..Len(t) : IsSynAck(t[j])
      BY <1>1, <1>3 DEF RemoteOK
    <3>2. e.state = "syn_sent" => \A j \in 1..Len(q2) : IsSyn(q2[j])
      BY <1>2, <1>3 DEF RemoteOK
    <3> QED BY <1>6, <1>14, <3>1, <3>2
  <2>3. AckOK(e.una, w2, s)
    BY <1>1, <1>3, <1>11 DEF RemoteOK
  <2> QED BY <1>3, <2>1, <2>2, <2>3 DEF RemoteOK
<1>16. YoungOK(k2, q2, t2, e, w2)
  <2>1. HasSyn(q2) => Len(w2) = 0 /\ k2.state \in {"CLOSED", "SYN_RCVD"}
    BY <1>3, <1>5, <1>6 DEF YoungOK
  <2>2. Young(k2, q2) =>
          /\ Len(e.got) = 0 /\ (e.state = "established" => e.rcv = 1)
          /\ \A j \in 1..Len(t) : IsSynAck(t[j])
          /\ \A j \in 1..Len(q) : IsNumbered(q[j]) => \E i \in 1..(j - 1) : IsGreeting(q[i])
          /\ ~lossy /\ e.state = "established" => \E i \in 1..Len(q) : IsGreeting(q[i])
    BY <1>3, <1>7 DEF YoungOK
  <2>3. Young(k2, q2) => IsSyn(x) \/ k2.state = "SYN_RCVD"
    BY <1>5 DEF Young
  <2>4. Young(k2, q2) => ~IsGreeting(x)
    BY <1>4, <2>3 DEF Handled
  <2>5. Young(k2, q2) =>
          \A j \in 1..Len(q2) : IsNumbered(q2[j]) => \E i \in 1..(j - 1) : IsGreeting(q2[i])
    <3>1. ASSUME Young(k2, q2), NEW j \in 1..Len(q2), IsNumbered(q2[j])
          PROVE  \E i \in 1..(j - 1) : IsGreeting(q2[i])
      <4>1. PICK i \in 1..((j + 1) - 1) : IsGreeting(q[i])
        BY <1>2, <2>2, <3>1
      <4>2. i # 1
        BY <2>4, <3>1, <4>1
      <4>3. i - 1 \in 1..(j - 1) /\ i - 1 \in 1..Len(q2) /\ (i - 1) + 1 = i
        BY <1>1, <4>2
      <4>4. q2[i - 1] = q[i]
        BY <1>1, <4>3
      <4> QED BY <4>1, <4>3, <4>4
    <3> QED BY <3>1
  <2>6. Young(k2, q2) /\ ~lossy /\ e.state = "established" => \E i \in 1..Len(q2) : IsGreeting(q2[i])
    <3>1. ASSUME Young(k2, q2), ~lossy, e.state = "established"
          PROVE  \E i \in 1..Len(q2) : IsGreeting(q2[i])
      <4>1. PICK i \in 1..Len(q) : IsGreeting(q[i])
        BY <2>2, <3>1
      <4>2. i # 1
        BY <2>4, <3>1, <4>1
      <4>3. i - 1 \in 1..Len(q2) /\ (i - 1) + 1 = i
        BY <1>1, <4>2
      <4>4. q2[i - 1] = q[i]
        BY <1>1, <4>3
      <4> QED BY <4>1, <4>3, <4>4
    <3> QED BY <3>1
  <2> QED BY <1>14, <2>1, <2>2, <2>3, <2>5, <2>6 DEF YoungOK
<1>17. InTurn(k2, q2, e, w2, s)
  <2> SUFFICES ASSUME ~lossy, Alive(k2, q2)
               PROVE  /\ \A j \in 1..Len(q2) : IsNumbered(q2[j]) =>
                           \A i \in (Len(w2) + 1)..(q2[j].seq - 1) :
                             \E h \in 1..(j - 1) : IsLine(q2[h]) /\ q2[h].seq = i
                      /\ \A i \in (Len(w2) + 1)..Len(s) : i < e.nxt =>
                           \E h \in 1..Len(q2) : IsLine(q2[h]) /\ q2[h].seq = i
    BY DEF InTurn
  <2>1. /\ \A j \in 1..Len(q) : IsNumbered(q[j]) =>
             \A i \in (Len(w) + 1)..(q[j].seq - 1) :
               \E h \in 1..(j - 1) : IsLine(q[h]) /\ q[h].seq = i
        /\ \A i \in (Len(w) + 1)..Len(s) : i < e.nxt =>
             \E h \in 1..Len(q) : IsLine(q[h]) /\ q[h].seq = i
    BY <1>3, <1>8 DEF InTurn
  <2>2. IsLine(x) => x.seq <= Len(w2)
    <3>1. IsLine(x) => x.seq <= Len(w) + 1 /\ ~Young(k, q)
      BY <1>1, <1>8, HeadInTurn DEF IsNumbered
    <3>2. IsLine(x) => k2.state = "ESTABLISHED"
      BY <1>7, <3>1 DEF Alive
    <3> QED BY <1>1, <1>4, <3>1, <3>2 DEF Handled
  <2>3. ASSUME NEW j \in 1..Len(q2), IsNumbered(q2[j]), NEW i \in (Len(w2) + 1)..(q2[j].seq - 1)
        PROVE  \E h \in 1..(j - 1) : IsLine(q2[h]) /\ q2[h].seq = i
    <3>1. i \in (Len(w) + 1)..(q[j + 1].seq - 1) /\ j + 1 \in 1..Len(q) /\ IsNumbered(q[j + 1])
      BY <1>1, <1>2, <1>9, <2>3
    <3>2. PICK h \in 1..((j + 1) - 1) : IsLine(q[h]) /\ q[h].seq = i
      BY <2>1, <3>1
    <3>3. h # 1
      BY <1>1, <2>2, <2>3, <3>2
    <3>4. h - 1 \in 1..(j - 1) /\ h - 1 \in 1..Len(q2) /\ (h - 1) + 1 = h
      BY <1>1, <3>3
    <3>5. q2[h - 1] = q[h]
      BY <1>1, <3>4
    <3> QED BY <3>2, <3>4, <3>5
  <2>4. ASSUME NEW i \in (Len(w2) + 1)..Len(s), i < e.nxt
        PROVE  \E h \in 1..Len(q2) : IsLine(q2[h]) /\ q2[h].seq = i
    <3>1. i \in (Len(w) + 1)..Len(s)
      BY <1>1, <1>9
    <3>2. PICK h \in 1..Len(q) : IsLine(q[h]) /\ q[h].seq = i
      BY <2>1, <2>4, <3>1
    <3>3. h # 1
      BY <1>1, <2>2, <2>4, <3>2
    <3>4. h - 1 \in 1..Len(q2) /\ (h - 1) + 1 = h
      BY <1>1, <3>3
    <3>5. q2[h - 1] = q[h]
      BY <1>1, <3>4
    <3> QED BY <3>2, <3>4, <3>5
  <2> QED BY <2>3, <2>4
<1>18. StateOK(k2, w2, s)
  BY DEF Handled
<1> QED BY <1>10, <1>12, <1>13, <1>15, <1>16, <1>17, <1>18 DEF SessionOK

-----------------------------------------------------------------------------
(* uip_process, case by case *)

Entry(state, k, snd, len, rcv) ==
  [state |-> state, peer |-> k.peer, sndNxt |-> snd, len |-> len, rcvNxt |-> rcv]

\* snd_nxt once the acknowledgement in x has been looked at.
SndNxt(k, x) == IF Acked(k, x) THEN k.sndNxt + k.len ELSE k.sndNxt

LEMMA EntryIs ==
  ASSUME NEW k \in OpenEntries
  PROVE  /\ k = Entry(k.state, k, k.sndNxt, k.len, k.rcvNxt)
         /\ k.state \in OpenStates /\ k.peer \in Peers
         /\ k.sndNxt \in Nat /\ k.len \in Nat /\ k.rcvNxt \in Nat
BY DEF OpenEntries, Entry

LEMMA EntryType ==
  ASSUME NEW k \in OpenEntries, NEW state \in OpenStates, NEW snd \in Nat, NEW len \in Nat, NEW rcv \in Nat
  PROVE  Entry(state, k, snd, len, rcv) \in OpenEntries
BY DEF OpenEntries, Entry

LEMMA SegmentType ==
  ASSUME NEW snd \in Nat, NEW rcv \in Nat, NEW len \in Nat,
         NEW f \in {{"syn", "ack"}, {"ack"}, {"fin", "ack"}, {"rst", "ack"}, {"syn"}},
         NEW text \in Words \cup {"none", "ok", "prompt"}
  PROVE  Segment(f, snd, rcv, len, text) \in Segments
BY DEF Segment, Segments, Texts

\* The connection as Found goes on with it.
LEMMA AckedEntry ==
  ASSUME NEW k \in OpenEntries, NEW x \in Segments
  PROVE  /\ SndNxt(k, x) \in Nat
         /\ (IF Acked(k, x) THEN [k EXCEPT !.sndNxt = @ + k.len] ELSE k)
              = Entry(k.state, k, SndNxt(k, x), k.len, k.rcvNxt)
         /\ ~Acked(k, x) => SndNxt(k, x) = k.sndNxt
         /\ Acked(k, x) => "ack" \in x.flags /\ k.len # 0 /\ x.ack = SndNxt(k, x)
<1>1. k.sndNxt \in Nat /\ k.len \in Nat
  BY EntryIs
<1>2. SndNxt(k, x) \in Nat
  BY <1>1 DEF SndNxt
<1>3. Acked(k, x) => [k EXCEPT !.sndNxt = @ + k.len] = Entry(k.state, k, SndNxt(k, x), k.len, k.rcvNxt)
  BY DEF OpenEntries, Entry, SndNxt
<1>4. ~Acked(k, x) => k = Entry(k.state, k, SndNxt(k, x), k.len, k.rcvNxt)
  BY EntryIs DEF SndNxt
<1> QED BY <1>2, <1>3, <1>4 DEF SndNxt, Acked

LEMMA FoundReset ==
  ASSUME NEW k, NEW x, "rst" \in x.flags
  PROVE  Found(k, x) = Outcome(Closed, <<>>, <<>>)
BY DEF Found, Drop

LEMMA FoundUnexpected ==
  ASSUME NEW k, NEW x, "rst" \notin x.flags, ~Expected(k, x)
  PROVE  Found(k, x) = Outcome(k, <<Segment({"ack"}, k.sndNxt, k.rcvNxt, 0, "none")>>, <<>>)
BY DEF Found, SendAck, Control

LEMMA FoundSynRcvd ==
  ASSUME NEW k \in OpenEntries, k.state = "SYN_RCVD", NEW x \in Segments,
         "rst" \notin x.flags, x.len = 0
  PROVE  /\ ~Acked(k, x) => Found(k, x) = Outcome(k, <<>>, <<>>)
         /\ Acked(k, x) =>
              Found(k, x) =
                Outcome(Entry("ESTABLISHED", k, SndNxt(k, x), 2, k.rcvNxt),
                        <<Segment({"ack"}, SndNxt(k, x), k.rcvNxt, 2, "prompt")>>, <<>>)
<1> DEFINE k1 == IF Acked(k, x) THEN [k EXCEPT !.sndNxt = @ + k.len] ELSE k
<1>1. k1 = Entry(k.state, k, SndNxt(k, x), k.len, k.rcvNxt) /\ (~Acked(k, x) => k1 = k)
  BY AckedEntry
<1>2. Found(k, x) = IF Acked(k, x) THEN Connect(k1, x) ELSE Drop(k1)
  BY DEF Found, Expected
<1> HIDE DEF k1
<1>3. k.rcvNxt \in Nat
  BY EntryIs
<1>4. Connect(k1, x) =
        Outcome(Entry("ESTABLISHED", k, SndNxt(k, x), 2, k.rcvNxt),
                <<Segment({"ack"}, SndNxt(k, x), k.rcvNxt, 2, "prompt")>>, <<>>)
  <2> DEFINE k2 == [k1 EXCEPT !.state = "ESTABLISHED", !.len = 0, !.rcvNxt = @ + x.len]
  <2>1. k2 = Entry("ESTABLISHED", k, SndNxt(k, x), 0, k.rcvNxt)
    <3> DEFINE S == SndNxt(k, x)
    <3>1. k1.rcvNxt + x.len = k.rcvNxt
      BY <1>1, <1>3 DEF Entry
    <3>2. [k1 EXCEPT !.rcvNxt = k1.rcvNxt + x.len] = Entry(k.state, k, S, k.len, k.rcvNxt)
      <4>1. [k1 EXCEPT !.rcvNxt = k.rcvNxt] = Entry(k.state, k, S, k.len, k.rcvNxt)
        BY <1>1 DEF Entry
      <4> QED BY <3>1, <4>1
    <3>3. [Entry(k.state, k, S, k.len, k.rcvNxt) EXCEPT !.len = 0] = Entry(k.state, k, S, 0, k.rcvNxt)
      BY DEF Entry
    <3>4. [Entry(k.state, k, S, 0, k.rcvNxt) EXCEPT !.state = "ESTABLISHED"]
            = Entry("ESTABLISHED", k, S, 0, k.rcvNxt)
      BY DEF Entry
    <3>5. k2 = [[[k1 EXCEPT !.rcvNxt = k1.rcvNxt + x.len] EXCEPT !.len = 0] EXCEPT !.state = "ESTABLISHED"]
      OBVIOUS
    <3> HIDE DEF k2, S
    <3>6. k2 = Entry("ESTABLISHED", k, S, 0, k.rcvNxt)
      BY <3>2, <3>3, <3>4, <3>5
    <3> QED BY <3>6 DEF S
  <2>2. Connect(k1, x) = AppSend(k2, FALSE, "prompt", <<>>)
    BY DEF Connect
  <2> HIDE DEF k2
  <2>3. k2.len = 0 /\ k2.sndNxt = SndNxt(k, x) /\ k2.rcvNxt = k.rcvNxt
    BY <2>1 DEF Entry
  <2>4. [k2 EXCEPT !.len = 2] = Entry("ESTABLISHED", k, SndNxt(k, x), 2, k.rcvNxt)
    BY <2>1 DEF Entry
  <2> QED BY <2>2, <2>3, <2>4 DEF AppSend, AnswerLength
<1> QED BY <1>1, <1>2, <1>4 DEF Drop

LEMMA FoundFin ==
  ASSUME NEW k \in OpenEntries, k.state = "ESTABLISHED", NEW x \in Segments,
         "rst" \notin x.flags, "fin" \in x.flags, x.len = 0
  PROVE  /\ k.len # 0 =>
              Found(k, x) = Outcome(Entry("ESTABLISHED", k, SndNxt(k, x), k.len, k.rcvNxt), <<>>, <<>>)
         /\ k.len = 0 =>
              Found(k, x) =
                Outcome(Entry("LAST_ACK", k, k.sndNxt, 1, k.rcvNxt + 1),
                        <<Segment({"fin", "ack"}, k.sndNxt, k.rcvNxt + 1, 0, "none")>>, <<>>)
<1> DEFINE k1 == IF Acked(k, x) THEN [k EXCEPT !.sndNxt = @ + k.len] ELSE k
<1>1. /\ k1 = Entry("ESTABLISHED", k, SndNxt(k, x), k.len, k.rcvNxt)
      /\ ~Acked(k, x) => SndNxt(k, x) = k.sndNxt
      /\ k.len = 0 => ~Acked(k, x)
  BY AckedEntry
<1>2. Found(k, x) = Established(k1, x, Acked(k, x))
  BY DEF Found, Expected
<1> HIDE DEF k1
<1>3. k.rcvNxt \in Nat /\ k1.len = k.len /\ k1.rcvNxt = k.rcvNxt
  BY <1>1, EntryIs DEF Entry
<1>4. CASE k.len # 0
  BY <1>1, <1>2, <1>3, <1>4 DEF Established, Drop
<1>5. CASE k.len = 0
  <2> DEFINE k2 == [k1 EXCEPT !.state = "LAST_ACK", !.rcvNxt = @ + x.len + 1]
  <2>1. Found(k, x) = SendFin(k2, <<>>)
    BY <1>2, <1>3, <1>5 DEF Established
  <2>2. k2 = Entry("LAST_ACK", k, k.sndNxt, 0, k.rcvNxt + 1)
    <3>1. k1.rcvNxt + x.len + 1 = k.rcvNxt + 1
      BY <1>3
    <3>2. [k1 EXCEPT !.rcvNxt = k1.rcvNxt + x.len + 1]
            = Entry("ESTABLISHED", k, k.sndNxt, 0, k.rcvNxt + 1)
      <4>1. k1 = Entry("ESTABLISHED", k, k.sndNxt, 0, k.rcvNxt)
        BY <1>1, <1>5
      <4>2. [k1 EXCEPT !.rcvNxt = k.rcvNxt + 1] = Entry("ESTABLISHED", k, k.sndNxt, 0, k.rcvNxt + 1)
        BY <4>1 DEF Entry
      <4> QED BY <3>1, <4>2
    <3>3. [Entry("ESTABLISHED", k, k.sndNxt, 0, k.rcvNxt + 1) EXCEPT !.state = "LAST_ACK"]
            = Entry("LAST_ACK", k, k.sndNxt, 0, k.rcvNxt + 1)
      BY DEF Entry
    <3>4. k2 = [[k1 EXCEPT !.rcvNxt = k1.rcvNxt + x.len + 1] EXCEPT !.state = "LAST_ACK"]
      OBVIOUS
    <3> HIDE DEF k2
    <3> QED BY <3>2, <3>3, <3>4
  <2> HIDE DEF k2
  <2>3. [k2 EXCEPT !.len = 1] = Entry("LAST_ACK", k, k.sndNxt, 1, k.rcvNxt + 1)
    BY <2>2 DEF Entry
  <2>4. /\ [k2 EXCEPT !.len = 1].sndNxt = k.sndNxt /\ [k2 EXCEPT !.len = 1].rcvNxt = k.rcvNxt + 1
        /\ k2.sndNxt = k.sndNxt /\ k2.rcvNxt = k.rcvNxt + 1
    BY <2>2, <2>3 DEF Entry
  <2> QED BY <1>5, <2>1, <2>3, <2>4 DEF SendFin, Control
<1> QED BY <1>4, <1>5

LEMMA FoundAck ==
  ASSUME NEW k \in OpenEntries, k.state = "ESTABLISHED", NEW x \in Segments,
         "rst" \notin x.flags, "fin" \notin x.flags, x.len = 0
  PROVE  Found(k, x) =
           Outcome(Entry("ESTABLISHED", k, SndNxt(k, x), IF Acked(k, x) THEN 0 ELSE k.len, k.rcvNxt),
                   <<>>, <<>>)
<1> DEFINE k1 == IF Acked(k, x) THEN [k EXCEPT !.sndNxt = @ + k.len] ELSE k
<1>1. k1 = Entry("ESTABLISHED", k, SndNxt(k, x), k.len, k.rcvNxt)
  BY AckedEntry
<1>2. Found(k, x) = Established(k1, x, Acked(k, x))
  BY DEF Found, Expected
<1> HIDE DEF k1
<1>3. [k1 EXCEPT !.len = IF Acked(k, x) THEN 0 ELSE @]
        = Entry("ESTABLISHED", k, SndNxt(k, x), IF Acked(k, x) THEN 0 ELSE k.len, k.rcvNxt)
  BY <1>1 DEF Entry
<1> QED BY <1>2, <1>3 DEF Established, Drop

LEMMA FoundLine ==
  ASSUME NEW k \in OpenEntries, k.state = "ESTABLISHED", NEW x \in Segments,
         "rst" \notin x.flags, "fin" \notin x.flags, x.len = 1, x.seq = k.rcvNxt, x.text \in Words,
         NEW len, len = IF Acked(k, x) \/ k.len = 0
                        THEN AnswerLength(IF x.text = "h" THEN "ok" ELSE "prompt") ELSE k.len
  PROVE  /\ x.text = "q" =>
              Found(k, x) =
                Outcome(Entry("FIN_WAIT_1", k, SndNxt(k, x), 1, k.rcvNxt + 1),
                        <<Segment({"fin", "ack"}, SndNxt(k, x), k.rcvNxt + 1, 0, "none")>>,
                        <<x.text>>)
         /\ x.text # "q" =>
              Found(k, x) =
                Outcome(Entry("ESTABLISHED", k, SndNxt(k, x), len, k.rcvNxt + 1),
                        <<Segment({"ack"}, SndNxt(k, x), k.rcvNxt + 1, len,
                                  IF x.text = "h" THEN "ok" ELSE "prompt")>>,
                        <<x.text>>)
<1> DEFINE k1 == IF Acked(k, x) THEN [k EXCEPT !.sndNxt = @ + k.len] ELSE k
<1> DEFINE k2 == [k1 EXCEPT !.rcvNxt = @ + x.len]
<1>1. k1 = Entry("ESTABLISHED", k, SndNxt(k, x), k.len, k.rcvNxt)
  BY AckedEntry
<1>2. Found(k, x) = Established(k1, x, Acked(k, x))
  BY DEF Found, Expected
<1> HIDE DEF k1
<1>3. Found(k, x) = ExampleApp(k2, Acked(k, x), x.text)
  BY <1>2 DEF Established
<1>4. k2 = Entry("ESTABLISHED", k, SndNxt(k, x), k.len, k.rcvNxt + 1)
  <2>1. k1.rcvNxt + x.len = k.rcvNxt + 1
    BY <1>1 DEF Entry
  <2> QED BY <1>1, <2>1 DEF Entry
<1> HIDE DEF k2
<1>5. k2.sndNxt = SndNxt(k, x) /\ k2.rcvNxt = k.rcvNxt + 1 /\ k2.len = k.len
  BY <1>4 DEF Entry
<1>6. CASE x.text = "q"
  <2> DEFINE k3 == [k2 EXCEPT !.state = "FIN_WAIT_1"]
  <2>1. Found(k, x) = SendFin(k3, <<x.text>>)
    BY <1>3, <1>6 DEF ExampleApp
  <2>2. k3 = Entry("FIN_WAIT_1", k, SndNxt(k, x), k.len, k.rcvNxt + 1)
    BY <1>4 DEF Entry
  <2> HIDE DEF k3
  <2>3. [k3 EXCEPT !.len = 1] = Entry("FIN_WAIT_1", k, SndNxt(k, x), 1, k.rcvNxt + 1)
    BY <2>2 DEF Entry
  <2>4. k3.sndNxt = SndNxt(k, x) /\ k3.rcvNxt = k.rcvNxt + 1
    BY <2>2 DEF Entry
  <2> QED BY <1>6, <2>1, <2>3, <2>4 DEF SendFin, Control
<1>7. CASE x.text # "q"
  <2> DEFINE answer == IF x.text = "h" THEN "ok" ELSE "prompt"
  <2>1. Found(k, x) = AppSend(k2, Acked(k, x), answer, <<x.text>>)
    <3>1. x.text = "h" => answer = "ok" /\ Found(k, x) = AppSend(k2, Acked(k, x), "ok", <<x.text>>)
      BY <1>3 DEF ExampleApp
    <3>2. x.text = "other" => answer = "prompt" /\ Found(k, x) = AppSend(k2, Acked(k, x), "prompt", <<x.text>>)
      BY <1>3 DEF ExampleApp
    <3> QED BY <1>7, <3>1, <3>2 DEF Words
  <2> HIDE DEF answer
  <2>2. [k2 EXCEPT !.len = len] = Entry("ESTABLISHED", k, SndNxt(k, x), len, k.rcvNxt + 1)
    BY <1>4 DEF Entry
  <2>3. len = IF Acked(k, x) \/ k2.len = 0 THEN AnswerLength(answer) ELSE k2.len
    BY <1>5 DEF answer
  <2>4. AppSend(k2, Acked(k, x), answer, <<x.text>>) =
          Outcome([k2 EXCEPT !.len = len],
                  <<Segment({"ack"}, k2.sndNxt, k2.rcvNxt, len, answer)>>, <<x.text>>)
    BY <2>3 DEF AppSend
  <2> QED BY <1>5, <1>7, <2>1, <2>2, <2>4 DEF answer
<1> QED BY <1>6, <1>7
HalfClosed == {"FIN_WAIT_1", "FIN_WAIT_2"}

\* Where a connection the application has closed, or the peer, goes.
Ends(k, state, rcv) ==
  \/ k.state \in HalfClosed /\ state \in HalfClosed /\ rcv = k.rcvNxt
  \/ k.state \in HalfClosed /\ state \in {"CLOSING", "TIME_WAIT"} /\ rcv = k.rcvNxt + 1
  \/ k.state \notin HalfClosed /\ state \in {"CLOSING", "TIME_WAIT", "LAST_ACK"} /\ rcv = k.rcvNxt

EndsIn(o, k, x) ==
  \/ o = Outcome(Closed, <<>>, <<>>)
  \/ \E state \in OpenStates : \E len, rcv \in Nat : \E out :
       /\ o = Outcome(Entry(state, k, SndNxt(k, x), len, rcv), out, <<>>)
       /\ out = <<>> \/ out = <<Segment({"ack"}, SndNxt(k, x), rcv, 0, "none")>>
       /\ Ends(k, state, rcv)

LEMMA EndsSo ==
  ASSUME NEW o, NEW k, NEW x, NEW state \in OpenStates, NEW len \in Nat, NEW rcv \in Nat, NEW out,
         o = Outcome(Entry(state, k, SndNxt(k, x), len, rcv), out, <<>>),
         out = <<>> \/ out = <<Segment({"ack"}, SndNxt(k, x), rcv, 0, "none")>>,
         Ends(k, state, rcv)
  PROVE  EndsIn(o, k, x)
BY DEF EndsIn

LEMMA AckOfEntry ==
  ASSUME NEW k, NEW state, NEW snd, NEW len, NEW rcv
  PROVE  SendAck(Entry(state, k, snd, len, rcv)) =
           Outcome(Entry(state, k, snd, len, rcv), <<Segment({"ack"}, snd, rcv, 0, "none")>>, <<>>)
BY DEF SendAck, Control, Entry

LEMMA FoundFinWait ==
  ASSUME NEW k \in OpenEntries, k.state \in HalfClosed, NEW x \in Segments,
         "rst" \notin x.flags, x.len = 0
  PROVE  EndsIn(Found(k, x), k, x)
<1> DEFINE k1 == IF Acked(k, x) THEN [k EXCEPT !.sndNxt = @ + k.len] ELSE k
           r == [k1 EXCEPT !.rcvNxt = @ + x.len]
           noLen == [r EXCEPT !.len = IF Acked(k, x) THEN 0 ELSE @]
           S == SndNxt(k, x)
           len2 == IF Acked(k, x) THEN 0 ELSE k.len
           last == IF Acked(k, x) \/ k1.state = "FIN_WAIT_2" THEN "TIME_WAIT" ELSE "CLOSING"
<1>1. k1 = Entry(k.state, k, S, k.len, k.rcvNxt)
  BY AckedEntry
<1>2. Found(k, x) = FinWait(k1, x, Acked(k, x))
  BY DEF Found, Expected, HalfClosed
<1> HIDE DEF k1
<1>3. /\ "fin" \in x.flags =>
           Found(k, x) = SendAck([noLen EXCEPT !.rcvNxt = @ + 1, !.state = last])
      /\ "fin" \notin x.flags /\ k1.state = "FIN_WAIT_1" /\ Acked(k, x) =>
           Found(k, x) = Drop([noLen EXCEPT !.state = "FIN_WAIT_2"])
      /\ "fin" \notin x.flags /\ ~(k1.state = "FIN_WAIT_1" /\ Acked(k, x)) => Found(k, x) = Drop(r)
  <2>1. "fin" \in x.flags =>
           Found(k, x) = SendAck([noLen EXCEPT !.rcvNxt = @ + 1, !.state = last])
    BY <1>2, Zenon DEF FinWait
  <2>2. "fin" \notin x.flags /\ k1.state = "FIN_WAIT_1" /\ Acked(k, x) =>
           Found(k, x) = Drop([noLen EXCEPT !.state = "FIN_WAIT_2"])
    BY <1>2, Zenon DEF FinWait
  <2>3. "fin" \notin x.flags /\ ~(k1.state = "FIN_WAIT_1" /\ Acked(k, x)) => Found(k, x) = Drop(r)
    BY <1>2 DEF FinWait
  <2> QED BY <2>1, <2>2, <2>3
<1>4. last \in {"TIME_WAIT", "CLOSING"} /\ len2 \in Nat /\ k.rcvNxt \in Nat /\ k.len \in Nat
  BY EntryIs
<1> HIDE DEF last
<1>5. r = Entry(k.state, k, S, k.len, k.rcvNxt)
  <2>1. k1.rcvNxt + x.len = k.rcvNxt
    BY <1>1, <1>4 DEF Entry
  <2>2. [k1 EXCEPT !.rcvNxt = k.rcvNxt] = Entry(k.state, k, S, k.len, k.rcvNxt)
    BY <1>1 DEF Entry
  <2> QED BY <2>1, <2>2
<1> HIDE DEF r
<1>6. noLen = Entry(k.state, k, S, len2, k.rcvNxt)
  <2>1. r.len = k.len
    BY <1>5 DEF Entry
  <2>2. [r EXCEPT !.len = len2] = Entry(k.state, k, S, len2, k.rcvNxt)
    BY <1>5 DEF Entry
  <2> QED BY <2>1, <2>2
<1> HIDE DEF noLen
<1>7. [noLen EXCEPT !.rcvNxt = @ + 1, !.state = last] = Entry(last, k, S, len2, k.rcvNxt + 1)
  <2>1. noLen.rcvNxt + 1 = k.rcvNxt + 1
    BY <1>6 DEF Entry
  <2>2. [noLen EXCEPT !.rcvNxt = noLen.rcvNxt + 1] = Entry(k.state, k, S, len2, k.rcvNxt + 1)
    <3>1. [noLen EXCEPT !.rcvNxt = k.rcvNxt + 1] = Entry(k.state, k, S, len2, k.rcvNxt + 1)
      BY <1>6 DEF Entry
    <3> QED BY <2>1, <3>1
  <2>3. [Entry(k.state, k, S, len2, k.rcvNxt + 1) EXCEPT !.state = last]
          = Entry(last, k, S, len2, k.rcvNxt + 1)
    BY DEF Entry
  <2>4. [noLen EXCEPT !.rcvNxt = @ + 1, !.state = last]
          = [[noLen EXCEPT !.rcvNxt = noLen.rcvNxt + 1] EXCEPT !.state = last]
    OBVIOUS
  <2> HIDE DEF S, len2
  <2> QED BY <2>2, <2>3, <2>4
<1>8. [noLen EXCEPT !.state = "FIN_WAIT_2"] = Entry("FIN_WAIT_2", k, S, len2, k.rcvNxt)
  BY <1>6 DEF Entry
<1> HIDE DEF S, len2
<1>9. CASE "fin" \in x.flags
  <2>1. Found(k, x) = SendAck(Entry(last, k, S, len2, k.rcvNxt + 1))
    BY <1>3, <1>7, <1>9
  <2>2. last \in OpenStates /\ Ends(k, last, k.rcvNxt + 1) /\ k.rcvNxt + 1 \in Nat
    BY <1>4 DEF Ends, OpenStates
  <2>3. Found(k, x) = Outcome(Entry(last, k, S, len2, k.rcvNxt + 1),
                              <<Segment({"ack"}, S, k.rcvNxt + 1, 0, "none")>>, <<>>)
    BY <2>1, AckOfEntry
  <2> QED BY <1>4, <2>2, <2>3, EndsSo DEF S
<1>10. CASE "fin" \notin x.flags /\ k1.state = "FIN_WAIT_1" /\ Acked(k, x)
  <2>1. Found(k, x) = Outcome(Entry("FIN_WAIT_2", k, S, len2, k.rcvNxt), <<>>, <<>>)
    BY <1>3, <1>8, <1>10 DEF Drop
  <2>2. "FIN_WAIT_2" \in OpenStates /\ Ends(k, "FIN_WAIT_2", k.rcvNxt)
    BY DEF Ends, OpenStates, HalfClosed
  <2> QED BY <1>4, <2>1, <2>2, EndsSo DEF S
<1>11. CASE "fin" \notin x.flags /\ ~(k1.state = "FIN_WAIT_1" /\ Acked(k, x))
  <2>1. Found(k, x) = Outcome(Entry(k.state, k, S, k.len, k.rcvNxt), <<>>, <<>>)
    BY <1>3, <1>5, <1>11 DEF Drop
  <2>2. k.state \in OpenStates /\ Ends(k, k.state, k.rcvNxt)
    BY EntryIs DEF Ends
  <2> QED BY <1>4, <2>1, <2>2, EndsSo DEF S
<1> QED BY <1>9, <1>10, <1>11

LEMMA FoundClosing ==
  ASSUME NEW k \in OpenEntries, k.state \in {"CLOSING", "TIME_WAIT", "LAST_ACK"}, NEW x \in Segments,
         "rst" \notin x.flags, x.len = 0
  PROVE  EndsIn(Found(k, x), k, x)
<1> DEFINE k1 == IF Acked(k, x) THEN [k EXCEPT !.sndNxt = @ + k.len] ELSE k
           S == SndNxt(k, x)
<1>1. k1 = Entry(k.state, k, S, k.len, k.rcvNxt)
  BY AckedEntry
<1>2. /\ k.state = "LAST_ACK" => Found(k, x) = Drop(IF Acked(k, x) THEN Closed ELSE k1)
      /\ k.state = "TIME_WAIT" => Found(k, x) = SendAck(k1)
      /\ k.state = "CLOSING" =>
           Found(k, x) = Drop(IF Acked(k, x) THEN [k1 EXCEPT !.state = "TIME_WAIT"] ELSE k1)
  BY DEF Found, Expected, LastAck
<1>3. k.rcvNxt \in Nat /\ k.len \in Nat /\ k.state \in OpenStates
  BY EntryIs
<1>4. Ends(k, k.state, k.rcvNxt)
  BY DEF Ends, HalfClosed
<1> HIDE DEF k1, S
<1>5. Found(k, x) = Drop(k1) => EndsIn(Found(k, x), k, x)
  BY <1>1, <1>3, <1>4, EndsSo DEF Drop, S
<1>6. CASE k.state = "LAST_ACK"
  <2>1. Found(k, x) = Outcome(Closed, <<>>, <<>>) \/ Found(k, x) = Drop(k1)
    BY <1>2, <1>6 DEF Drop
  <2> QED BY <1>5, <2>1 DEF EndsIn
<1>7. CASE k.state = "TIME_WAIT"
  <2>1. Found(k, x) = SendAck(Entry(k.state, k, S, k.len, k.rcvNxt))
    BY <1>1, <1>2, <1>7
  <2>2. Found(k, x) = Outcome(Entry(k.state, k, S, k.len, k.rcvNxt),
                              <<Segment({"ack"}, S, k.rcvNxt, 0, "none")>>, <<>>)
    BY <2>1, AckOfEntry
  <2> QED BY <1>3, <1>4, <2>2, EndsSo DEF S
<1>8. CASE k.state = "CLOSING"
  <2>1. CASE Acked(k, x)
    <3>1. [k1 EXCEPT !.state = "TIME_WAIT"] = Entry("TIME_WAIT", k, S, k.len, k.rcvNxt)
      BY <1>1 DEF Entry
    <3>2. Found(k, x) = Outcome(Entry("TIME_WAIT", k, S, k.len, k.rcvNxt), <<>>, <<>>)
      BY <1>2, <1>8, <2>1, <3>1 DEF Drop
    <3>3. Ends(k, "TIME_WAIT", k.rcvNxt) /\ "TIME_WAIT" \in OpenStates
      BY <1>8 DEF Ends, HalfClosed, OpenStates
    <3> QED BY <1>3, <3>2, <3>3, EndsSo DEF S
  <2>2. CASE ~Acked(k, x)
    BY <1>2, <1>5, <1>8, <2>2
  <2> QED BY <2>1, <2>2
<1> QED BY <1>6, <1>7, <1>8

-----------------------------------------------------------------------------
(* What uip_process makes of a segment keeps the session as it should be *)

\* o is what a connection k comes to on a segment x, for the peer's lines w and script s.
Effect(o, p, k, x, w, s) ==
  /\ o.conn \in TableEntries /\ (o.conn # Closed => o.conn.peer = p)
  /\ w \o o.line \in Seq(Words) /\ Handled(k, x, w, s, o.conn, w \o o.line)
  /\ o.out = <<>> \/ \E y \in Segments : o.out = <<y>> /\ Replies(y, x, w \o o.line, s, o.conn)

LEMMA LineAdded ==
  ASSUME NEW w \in Seq(Words), NEW v \in Words
  PROVE  /\ w \o <<>> = w
         /\ w \o <<v>> \in Seq(Words) /\ Len(w \o <<v>>) = Len(w) + 1
         /\ (w \o <<v>>)[Len(w) + 1] = v /\ \A i \in 1..Len(w) : (w \o <<v>>)[i] = w[i]
<1>1. w \o <<>> = w
  BY ConcatEmptySeq
<1>2. Append(w, v) = w \o <<v>>
  BY AppendIsConcat
<1>3. /\ Append(w, v) \in Seq(Words) /\ Len(Append(w, v)) = Len(w) + 1
      /\ Append(w, v)[Len(w) + 1] = v /\ \A i \in 1..Len(w) : Append(w, v)[i] = w[i]
  BY AppendProperties
<1> QED BY <1>1, <1>2, <1>3

LEMMA NoLineEffect ==
  ASSUME NEW p, NEW k, NEW x, NEW w \in Seq(Words), NEW s, NEW c \in TableEntries,
         c # Closed => c.peer = p, Handled(k, x, w, s, c, w),
         NEW out, out = <<>> \/ \E y \in Segments : out = <<y>> /\ Replies(y, x, w, s, c)
  PROVE  Effect(Outcome(c, out, <<>>), p, k, x, w, s)
<1>1. w \o <<>> = w
  BY ConcatEmptySeq
<1> QED BY <1>1 DEF Effect, Outcome

\* What is known of a connection and of the first segment for it.
LEMMA FirstSegment ==
  ASSUME patient \/ ~lossy,
         NEW k, NEW q, NEW t, NEW e, NEW w, NEW s, Types(k, q, t, e, w, s),
         SessionOK(k, q, t, e, w, s), Len(q) > 0, k \in OpenEntries
  PROVE  /\ q[1] \in Segments /\ q[1].seq \in Nat /\ q[1].ack \in Nat /\ q[1].len \in Nat
         /\ Len(w) \in Nat /\ Len(s) \in Nat /\ Len(w) <= Len(s) /\ w \in Seq(Words)
         /\ Sendable(q[1], s) /\ StateOK(k, w, s)
         /\ IsNumbered(q[1]) /\ Alive(k, q) => q[1].seq <= Len(w) + 1 /\ ~Young(k, q)
         /\ IsSyn(q[1]) => k.state = "SYN_RCVD"
<1>1. /\ Len(q) \in Nat /\ Len(w) \in Nat /\ Len(s) \in Nat /\ 1 \in 1..Len(q)
      /\ q[1] \in Segments /\ q[1].seq \in Nat /\ q[1].ack \in Nat /\ q[1].len \in Nat
  BY Fields
<1>2. Sendable(q[1], s) /\ StateOK(k, w, s) /\ Len(w) <= Len(s)
  BY <1>1 DEF SessionOK, QueueOK, LookedOK
<1>3. IsNumbered(q[1]) /\ Alive(k, q) => q[1].seq <= Len(w) + 1 /\ ~Young(k, q)
  BY HeadInTurn
<1>4. IsSyn(q[1]) => k.state = "SYN_RCVD"
  BY <1>1, OpenIsOpen DEF SessionOK, YoungOK, HasSyn
<1> QED BY <1>1, <1>2, <1>3, <1>4 DEF Types

LEMMA ResetEffect ==
  ASSUME NEW p, NEW k, NEW x, "rst" \in x.flags, NEW w \in Seq(Words), NEW s
  PROVE  Effect(Found(k, x), p, k, x, w, s)
<1>1. Handled(k, x, w, s, Closed, w)
  BY DEF Handled, StateOK, Closed
<1> QED BY <1>1, FoundReset, NoLineEffect DEF TableEntries

LEMMA RepeatEffect ==
  ASSUME patient \/ ~lossy,
         NEW k, NEW q, NEW t, NEW e, NEW w, NEW s, Types(k, q, t, e, w, s),
         SessionOK(k, q, t, e, w, s), Len(q) > 0, k \in OpenEntries,
         "rst" \notin q[1].flags, ~Expected(k, q[1])
  PROVE  Effect(Found(k, q[1]), k.peer, k, q[1], w, s)
<1> DEFINE x == q[1]
           y == Segment({"ack"}, k.sndNxt, k.rcvNxt, 0, "none")
<1>1. /\ x \in Segments /\ x.seq \in Nat /\ x.ack \in Nat /\ x.len \in Nat
      /\ Len(w) \in Nat /\ Len(s) \in Nat /\ Len(w) <= Len(s) /\ w \in Seq(Words)
      /\ Sendable(x, s) /\ StateOK(k, w, s)
      /\ IsNumbered(x) /\ Alive(k, q) => x.seq <= Len(w) + 1 /\ ~Young(k, q)
  BY FirstSegment
<1>2. Found(k, x) = Outcome(k, <<y>>, <<>>)
  BY FoundUnexpected
<1> HIDE DEF x
<1>3. IsLine(x) /\ IsNumbered(x) /\ x.seq # k.rcvNxt
  BY <1>1 DEF Expected, IsLine, IsNumbered, x
<1>4. k.state # "SYN_RCVD" /\ ~IsSyn(x) /\ ~IsGreeting(x)
  BY <1>1, <1>3 DEF Alive, Young, Sendable, IsSyn, IsLine, IsGreeting
<1>5. k.state = "ESTABLISHED" => x.seq <= Len(w)
  BY <1>1, <1>3 DEF StateOK, Alive
<1>6. Handled(k, x, w, s, k, w)
  BY <1>1, <1>4, <1>5 DEF Handled
<1>7. k.state \in OpenStates /\ k.sndNxt \in Nat /\ k.rcvNxt \in Nat
  BY EntryIs
<1>8. y \in Segments /\ y.ack = k.rcvNxt
  BY <1>7, SegmentType DEF Segment
<1>9. AckOK(k.rcvNxt, w, s)
  BY <1>1, <1>4, <1>7 DEF StateOK, AckOK, OpenStates
<1>10. Replies(y, x, w, s, k)
  BY <1>4, <1>8, <1>9 DEF Replies
<1>11. Effect(Outcome(k, <<y>>, <<>>), k.peer, k, x, w, s)
  BY <1>1, <1>6, <1>8, <1>10, NoLineEffect DEF TableEntries
<1> QED BY <1>2, <1>11 DEF x

LEMMA SynRcvdEffect ==
  ASSUME patient \/ ~lossy,
         NEW k, NEW q, NEW t, NEW e, NEW w, NEW s, Types(k, q, t, e, w, s),
         SessionOK(k, q, t, e, w, s), Len(q) > 0, k \in OpenEntries, k.state = "SYN_RCVD",
         "rst" \notin q[1].flags
  PROVE  Effect(Found(k, q[1]), k.peer, k, q[1], w, s)
<1> DEFINE x == q[1]
           o == Entry("ESTABLISHED", k, SndNxt(k, x), 2, k.rcvNxt)
           y == Segment({"ack"}, SndNxt(k, x), k.rcvNxt, 2, "prompt")
<1>1. /\ x \in Segments /\ x.seq \in Nat /\ x.ack \in Nat /\ x.len \in Nat
      /\ Len(w) \in Nat /\ Len(s) \in Nat /\ w \in Seq(Words)
      /\ Sendable(x, s) /\ StateOK(k, w, s)
      /\ IsNumbered(x) /\ Alive(k, q) => x.seq <= Len(w) + 1 /\ ~Young(k, q)
  BY FirstSegment
<1>2. /\ SndNxt(k, x) \in Nat /\ (Acked(k, x) => "ack" \in x.flags)
  BY <1>1, AckedEntry
<1> HIDE DEF x
<1>3. x.len = 0
  BY <1>1 DEF Alive, Young, IsNumbered, IsLine
<1>4. /\ ~Acked(k, x) => Found(k, x) = Outcome(k, <<>>, <<>>)
      /\ Acked(k, x) => Found(k, x) = Outcome(o, <<y>>, <<>>)
  BY <1>1, <1>3, FoundSynRcvd DEF x
<1>5. Len(w) = 0 /\ k.rcvNxt = 1 /\ k.sndNxt = 0 /\ k.len = 1
  BY <1>1 DEF StateOK
<1>6. IsGreeting(x) => Acked(k, x)
  BY <1>5 DEF IsGreeting, Acked
<1>7. CASE ~Acked(k, x)
  <2>1. Handled(k, x, w, s, k, w)
    BY <1>1, <1>6, <1>7 DEF Handled
  <2>2. Effect(Outcome(k, <<>>, <<>>), k.peer, k, x, w, s)
    BY <1>1, <2>1, NoLineEffect DEF TableEntries
  <2> QED BY <1>4, <1>7, <2>2 DEF x
<1>8. CASE Acked(k, x)
  <2>1. o \in OpenEntries /\ o.peer = k.peer /\ o.state = "ESTABLISHED" /\ o.rcvNxt = 1
    <3>1. "ESTABLISHED" \in OpenStates
      BY DEF OpenStates
    <3>2. o \in OpenEntries
      BY <1>2, <1>5, <3>1, EntryType
    <3> QED BY <1>5, <3>2 DEF Entry
  <2>2. ~IsSyn(x)
    BY <1>2, <1>8 DEF IsSyn
  <2>3. y \in Segments /\ y.ack = 1
    BY <1>2, <1>5, SegmentType DEF Segment
  <2> HIDE DEF o, y
  <2>4. StateOK(o, w, s)
    BY <1>5, <2>1 DEF StateOK
  <2>5. Handled(k, x, w, s, o, w)
    BY <1>3, <2>1, <2>2, <2>4 DEF Handled, IsLine
  <2>6. Replies(y, x, w, s, o)
    BY <1>5, <2>1, <2>2, <2>3 DEF Replies, AckOK
  <2>7. Effect(Outcome(o, <<y>>, <<>>), k.peer, k, x, w, s)
    BY <1>1, <2>1, <2>3, <2>5, <2>6, NoLineEffect DEF TableEntries
  <2> QED BY <1>4, <1>8, <2>7 DEF x
<1> QED BY <1>7, <1>8

LEMMA LineEffect ==
  ASSUME patient \/ ~lossy,
         NEW k, NEW q, NEW t, NEW e, NEW w, NEW s, Types(k, q, t, e, w, s),
         SessionOK(k, q, t, e, w, s), Len(q) > 0, k \in OpenEntries, k.state = "ESTABLISHED",
         "rst" \notin q[1].flags, IsLine(q[1]), Expected(k, q[1])
  PROVE  Effect(Found(k, q[1]), k.peer, k, q[1], w, s)
<1> DEFINE x == q[1]
           len == IF Acked(k, x) \/ k.len = 0
                  THEN AnswerLength(IF x.text = "h" THEN "ok" ELSE "prompt") ELSE k.len
           w2 == w \o <<x.text>>
           text == IF x.text = "h" THEN "ok" ELSE "prompt"
<1>1. /\ x \in Segments /\ x.seq \in Nat /\ x.ack \in Nat /\ x.len \in Nat
      /\ Len(w) \in Nat /\ Len(s) \in Nat /\ w \in Seq(Words)
      /\ Sendable(x, s) /\ StateOK(k, w, s)
  BY FirstSegment
<1>2. SndNxt(k, x) \in Nat
  BY <1>1, AckedEntry
<1>3. k.len \in Nat /\ k.rcvNxt \in Nat
  BY EntryIs
<1>4. s \in Seq(Words) /\ \A i \in 1..Len(s) : s[i] \in Words /\ (s[i] = "q" => i = Len(s))
  BY ElementOfSeq DEF Types
<1> HIDE DEF x
<1>5. /\ x.flags = {"ack"} /\ x.len = 1 /\ x.seq = k.rcvNxt /\ k.rcvNxt = Len(w) + 1
      /\ x.seq \in 1..Len(s) /\ x.text = s[x.seq]
  BY <1>1 DEF Sendable, Expected, IsLine, StateOK, x
<1>6. x.text \in Words /\ (x.text = "q" => Len(w) + 1 = Len(s))
  BY <1>4, <1>5
<1>7. /\ x.text = "q" =>
           Found(k, x) =
             Outcome(Entry("FIN_WAIT_1", k, SndNxt(k, x), 1, k.rcvNxt + 1),
                     <<Segment({"fin", "ack"}, SndNxt(k, x), k.rcvNxt + 1, 0, "none")>>, <<x.text>>)
      /\ x.text # "q" =>
           Found(k, x) =
             Outcome(Entry("ESTABLISHED", k, SndNxt(k, x), len, k.rcvNxt + 1),
                     <<Segment({"ack"}, SndNxt(k, x), k.rcvNxt + 1, len, text)>>, <<x.text>>)
  BY <1>1, <1>5, <1>6, FoundLine
<1>8. /\ w2 \in Seq(Words) /\ Len(w2) = Len(w) + 1
      /\ w2[Len(w) + 1] = s[Len(w) + 1] /\ \A i \in 1..Len(w) : w2[i] = w[i]
  BY <1>1, <1>5, <1>6, LineAdded
<1>9. len \in Nat /\ text \in {"ok", "prompt"}
  BY <1>3 DEF AnswerLength
<1> HIDE DEF len, text, w2
<1>10. ~IsSyn(x)
  BY <1>5 DEF IsSyn
<1>11. ASSUME NEW c \in OpenEntries, c.peer = k.peer, StateOK(c, w2, s),
              c.state \in {"ESTABLISHED", "FIN_WAIT_1"},
              NEW y \in Segments, y.ack = Len(w) + 2
       PROVE  Effect(Outcome(c, <<y>>, <<x.text>>), k.peer, k, x, w, s)
  <2>1. w2 # w
    BY <1>1, <1>8
  <2>2. Handled(k, x, w, s, c, w2)
    BY <1>5, <1>8, <1>10, <1>11, <2>1 DEF Handled, IsLine
  <2>3. Replies(y, x, w2, s, c)
    BY <1>1, <1>8, <1>10, <1>11 DEF Replies, AckOK
  <2>4. c \in TableEntries
    BY DEF TableEntries
  <2> QED BY <1>8, <1>11, <2>2, <2>3, <2>4 DEF Effect, Outcome, w2
<1>12. CASE x.text = "q"
  <2> DEFINE c == Entry("FIN_WAIT_1", k, SndNxt(k, x), 1, k.rcvNxt + 1)
             y == Segment({"fin", "ack"}, SndNxt(k, x), k.rcvNxt + 1, 0, "none")
  <2>1. c \in OpenEntries /\ c.peer = k.peer /\ c.state = "FIN_WAIT_1" /\ c.rcvNxt = Len(s) + 1
    <3>1. "FIN_WAIT_1" \in OpenStates /\ k.rcvNxt + 1 \in Nat
      BY <1>3 DEF OpenStates
    <3>2. c \in OpenEntries
      BY <1>2, <3>1, EntryType
    <3>3. k.rcvNxt + 1 = Len(s) + 1
      BY <1>5, <1>6, <1>12
    <3> QED BY <3>2, <3>3 DEF Entry
  <2>2. y \in Segments /\ y.ack = Len(w) + 2
    <3>1. k.rcvNxt + 1 \in Nat /\ k.rcvNxt + 1 = Len(w) + 2
      BY <1>1, <1>3, <1>5
    <3> QED BY <1>2, <3>1, SegmentType DEF Segment
  <2>3. Found(k, x) = Outcome(c, <<y>>, <<x.text>>)
    BY <1>7, <1>12
  <2> HIDE DEF c, y
  <2>4. StateOK(c, w2, s)
    BY <1>6, <1>8, <1>12, <2>1 DEF StateOK
  <2> QED BY <1>11, <2>1, <2>2, <2>3, <2>4 DEF x
<1>13. CASE x.text # "q"
  <2> DEFINE c == Entry("ESTABLISHED", k, SndNxt(k, x), len, k.rcvNxt + 1)
             y == Segment({"ack"}, SndNxt(k, x), k.rcvNxt + 1, len, text)
  <2>1. c \in OpenEntries /\ c.peer = k.peer /\ c.state = "ESTABLISHED" /\ c.rcvNxt = Len(w) + 2
    <3>1. "ESTABLISHED" \in OpenStates /\ k.rcvNxt + 1 \in Nat
      BY <1>3 DEF OpenStates
    <3>2. c \in OpenEntries
      BY <1>2, <1>9, <3>1, EntryType
    <3>3. k.rcvNxt + 1 = Len(w) + 2
      BY <1>1, <1>5
    <3> QED BY <3>2, <3>3 DEF Entry
  <2>2. y \in Segments /\ y.ack = Len(w) + 2
    <3>1. k.rcvNxt + 1 \in Nat /\ k.rcvNxt + 1 = Len(w) + 2
      BY <1>1, <1>3, <1>5
    <3> QED BY <1>2, <1>9, <3>1, SegmentType DEF Segment
  <2>3. Found(k, x) = Outcome(c, <<y>>, <<x.text>>)
    BY <1>7, <1>13
  <2> HIDE DEF c, y
  <2>4. StateOK(c, w2, s)
    BY <1>1, <1>8, <2>1 DEF StateOK
  <2> QED BY <1>11, <2>1, <2>2, <2>3, <2>4 DEF x
<1> QED BY <1>12, <1>13

LEMMA FinEffect ==
  ASSUME patient \/ ~lossy,
         NEW k, NEW q, NEW t, NEW e, NEW w, NEW s, Types(k, q, t, e, w, s),
         SessionOK(k, q, t, e, w, s), Len(q) > 0, k \in OpenEntries, k.state = "ESTABLISHED",
         "rst" \notin q[1].flags, ~IsLine(q[1])
  PROVE  Effect(Found(k, q[1]), k.peer, k, q[1], w, s)
<1> DEFINE x == q[1]
           S == SndNxt(k, x)
           len == IF Acked(k, x) THEN 0 ELSE k.len
           y == Segment({"fin", "ack"}, k.sndNxt, k.rcvNxt + 1, 0, "none")
<1>1. /\ x \in Segments /\ x.seq \in Nat /\ x.ack \in Nat /\ x.len \in Nat
      /\ Len(w) \in Nat /\ Len(s) \in Nat /\ Len(w) <= Len(s) /\ w \in Seq(Words)
      /\ Sendable(x, s) /\ StateOK(k, w, s)
      /\ IsNumbered(x) /\ Alive(k, q) => x.seq <= Len(w) + 1 /\ ~Young(k, q)
      /\ IsSyn(x) => k.state = "SYN_RCVD"
  BY FirstSegment
<1>2. S \in Nat
  BY <1>1, AckedEntry
<1>3. k.len \in Nat /\ k.rcvNxt \in Nat /\ k.sndNxt \in Nat /\ len \in Nat
  BY EntryIs
<1> HIDE DEF x, len, S
<1>4. x.len = 0 /\ ~IsSyn(x)
  BY <1>1 DEF IsLine, x
<1>5. k.rcvNxt = Len(w) + 1
  BY <1>1 DEF StateOK
<1>6. "ESTABLISHED" \in OpenStates /\ "LAST_ACK" \in OpenStates
  BY DEF OpenStates
<1>7. ASSUME NEW n \in Nat
      PROVE  Effect(Outcome(Entry("ESTABLISHED", k, S, n, k.rcvNxt), <<>>, <<>>), k.peer, k, x, w, s)
  <2> DEFINE c == Entry("ESTABLISHED", k, S, n, k.rcvNxt)
  <2>1. c \in OpenEntries /\ c.peer = k.peer /\ c.state = "ESTABLISHED" /\ c.rcvNxt = k.rcvNxt
    <3>1. c \in OpenEntries
      BY <1>2, <1>3, <1>6, EntryType
    <3> QED BY <3>1 DEF Entry
  <2> HIDE DEF c
  <2>2. StateOK(c, w, s)
    BY <1>5, <2>1 DEF StateOK
  <2>3. Handled(k, x, w, s, c, w)
    BY <1>4, <2>1, <2>2 DEF Handled, IsLine
  <2>4. Effect(Outcome(c, <<>>, <<>>), k.peer, k, x, w, s)
    BY <1>1, <2>1, <2>3, NoLineEffect DEF TableEntries
  <2> QED BY <2>4 DEF c
<1>8. CASE "fin" \notin x.flags
  <2>1. Found(k, x) = Outcome(Entry("ESTABLISHED", k, S, len, k.rcvNxt), <<>>, <<>>)
    BY <1>1, <1>4, <1>8, FoundAck DEF x, S, len
  <2> QED BY <1>3, <1>7, <2>1 DEF x
<1>9. CASE "fin" \in x.flags /\ k.len # 0
  <2>1. Found(k, x) = Outcome(Entry("ESTABLISHED", k, S, k.len, k.rcvNxt), <<>>, <<>>)
    BY <1>1, <1>4, <1>9, FoundFin DEF x, S
  <2> QED BY <1>3, <1>7, <2>1 DEF x
<1>10. CASE "fin" \in x.flags /\ k.len = 0
  <2> DEFINE c == Entry("LAST_ACK", k, k.sndNxt, 1, k.rcvNxt + 1)
  <2>1. Found(k, x) = Outcome(c, <<y>>, <<>>)
    BY <1>1, <1>4, <1>10, FoundFin DEF x
  <2>2. Len(w) = Len(s)
    BY <1>1, <1>10 DEF Sendable, IsNumbered, IsFin, Alive
  <2>3. c \in OpenEntries /\ c.peer = k.peer /\ c.state = "LAST_ACK" /\ c.rcvNxt = Len(s) + 2
    <3>1. k.rcvNxt + 1 \in Nat /\ k.rcvNxt + 1 = Len(s) + 2
      BY <1>1, <1>3, <1>5, <2>2
    <3>2. c \in OpenEntries
      BY <1>3, <1>6, <3>1, EntryType
    <3> QED BY <3>1, <3>2 DEF Entry
  <2>4. y \in Segments /\ y.ack = Len(s) + 2
    <3>1. k.rcvNxt + 1 \in Nat /\ k.rcvNxt + 1 = Len(s) + 2
      BY <1>1, <1>3, <1>5, <2>2
    <3> QED BY <1>3, <3>1, SegmentType DEF Segment
  <2> HIDE DEF c, y
  <2>5. StateOK(c, w, s)
    BY <2>2, <2>3 DEF StateOK
  <2>6. Handled(k, x, w, s, c, w)
    BY <1>4, <2>3, <2>5 DEF Handled
  <2>7. Replies(y, x, w, s, c)
    BY <1>4, <2>2, <2>3, <2>4 DEF Replies, AckOK
  <2>8. Effect(Outcome(c, <<y>>, <<>>), k.peer, k, x, w, s)
    BY <1>1, <2>3, <2>4, <2>6, <2>7, NoLineEffect DEF TableEntries
  <2> QED BY <2>1, <2>8 DEF x
<1> QED BY <1>8, <1>9, <1>10

LEMMA ClosingEffect ==
  ASSUME patient \/ ~lossy,
         NEW k, NEW q, NEW t, NEW e, NEW w, NEW s, Types(k, q, t, e, w, s),
         SessionOK(k, q, t, e, w, s), Len(q) > 0, k \in OpenEntries,
         k.state \in HalfClosed \cup {"CLOSING", "TIME_WAIT", "LAST_ACK"},
         "rst" \notin q[1].flags, Expected(k, q[1])
  PROVE  /\ q[1].len = 0 /\ EndsIn(Found(k, q[1]), k, q[1])
         /\ Effect(Found(k, q[1]), k.peer, k, q[1], w, s)
<1> DEFINE x == q[1]
<1>1. /\ x \in Segments /\ x.seq \in Nat /\ x.ack \in Nat /\ x.len \in Nat
      /\ Len(w) \in Nat /\ Len(s) \in Nat /\ w \in Seq(Words)
      /\ Sendable(x, s) /\ StateOK(k, w, s)
      /\ IsSyn(x) => k.state = "SYN_RCVD"
  BY FirstSegment
<1>2. k.rcvNxt \in Nat /\ SndNxt(k, x) \in Nat
  BY <1>1, EntryIs, AckedEntry
<1>3. Len(w) = Len(s) /\ k.rcvNxt = IF k.state \in HalfClosed THEN Len(s) + 1 ELSE Len(s) + 2
  BY <1>1 DEF StateOK, HalfClosed
<1> HIDE DEF x
<1>4. x.len = 0
  BY <1>1, <1>2, <1>3 DEF Expected, Sendable, IsLine, x
<1>5. EndsIn(Found(k, x), k, x)
  BY <1>1, <1>4, FoundFinWait, FoundClosing DEF x
<1>6. ~IsSyn(x)
  BY <1>1 DEF HalfClosed
<1>7. Handled(k, x, w, s, Closed, w)
  BY <1>6 DEF Handled, StateOK, Closed
<1>8. CASE Found(k, x) = Outcome(Closed, <<>>, <<>>)
  BY <1>1, <1>4, <1>5, <1>7, <1>8, NoLineEffect DEF TableEntries, x
<1>9. ASSUME NEW state \in OpenStates, NEW len \in Nat, NEW rcv \in Nat, NEW out,
             Found(k, x) = Outcome(Entry(state, k, SndNxt(k, x), len, rcv), out, <<>>),
             out = <<>> \/ out = <<Segment({"ack"}, SndNxt(k, x), rcv, 0, "none")>>,
             Ends(k, state, rcv)
      PROVE  Effect(Found(k, x), k.peer, k, x, w, s)
  <2> DEFINE c == Entry(state, k, SndNxt(k, x), len, rcv)
             y == Segment({"ack"}, SndNxt(k, x), rcv, 0, "none")
  <2>1. c \in OpenEntries /\ c.peer = k.peer /\ c.state = state /\ c.rcvNxt = rcv
    <3>1. c \in OpenEntries
      BY <1>2, EntryType
    <3> QED BY <3>1 DEF Entry
  <2>2. y \in Segments /\ y.ack = rcv
    BY <1>2, SegmentType DEF Segment
  <2> HIDE DEF c, y
  <2>3. StateOK(c, w, s) /\ c.state \notin {"CLOSED", "SYN_RCVD", "ESTABLISHED"}
    BY <1>1, <1>3, <1>9, <2>1 DEF StateOK, Ends, HalfClosed
  <2>4. AckOK(rcv, w, s)
    BY <1>1, <1>3, <1>9 DEF AckOK, Ends, HalfClosed
  <2>5. Handled(k, x, w, s, c, w)
    BY <1>6, <2>3 DEF Handled
  <2>6. Replies(y, x, w, s, c)
    BY <1>6, <2>2, <2>3, <2>4 DEF Replies
  <2>7. Effect(Outcome(c, out, <<>>), k.peer, k, x, w, s)
    BY <1>1, <1>9, <2>1, <2>2, <2>5, <2>6, NoLineEffect DEF TableEntries, y
  <2> QED BY <1>9, <2>7 DEF c
<1>10. CASE Found(k, x) # Outcome(Closed, <<>>, <<>>)
  <2>1. PICK state \in OpenStates, len \in Nat, rcv \in Nat : \E out :
          /\ Found(k, x) = Outcome(Entry(state, k, SndNxt(k, x), len, rcv), out, <<>>)
          /\ out = <<>> \/ out = <<Segment({"ack"}, SndNxt(k, x), rcv, 0, "none")>>
          /\ Ends(k, state, rcv)
    BY <1>5, <1>10 DEF EndsIn
  <2>2. PICK out :
          /\ Found(k, x) = Outcome(Entry(state, k, SndNxt(k, x), len, rcv), out, <<>>)
          /\ out = <<>> \/ out = <<Segment({"ack"}, SndNxt(k, x), rcv, 0, "none")>>
          /\ Ends(k, state, rcv)
    BY <2>1
  <2> QED BY <1>4, <1>5, <1>9, <2>2 DEF x
<1> QED BY <1>4, <1>5, <1>8, <1>10 DEF x

LEMMA FoundEffect ==
  ASSUME patient \/ ~lossy,
         NEW k, NEW q, NEW t, NEW e, NEW w, NEW s, Types(k, q, t, e, w, s),
         SessionOK(k, q, t, e, w, s), Len(q) > 0, k \in OpenEntries
  PROVE  Effect(Found(k, q[1]), k.peer, k, q[1], w, s)
<1>1. CASE "rst" \in q[1].flags
  BY <1>1, ResetEffect DEF Types
<1>2. CASE "rst" \notin q[1].flags /\ ~Expected(k, q[1])
  BY <1>2, RepeatEffect
<1>3. CASE "rst" \notin q[1].flags /\ k.state = "SYN_RCVD"
  BY <1>3, SynRcvdEffect
<1>4. CASE "rst" \notin q[1].flags /\ Expected(k, q[1]) /\ k.state = "ESTABLISHED"
  BY <1>4, LineEffect, FinEffect
<1>5. CASE "rst" \notin q[1].flags /\ Expected(k, q[1]) /\ k.state \notin {"SYN_RCVD", "ESTABLISHED"}
  <2>1. k.state \in HalfClosed \cup {"CLOSING", "TIME_WAIT", "LAST_ACK"}
    BY <1>5, EntryIs DEF OpenStates, HalfClosed
  <2> QED BY <1>5, <2>1, ClosingEffect
<1> QED BY <1>1, <1>2, <1>3, <1>4, <1>5

\* A SYN for no connection takes an entry; what else there is for none is refused.
LEMMA SynEffect ==
  ASSUME NEW p \in Peers, NEW k, NEW x \in Segments, NEW w \in Seq(Words), NEW s \in Seq(Words),
         k.state = "CLOSED", Sendable(x, s), IsSyn(x), Len(w) = 0
  PROVE  Effect(SynRcvd(p, x), p, k, x, w, s)
<1> DEFINE c == [state |-> "SYN_RCVD", peer |-> p, sndNxt |-> 0, len |-> 1, rcvNxt |-> x.seq + 1]
           y == Control(c, {"syn", "ack"})
<1>1. x.seq = 0
  BY DEF Sendable
<1>2. /\ c \in OpenEntries /\ c.peer = p /\ c.state = "SYN_RCVD"
      /\ c.rcvNxt = 1 /\ c.sndNxt = 0 /\ c.len = 1
  BY <1>1 DEF OpenEntries, OpenStates
<1>3. SynRcvd(p, x) = Outcome(c, <<y>>, <<>>)
  BY DEF SynRcvd
<1> HIDE DEF c
<1>4. y = Segment({"syn", "ack"}, 0, 1, 0, "none")
  BY <1>2 DEF Control
<1>5. y \in Segments /\ IsSynAck(y)
  <2>1. y \in Segments
    BY <1>4, SegmentType
  <2> QED BY <1>4, <2>1 DEF Segment, IsSynAck
<1> HIDE DEF y
<1>6. Handled(k, x, w, s, c, w)
  BY <1>2 DEF Handled, StateOK
<1>7. Replies(y, x, w, s, c)
  BY <1>5, LenProperties DEF Replies, IsSynAck, AckOK
<1> QED BY <1>2, <1>3, <1>5, <1>6, <1>7, NoLineEffect DEF TableEntries

LEMMA RefuseEffect ==
  ASSUME NEW p \in Peers, NEW k, NEW x \in Segments, NEW w \in Seq(Words), NEW s,
         k = Closed, ~IsSyn(x)
  PROVE  Effect(Outcome(Closed, Refuse(x), <<>>), p, k, x, w, s)
<1>1. Handled(k, x, w, s, Closed, w)
  BY DEF Handled, StateOK, Closed
<1>2. "rst" \notin x.flags =>
        \E y \in Segments : Refuse(x) = <<y>> /\ Replies(y, x, w, s, Closed)
  <2> DEFINE y == Segment({"rst", "ack"}, x.ack, x.seq + 1, 0, "none")
  <2>1. y \in Segments
    <3>1. x.ack \in Nat /\ x.seq + 1 \in Nat
      BY DEF Segments
    <3> QED BY <3>1, SegmentType
  <2>2. Replies(y, x, w, s, Closed)
    BY DEF Replies, Segment, Closed
  <2> QED BY <2>1, <2>2 DEF Refuse
<1>3. Refuse(x) = <<>> \/ \E y \in Segments : Refuse(x) = <<y>> /\ Replies(y, x, w, s, Closed)
  BY <1>2 DEF Refuse
<1> QED BY <1>1, <1>3, NoLineEffect DEF TableEntries

-----------------------------------------------------------------------------
(* The answers to a peer that waits for them, without loss *)

\* The prompt is the first answer, and line i - 1 has answer i.
Answer(s, i) ==
  LET text == IF i > 1 /\ s[i - 1] = "h" THEN "ok" ELSE "prompt"
  IN [text |-> text, len |-> AnswerLength(text)]

NoData(t) == \A j \in 1..Len(t) : t[j].len = 0
Ender(y)  == y.flags \in {{"fin", "ack"}, {"rst", "ack"}}

\* The answer to what was looked at last is on its way, or the peer has it.
AwaitedAt(j, k, t, e, w, s) ==
  /\ t[j].seq = e.rcv /\ t[j].flags = {"ack"} /\ t[j].len = k.len
  /\ [text |-> t[j].text, len |-> t[j].len] = Answer(s, Len(w) + 1)
  /\ \A i \in 1..Len(t) : i # j => t[i].len = 0
Awaiting(k, t, e, w, s) ==
  /\ Len(e.got) = Len(w) /\ k.sndNxt = e.rcv
  /\ \E j \in 1..Len(t) : AwaitedAt(j, k, t, e, w, s)
Answered(k, t, e, w, s) ==
  /\ Len(e.got) = Len(w) + 1 /\ NoData(t)
  /\ \/ k.len = 0 /\ k.sndNxt = e.rcv
     \/ k.sndNxt + k.len = e.rcv
     \/ k.sndNxt = e.rcv /\ e.nxt = Len(s) + 2

\* A peer that waits sends a line when it has the answer to the line before; once
\* the device or the peer has ended the session nothing is said with data.
GotOK(e, s)  == \A i \in 1..Len(e.got) : e.got[i] = Answer(s, i)
AcksOK(q, e) == \A j \in 1..Len(q) : q[j].ack <= e.rcv /\ "rst" \notin q[j].flags
NextOK(q, e, w) ==
  \A j \in 1..Len(q) :
    IsLine(q[j]) /\ q[j].seq = Len(w) + 1 => q[j].ack = e.rcv /\ Len(e.got) = Len(w) + 1
Sending(k, q, t, e, w, s) ==
  /\ k.state = "ESTABLISHED" =>
       /\ Awaiting(k, t, e, w, s) \/ Answered(k, t, e, w, s)
       /\ e.una < e.nxt => Len(e.got) >= e.una
       /\ NextOK(q, e, w)
  /\ k.state # "ESTABLISHED" => NoData(t)
Ending(k, q, t, e) ==
  /\ e.fin \/ e.state = "reset" \/ (\E j \in 1..Len(t) : Ender(t[j])) => ~Alive(k, q)
  /\ e.state = "reset" \/ (\E j \in 1..Len(t) : "rst" \in t[j].flags) => k.state = "CLOSED"

AnswerOK(k, q, t, e, w, s) ==
  GotOK(e, s) /\ AcksOK(q, e) /\ Sending(k, q, t, e, w, s) /\ Ending(k, q, t, e)

LEMMA AnswerIs ==
  ASSUME NEW s, NEW i \in Nat
  PROVE  /\ Answer(s, i).len > 0 /\ Answer(s, i).len \in Nat
         /\ i > 1 /\ s[i - 1] = "h" => Answer(s, i) = [text |-> "ok", len |-> 3]
         /\ ~(i > 1 /\ s[i - 1] = "h") => Answer(s, i) = [text |-> "prompt", len |-> 2]
BY DEF Answer, AnswerLength

LEMMA EnderIs ==
  ASSUME NEW y \in Segments
  PROVE  "fin" \in y.flags \/ "rst" \in y.flags <=> Ender(y)
BY DEF Segments, Ender

LEMMA SynAckIs ==
  ASSUME NEW y, IsSynAck(y)
  PROVE  ~Ender(y) /\ "rst" \notin y.flags /\ y.len = 0
<1>1. "fin" \notin y.flags /\ "rst" \notin y.flags
  BY DEF IsSynAck
<1>2. Ender(y) => "fin" \in y.flags \/ "rst" \in y.flags
  BY DEF Ender
<1> QED BY <1>1, <1>2 DEF IsSynAck

LEMMA AnswerEvict ==
  ASSUME NEW k, NEW q, NEW t, NEW e, NEW w, NEW s,
         AnswerOK(k, q, t, e, w, s), k.state = "TIME_WAIT"
  PROVE  AnswerOK(Closed, q, t, e, w, s)
<1>1. Closed.state = "CLOSED"
  BY DEF Closed
<1>2. Alive(Closed, q) => Alive(k, q)
  BY <1>1 DEF Alive, Young
<1>3. Ending(Closed, q, t, e)
  BY <1>1, <1>2 DEF AnswerOK, Ending
<1>4. Sending(Closed, q, t, e, w, s)
  BY <1>1 DEF AnswerOK, Sending
<1> QED BY <1>3, <1>4 DEF AnswerOK

\* The SYN of a peer, for the first time or once more.
LEMMA AnswerSyn ==
  ASSUME NEW k, NEW q, NEW t, NEW e, NEW w, NEW s, Types(k, q, t, e, w, s),
         SessionOK(k, q, t, e, w, s), AnswerOK(k, q, t, e, w, s), e.state \in {"idle", "syn_sent"},
         NEW x, IsSyn(x), x.seq = 0, x.ack = 0, x.len = 0, NEW q2, IsAppend(q2, q, x),
         NEW e2, e2.state = "syn_sent", e2.rcv = e.rcv, e2.got = e.got, e2.fin = e.fin
  PROVE  AnswerOK(k, q2, t, e2, w, s)
<1>1. /\ Len(q) \in Nat /\ Len(t) \in Nat /\ e.rcv \in Nat
      /\ Len(q2) = Len(q) + 1 /\ q2[Len(q) + 1] = x /\ \A j \in 1..Len(q) : q2[j] = q[j]
  BY Fields DEF IsAppend
<1>2. /\ k.state \in {"CLOSED", "SYN_RCVD"} /\ ~e.fin
      /\ \A j \in 1..Len(t) : IsSynAck(t[j])
  BY <1>1 DEF SessionOK, RemoteOK
<1>3. AcksOK(q2, e2)
  <2>1. \A j \in 1..Len(q) : q[j].ack <= e2.rcv /\ "rst" \notin q[j].flags
    BY DEF AnswerOK, AcksOK
  <2>2. x.ack <= e2.rcv /\ "rst" \notin x.flags
    BY <1>1 DEF IsSyn
  <2> QED BY <1>1, <2>1, <2>2 DEF AcksOK
<1>4. \A j \in 1..Len(t) : ~Ender(t[j]) /\ "rst" \notin t[j].flags
  BY <1>2, SynAckIs
<1>5. Ending(k, q2, t, e2)
  BY <1>2, <1>4 DEF Ending
<1>6. Sending(k, q2, t, e2, w, s)
  BY <1>2 DEF AnswerOK, Sending
<1>7. GotOK(e2, s)
  BY DEF AnswerOK, GotOK
<1> QED BY <1>3, <1>5, <1>6, <1>7 DEF AnswerOK

\* What else a peer sends.
LEMMA AnswerSend ==
  ASSUME NEW k, NEW q, NEW t, NEW e, NEW w, NEW s, Types(k, q, t, e, w, s),
         AnswerOK(k, q, t, e, w, s), e.state = "established",
         NEW x \in Segments, ~IsSyn(x), "rst" \notin x.flags, x.ack = e.rcv,
         NEW q2, IsAppend(q2, q, x),
         NEW e2, e2.una = e.una, e2.rcv = e.rcv, e2.got = e.got, e2.fin = e.fin, e2.state = e.state,
         \/ ~IsLine(x) /\ e2.nxt = e.nxt
         \/ e2.nxt = e.nxt /\ x.seq = e.una /\ e.una < e.nxt
         \/ /\ e2.nxt = e.nxt + 1 /\ x.seq = e.nxt /\ e.nxt <= Len(s) + 1
            /\ e.una = e.nxt /\ (e.fin \/ Len(e.got) = e.nxt)
  PROVE  AnswerOK(k, q2, t, e2, w, s)
<1>1. /\ Len(q) \in Nat /\ Len(w) \in Nat /\ Len(s) \in Nat /\ Len(e.got) \in Nat /\ e.rcv \in Nat
      /\ e.una \in Nat /\ e.nxt \in Nat /\ x.seq \in Nat
      /\ \A j \in 1..Len(q) : q[j].seq \in Nat /\ q[j].ack \in Nat
      /\ Len(q2) = Len(q) + 1 /\ q2[Len(q) + 1] = x /\ \A j \in 1..Len(q) : q2[j] = q[j]
  BY Fields DEF IsAppend, Segments
<1>2. HasSyn(q2) => HasSyn(q)
  BY <1>1 DEF HasSyn
<1>3. Alive(k, q2) => Alive(k, q)
  BY <1>2 DEF Alive, Young
<1>4. Ending(k, q2, t, e2)
  BY <1>3 DEF AnswerOK, Ending
<1>5. AcksOK(q2, e2)
  <2>1. \A j \in 1..Len(q) : q[j].ack <= e2.rcv /\ "rst" \notin q[j].flags
    BY DEF AnswerOK, AcksOK
  <2>2. x.ack <= e2.rcv /\ "rst" \notin x.flags
    BY <1>1
  <2>3. \A j \in 1..Len(q2) : j \in 1..Len(q) \/ q2[j] = x
    BY <1>1
  <2> QED BY <1>1, <2>1, <2>2, <2>3 DEF AcksOK
<1>6. GotOK(e2, s)
  BY DEF AnswerOK, GotOK
<1>7. ASSUME k.state = "ESTABLISHED"
      PROVE  /\ Awaiting(k, t, e2, w, s) \/ Answered(k, t, e2, w, s)
             /\ e2.una < e2.nxt => Len(e2.got) >= e2.una
             /\ NextOK(q2, e2, w)
  <2>1. ~e.fin
    BY <1>7 DEF AnswerOK, Ending, Alive
  <2>2. /\ Awaiting(k, t, e, w, s) \/ Answered(k, t, e, w, s)
        /\ e.una < e.nxt => Len(e.got) >= e.una
        /\ NextOK(q, e, w)
    BY <1>7 DEF AnswerOK, Sending
  <2>3. Awaiting(k, t, e, w, s) => Awaiting(k, t, e2, w, s)
    BY DEF Awaiting, AwaitedAt
  <2>4. Answered(k, t, e, w, s) => Answered(k, t, e2, w, s)
    BY <1>1 DEF Answered
  <2>5. e2.una < e2.nxt => Len(e2.got) >= e2.una
    BY <1>1, <2>1, <2>2
  <2>6. IsLine(x) /\ x.seq = Len(w) + 1 => Len(e.got) = Len(w) + 1
    <3>1. Len(e.got) = Len(w) \/ Len(e.got) = Len(w) + 1
      BY <2>2 DEF Awaiting, Answered
    <3> QED BY <1>1, <2>1, <2>2, <3>1
  <2>7. NextOK(q2, e2, w)
    <3>1. ASSUME NEW j \in 1..Len(q2), IsLine(q2[j]), q2[j].seq = Len(w) + 1
          PROVE  q2[j].ack = e2.rcv /\ Len(e2.got) = Len(w) + 1
      <4>1. j \in 1..Len(q) \/ q2[j] = x
        BY <1>1
      <4>2. CASE q2[j] = x
        BY <2>6, <3>1, <4>2
      <4>3. CASE j \in 1..Len(q)
        BY <1>1, <2>2, <3>1, <4>3 DEF NextOK
      <4> QED BY <4>1, <4>2, <4>3
    <3> QED BY <3>1 DEF NextOK
  <2> QED BY <2>2, <2>3, <2>4, <2>5, <2>7
<1>8. Sending(k, q2, t, e2, w, s)
  BY <1>7 DEF AnswerOK, Sending
<1> QED BY <1>4, <1>5, <1>6, <1>8 DEF AnswerOK

LEMMA TailOf ==
  ASSUME NEW t \in Seq(Segments), NEW t2, IsTail(t2, t)
  PROVE  /\ 1 \in 1..Len(t) /\ t[1] \in Segments /\ t[1].len \in Nat
         /\ \A j \in 1..Len(t2) : j + 1 \in 1..Len(t) /\ t2[j] = t[j + 1]
         /\ NoData(t) => t[1].len = 0 /\ NoData(t2)
         /\ (\E j \in 1..Len(t2) : Ender(t2[j])) => \E j \in 1..Len(t) : Ender(t[j])
         /\ (\E j \in 1..Len(t2) : "rst" \in t2[j].flags) => \E j \in 1..Len(t) : "rst" \in t[j].flags
<1>1. Len(t) \in Nat /\ Len(t) > 0 /\ Len(t2) = Len(t) - 1 /\ \A j \in 1..Len(t2) : t2[j] = t[j + 1]
  BY LenNat DEF IsTail
<1>2. 1 \in 1..Len(t) /\ t[1] \in Segments /\ t[1].len \in Nat
  <2>1. 1 \in 1..Len(t)
    BY <1>1
  <2>2. t[1] \in Segments
    BY <2>1, LenNat
  <2> QED BY <2>1, <2>2 DEF Segments
<1>3. \A j \in 1..Len(t2) : j + 1 \in 1..Len(t) /\ t2[j] = t[j + 1]
  BY <1>1
<1> QED BY <1>2, <1>3 DEF NoData

\* What a peer makes of an answer.
Taken(e, y) ==
  LET fresh == y.seq = e.rcv
  IN [e EXCEPT !.una = IF y.ack \in (@ + 1)..e.nxt THEN y.ack ELSE @,
               !.rcv = IF fresh THEN @ + y.len + (IF "fin" \in y.flags THEN 1 ELSE 0) ELSE @,
               !.got = IF fresh /\ y.len > 0 THEN Append(@, [text |-> y.text, len |-> y.len]) ELSE @,
               !.fin = @ \/ (fresh /\ "fin" \in y.flags)]

LEMMA TakenIs ==
  ASSUME NEW e \in Remotes, NEW y \in Segments
  PROVE  /\ Taken(e, y) \in Remotes /\ Taken(e, y).state = e.state /\ Taken(e, y).nxt = e.nxt
         /\ Taken(e, y).una = IF y.ack \in (e.una + 1)..e.nxt THEN y.ack ELSE e.una
         /\ Taken(e, y).rcv =
              IF y.seq = e.rcv THEN e.rcv + y.len + (IF "fin" \in y.flags THEN 1 ELSE 0) ELSE e.rcv
         /\ Taken(e, y).got =
              IF y.seq = e.rcv /\ y.len > 0 THEN Append(e.got, [text |-> y.text, len |-> y.len]) ELSE e.got
         /\ Taken(e, y).fin = (e.fin \/ (y.seq = e.rcv /\ "fin" \in y.flags))
         /\ Len(Taken(e, y).got) >= Len(e.got)
<1> DEFINE una == IF y.ack \in (e.una + 1)..e.nxt THEN y.ack ELSE e.una
           rcv == IF y.seq = e.rcv THEN e.rcv + y.len + (IF "fin" \in y.flags THEN 1 ELSE 0) ELSE e.rcv
           got == IF y.seq = e.rcv /\ y.len > 0 THEN Append(e.got, [text |-> y.text, len |-> y.len]) ELSE e.got
           fin == e.fin \/ (y.seq = e.rcv /\ "fin" \in y.flags)
           e2 == [e EXCEPT !.una = una, !.rcv = rcv, !.got = got, !.fin = fin]
<1>1. Taken(e, y) = e2
  BY DEF Taken
<1>2. /\ e.una \in Nat /\ e.nxt \in Nat /\ e.rcv \in Nat /\ e.fin \in BOOLEAN
      /\ e.got \in Seq([text : Texts, len : Nat])
  BY DEF Remotes
<1>3. y.ack \in Nat /\ y.len \in Nat /\ [text |-> y.text, len |-> y.len] \in [text : Texts, len : Nat]
  BY DEF Segments
<1>4. una \in Nat /\ rcv \in Nat
  BY <1>2, <1>3
<1>5. got \in Seq([text : Texts, len : Nat]) /\ Len(got) >= Len(e.got)
  <2> DEFINE r == [text |-> y.text, len |-> y.len]
             T == [text : Texts, len : Nat]
  <2>1. Append(e.got, r) \in Seq(T) /\ Len(Append(e.got, r)) = Len(e.got) + 1
    BY <1>2, <1>3, AppendProperties
  <2>2. Len(e.got) \in Nat
    BY <1>2, LenProperties
  <2> HIDE DEF r, T
  <2>3. got = e.got \/ got = Append(e.got, r)
    BY DEF r
  <2>4. e.got \in Seq(T)
    BY <1>2 DEF T
  <2> HIDE DEF got
  <2>5. got \in Seq(T)
    BY <2>1, <2>3, <2>4
  <2>6. Len(got) >= Len(e.got)
    <3>1. Len(got) = Len(e.got) \/ Len(got) = Len(e.got) + 1
      BY <2>1, <2>3
    <3> QED BY <2>2, <3>1
  <2> QED BY <2>5, <2>6 DEF T
<1>6. fin \in BOOLEAN
  BY <1>2
<1> HIDE DEF una, rcv, got, fin
<1>7. /\ e2 \in Remotes /\ e2.state = e.state /\ e2.nxt = e.nxt /\ e2.una = una /\ e2.rcv = rcv
      /\ e2.got = got /\ e2.fin = fin
  BY <1>4, <1>5, <1>6 DEF Remotes
<1> HIDE DEF e2
<1> QED BY <1>1, <1>5, <1>7 DEF una, rcv, got, fin

\* The peer of a connection that is not established takes what has no data for it.
LEMMA AnswerDrop ==
  ASSUME NEW k, NEW q, NEW t, NEW e, NEW w, NEW s, Types(k, q, t, e, w, s),
         AnswerOK(k, q, t, e, w, s), k.state # "ESTABLISHED", NEW t2, IsTail(t2, t),
         NEW e2 \in Remotes, e2.got = e.got, e2.rcv >= e.rcv,
         e2.fin => e.fin \/ Ender(t[1]),
         e2.state = "reset" => e.state = "reset" \/ "rst" \in t[1].flags
  PROVE  AnswerOK(k, q, t2, e2, w, s)
<1>1. t \in Seq(Segments) /\ e.rcv \in Nat /\ e2.rcv \in Nat /\ \A j \in 1..Len(q) : q[j].ack \in Nat
  BY Fields DEF Types, Remotes
<1>2. /\ 1 \in 1..Len(t) /\ t[1] \in Segments /\ (NoData(t) => NoData(t2))
      /\ (\E j \in 1..Len(t2) : Ender(t2[j])) => \E j \in 1..Len(t) : Ender(t[j])
      /\ (\E j \in 1..Len(t2) : "rst" \in t2[j].flags) => \E j \in 1..Len(t) : "rst" \in t[j].flags
  BY <1>1, TailOf
<1>3. GotOK(e2, s)
  BY DEF AnswerOK, GotOK
<1>4. AcksOK(q, e2)
  <2>1. \A j \in 1..Len(q) : q[j].ack <= e.rcv /\ "rst" \notin q[j].flags
    BY DEF AnswerOK, AcksOK
  <2>2. \A j \in 1..Len(q) : q[j].ack <= e2.rcv
    BY <1>1, <2>1
  <2> QED BY <2>1, <2>2 DEF AcksOK
<1>5. Sending(k, q, t2, e2, w, s)
  BY <1>2 DEF AnswerOK, Sending
<1>6. "rst" \in t[1].flags => Ender(t[1])
  BY <1>2, EnderIs
<1>7. Ending(k, q, t2, e2)
  <2>1. /\ e.fin \/ e.state = "reset" \/ (\E j \in 1..Len(t) : Ender(t[j])) => ~Alive(k, q)
        /\ e.state = "reset" \/ (\E j \in 1..Len(t) : "rst" \in t[j].flags) => k.state = "CLOSED"
    BY DEF AnswerOK, Ending
  <2>2. e2.fin \/ e2.state = "reset" \/ (\E j \in 1..Len(t2) : Ender(t2[j])) => ~Alive(k, q)
    BY <1>2, <1>6, <2>1
  <2>3. e2.state = "reset" \/ (\E j \in 1..Len(t2) : "rst" \in t2[j].flags) => k.state = "CLOSED"
    BY <1>2, <2>1
  <2> QED BY <2>2, <2>3 DEF Ending
<1> QED BY <1>3, <1>4, <1>5, <1>7 DEF AnswerOK

\* The peer takes the answer it waits for, and nothing has come of it before.
LEMMA AnswerTaken ==
  ASSUME patient, NEW k, NEW q, NEW t, NEW e, NEW w, NEW s, Types(k, q, t, e, w, s),
         SessionOK(k, q, t, e, w, s), AnswerOK(k, q, t, e, w, s),
         k.state = "ESTABLISHED", e.state = "established", NEW t2, IsTail(t2, t),
         NEW e2, e2 = Taken(e, t[1])
  PROVE  AnswerOK(k, q, t2, e2, w, s)
<1> DEFINE y == t[1]
           n == Len(w)
<1>1. /\ Len(t) \in Nat /\ n \in Nat /\ Len(e.got) \in Nat /\ e.rcv \in Nat /\ e.una \in Nat
      /\ e.nxt \in Nat /\ \A j \in 1..Len(q) : q[j].ack \in Nat
      /\ t \in Seq(Segments) /\ e \in Remotes
  BY Fields DEF Types
<1>2. /\ 1 \in 1..Len(t) /\ y \in Segments /\ y.len \in Nat /\ y.ack \in Nat /\ y.seq \in Nat
      /\ \A j \in 1..Len(t2) : j + 1 \in 1..Len(t) /\ t2[j] = t[j + 1]
      /\ NoData(t) => y.len = 0 /\ NoData(t2)
      /\ (\E j \in 1..Len(t2) : Ender(t2[j])) => \E j \in 1..Len(t) : Ender(t[j])
      /\ (\E j \in 1..Len(t2) : "rst" \in t2[j].flags) => \E j \in 1..Len(t) : "rst" \in t[j].flags
  <2>1. 1 \in 1..Len(t) /\ y.ack \in Nat /\ y.seq \in Nat
    BY <1>1, TailOf, Fields
  <2> QED BY <1>1, <2>1, TailOf
<1>3. Len(t2) = Len(t) - 1
  BY DEF IsTail
<1>4. Alive(k, q)
  BY DEF Alive
<1>5. ~e.fin /\ ~(\E j \in 1..Len(t) : Ender(t[j])) /\ ~(\E j \in 1..Len(t) : "rst" \in t[j].flags)
  BY <1>4 DEF AnswerOK, Ending
<1>6. "fin" \notin y.flags
  BY <1>2, <1>5, EnderIs
<1> HIDE DEF y
<1>7. /\ e2 \in Remotes /\ e2.state = e.state /\ e2.nxt = e.nxt /\ ~e2.fin
      /\ e2.una = IF y.ack \in (e.una + 1)..e.nxt THEN y.ack ELSE e.una
      /\ e2.rcv = IF y.seq = e.rcv THEN e.rcv + y.len ELSE e.rcv
      /\ e2.got = IF y.seq = e.rcv /\ y.len > 0 THEN Append(e.got, [text |-> y.text, len |-> y.len]) ELSE e.got
  <2>1. e2 = Taken(e, y)
    BY DEF y
  <2>2. /\ Taken(e, y) \in Remotes /\ Taken(e, y).state = e.state /\ Taken(e, y).nxt = e.nxt
        /\ Taken(e, y).una = IF y.ack \in (e.una + 1)..e.nxt THEN y.ack ELSE e.una
        /\ Taken(e, y).rcv = IF y.seq = e.rcv THEN e.rcv + y.len + 0 ELSE e.rcv
        /\ Taken(e, y).got =
             IF y.seq = e.rcv /\ y.len > 0 THEN Append(e.got, [text |-> y.text, len |-> y.len]) ELSE e.got
        /\ Taken(e, y).fin = (e.fin \/ (y.seq = e.rcv /\ "fin" \in y.flags))
    BY <1>1, <1>2, <1>6, TakenIs
  <2>3. e.rcv + y.len + 0 = e.rcv + y.len
    BY <1>1, <1>2
  <2> QED BY <1>5, <1>6, <2>1, <2>2, <2>3
<1>8. e2.una = e.una \/ e2.una = e.nxt
  <2>1. e.nxt <= e.una + 1
    BY DEF SessionOK, RemoteOK
  <2> QED BY <1>1, <1>2, <1>7, <2>1
<1>9. Ending(k, q, t2, e2)
  BY <1>2, <1>5, <1>7 DEF Ending
<1>10. AcksOK(q, e2)
  <2>1. e2.rcv \in Nat /\ e2.rcv >= e.rcv
    BY <1>1, <1>2, <1>7
  <2>2. \A j \in 1..Len(q) : q[j].ack <= e.rcv /\ "rst" \notin q[j].flags
    BY DEF AnswerOK, AcksOK
  <2>3. \A j \in 1..Len(q) : q[j].ack <= e2.rcv
    BY <1>1, <2>1, <2>2
  <2> QED BY <2>2, <2>3 DEF AcksOK
<1>11. /\ Awaiting(k, t, e, w, s) \/ Answered(k, t, e, w, s)
       /\ e.una < e.nxt => Len(e.got) >= e.una
       /\ NextOK(q, e, w) /\ GotOK(e, s)
  BY DEF AnswerOK, Sending
\* Nothing new in it.
<1>12. ASSUME y.len = 0, Awaiting(k, t2, e, w, s) \/ Answered(k, t2, e, w, s)
       PROVE  AnswerOK(k, q, t2, e2, w, s)
  <2>1. e2.rcv = e.rcv /\ e2.got = e.got
    BY <1>1, <1>7, <1>12
  <2>2. Awaiting(k, t2, e2, w, s) \/ Answered(k, t2, e2, w, s)
    BY <1>7, <1>12, <2>1 DEF Awaiting, AwaitedAt, Answered
  <2>3. e2.una < e2.nxt => Len(e2.got) >= e2.una
    BY <1>1, <1>7, <1>8, <1>11, <2>1
  <2>4. NextOK(q, e2, w) /\ GotOK(e2, s)
    BY <1>11, <2>1 DEF NextOK, GotOK
  <2>5. Sending(k, q, t2, e2, w, s)
    BY <2>2, <2>3, <2>4 DEF Sending
  <2> QED BY <1>9, <1>10, <2>4, <2>5 DEF AnswerOK
<1>13. CASE Answered(k, t, e, w, s)
  <2>1. y.len = 0 /\ Answered(k, t2, e, w, s)
    BY <1>2, <1>13 DEF Answered
  <2> QED BY <1>12, <2>1
<1>14. ASSUME NEW j \in 1..Len(t), AwaitedAt(j, k, t, e, w, s), Len(e.got) = n, k.sndNxt = e.rcv
       PROVE  AnswerOK(k, q, t2, e2, w, s)
  <2>1. /\ t[j].seq = e.rcv /\ t[j].flags = {"ack"} /\ t[j].len = k.len
        /\ [text |-> t[j].text, len |-> t[j].len] = Answer(s, n + 1)
        /\ \A i \in 1..Len(t) : i # j => t[i].len = 0
    BY <1>14 DEF AwaitedAt
  <2>2. CASE j # 1
    <3>1. y.len = 0
      BY <1>2, <2>1, <2>2 DEF y
    <3>2. j - 1 \in 1..Len(t2) /\ (j - 1) + 1 = j
      BY <1>1, <1>3, <2>2
    <3>3. t2[j - 1] = t[j] /\ \A i \in 1..Len(t2) : i # j - 1 => t2[i].len = 0
      <4>1. t2[j - 1] = t[j]
        BY <1>2, <3>2
      <4>2. ASSUME NEW i \in 1..Len(t2), i # j - 1
            PROVE  t2[i].len = 0
        <5>1. i + 1 \in 1..Len(t) /\ i + 1 # j /\ t2[i] = t[i + 1]
          BY <1>1, <1>2, <4>2
        <5> QED BY <2>1, <5>1
      <4> QED BY <4>1, <4>2
    <3>4. AwaitedAt(j - 1, k, t2, e, w, s)
      BY <2>1, <3>3 DEF AwaitedAt
    <3>5. Awaiting(k, t2, e, w, s)
      BY <1>14, <3>2, <3>4 DEF Awaiting
    <3> QED BY <1>12, <3>1, <3>5
  <2>3. CASE j = 1
    <3> DEFINE a == [text |-> y.text, len |-> y.len]
    <3>1. y.seq = e.rcv /\ y.len = k.len /\ a = Answer(s, n + 1) /\ NoData(t2)
      <4>1. \A i \in 1..Len(t2) : t2[i].len = 0
        BY <1>1, <1>2, <2>1, <2>3
      <4> QED BY <2>1, <2>3, <4>1 DEF NoData, y
    <3>2. y.len > 0
      <4>1. a.len = y.len
        OBVIOUS
      <4>2. Answer(s, n + 1).len > 0
        BY <1>1, AnswerIs
      <4> QED BY <3>1, <4>1, <4>2
    <3>3. e2.rcv = k.sndNxt + k.len /\ e2.got = Append(e.got, a)
      BY <1>7, <1>14, <3>1, <3>2
    <3>4. /\ Len(e2.got) = n + 1 /\ e2.got[n + 1] = a /\ \A i \in 1..n : e2.got[i] = e.got[i]
      <4>1. e.got \in Seq([text : Texts, len : Nat]) /\ a \in [text : Texts, len : Nat]
        BY <1>1, <1>2 DEF Remotes, Segments, y
      <4> HIDE DEF a
      <4> QED BY <1>14, <3>3, <4>1, AppendProperties
    <3>5. Answered(k, t2, e2, w, s)
      BY <3>1, <3>3, <3>4 DEF Answered
    <3>6. GotOK(e2, s)
      <4>1. \A i \in 1..n : e.got[i] = Answer(s, i)
        BY <1>11, <1>14 DEF GotOK
      <4>2. \A i \in 1..(n + 1) : i = n + 1 \/ i \in 1..n
        BY <1>1
      <4> QED BY <3>1, <3>4, <4>1, <4>2 DEF GotOK
    <3>7. NextOK(q, e2, w)
      BY <1>1, <1>11, <1>14 DEF NextOK
    <3>8. e2.una < e2.nxt => Len(e2.got) >= e2.una
      BY <1>1, <1>7, <1>8, <1>11, <1>14, <3>4
    <3>9. Sending(k, q, t2, e2, w, s)
      BY <3>5, <3>7, <3>8 DEF Sending
    <3> QED BY <1>9, <1>10, <3>6, <3>9 DEF AnswerOK
  <2> QED BY <2>2, <2>3
<1>15. CASE Awaiting(k, t, e, w, s)
  BY <1>14, <1>15 DEF Awaiting
<1> QED BY <1>11, <1>13, <1>15

LEMMA AnswerTakes ==
  ASSUME patient, NEW k, NEW q, NEW t, NEW e, NEW w, NEW s, Types(k, q, t, e, w, s),
         SessionOK(k, q, t, e, w, s), AnswerOK(k, q, t, e, w, s), e.state = "established",
         NEW t2, IsTail(t2, t), NEW e2, e2 = Taken(e, t[1])
  PROVE  AnswerOK(k, q, t2, e2, w, s)
<1>1. CASE k.state = "ESTABLISHED"
  BY <1>1, AnswerTaken
<1>2. CASE k.state # "ESTABLISHED"
  <2> DEFINE y == t[1]
  <2>1. t \in Seq(Segments) /\ e \in Remotes /\ e.rcv \in Nat
    BY Fields DEF Types
  <2>2. y \in Segments /\ y.len = 0
    BY <1>2, <2>1, TailOf DEF AnswerOK, Sending
  <2> HIDE DEF y
  <2>3. /\ Taken(e, y) \in Remotes /\ Taken(e, y).state = e.state
        /\ Taken(e, y).rcv =
             IF y.seq = e.rcv THEN e.rcv + y.len + (IF "fin" \in y.flags THEN 1 ELSE 0) ELSE e.rcv
        /\ Taken(e, y).got =
             IF y.seq = e.rcv /\ y.len > 0 THEN Append(e.got, [text |-> y.text, len |-> y.len]) ELSE e.got
        /\ Taken(e, y).fin = (e.fin \/ (y.seq = e.rcv /\ "fin" \in y.flags))
    BY <2>1, <2>2, TakenIs
  <2>4. e2 = Taken(e, y)
    BY DEF y
  <2>5. e2 \in Remotes /\ e2.got = e.got /\ e2.rcv >= e.rcv
    BY <2>1, <2>2, <2>3, <2>4
  <2>6. "fin" \in y.flags => Ender(y)
    BY <2>2, EnderIs
  <2>7. (e2.fin => e.fin \/ Ender(y)) /\ e2.state # "reset"
    BY <2>3, <2>4, <2>6
  <2> QED BY <1>2, <2>5, <2>7, AnswerDrop DEF y
<1> QED BY <1>1, <1>2

\* t2 is what is on its way to the peer once out has been sent.
Sent(t2, t, out) == (out = <<>> /\ t2 = t) \/ (\E y \in Segments : out = <<y>> /\ IsAppend(t2, t, y))
Quiet(out)       == out = <<>> \/ \E y \in Segments : out = <<y>> /\ y.len = 0

\* What uip_process says with the outcome o for a connection k.
Closes(o, q2) ==
  \A y : o.out = <<y>> =>
    /\ Ender(y) => ~Alive(o.conn, q2)
    /\ "rst" \in y.flags => o.conn.state = "CLOSED"
Spoken(o, k, q2, t2, e, w, s) ==
  /\ k.state = "CLOSED" => o.conn.state \in {"CLOSED", "SYN_RCVD"}
  /\ Closes(o, q2) /\ Sending(o.conn, q2, t2, e, w \o o.line, s)

LEMMA SentIs ==
  ASSUME NEW t \in Seq(Segments), NEW out, NEW t2, Sent(t2, t, out)
  PROVE  /\ Len(t2) \in Nat /\ Len(t) \in Nat /\ Len(t2) >= Len(t)
         /\ \A j \in 1..Len(t) : j \in 1..Len(t2) /\ t2[j] = t[j]
         /\ \A j \in 1..Len(t2) : j \in 1..Len(t) \/ out = <<t2[j]>>
         /\ \A y : out = <<y>> => Len(t2) = Len(t) + 1 /\ t2[Len(t2)] = y
         /\ Quiet(out) => \A j \in 1..Len(t2) : j \in 1..Len(t) \/ t2[j].len = 0
<1>1. Len(t) \in Nat
  BY LenNat
<1>2. CASE out = <<>> /\ t2 = t
  BY <1>1, <1>2
<1>3. ASSUME NEW z \in Segments, out = <<z>>, IsAppend(t2, t, z)
      PROVE  /\ Len(t2) \in Nat /\ Len(t2) >= Len(t)
             /\ \A j \in 1..Len(t) : j \in 1..Len(t2) /\ t2[j] = t[j]
             /\ \A j \in 1..Len(t2) : j \in 1..Len(t) \/ out = <<t2[j]>>
             /\ \A y : out = <<y>> => Len(t2) = Len(t) + 1 /\ t2[Len(t2)] = y
             /\ Quiet(out) => \A j \in 1..Len(t2) : j \in 1..Len(t) \/ t2[j].len = 0
  <2>1. Len(t2) = Len(t) + 1 /\ t2[Len(t2)] = z /\ \A j \in 1..Len(t) : t2[j] = t[j]
    BY <1>3 DEF IsAppend
  <2>2. \A j \in 1..Len(t2) : j \in 1..Len(t) \/ j = Len(t2)
    BY <1>1, <2>1
  <2>3. \A y : out = <<y>> => y = z
    BY <1>3
  <2>4. Quiet(out) => z.len = 0
    BY <1>3, <2>3 DEF Quiet
  <2>5. Len(t2) \in Nat /\ Len(t2) >= Len(t) /\ \A j \in 1..Len(t) : j \in 1..Len(t2)
    BY <1>1, <2>1
  <2> QED BY <1>3, <2>1, <2>2, <2>3, <2>4, <2>5
<1> QED BY <1>1, <1>2, <1>3 DEF Sent

\* Without data what is on its way is what was.
LEMMA QuietKeeps ==
  ASSUME NEW t \in Seq(Segments), NEW out, Quiet(out), NEW t2, Sent(t2, t, out)
  PROVE  /\ NoData(t) => NoData(t2)
         /\ \A k, k2, e, w, s : Awaiting(k, t, e, w, s) /\ k2.sndNxt = k.sndNxt /\ k2.len = k.len =>
              Awaiting(k2, t2, e, w, s)
<1>1. /\ \A j \in 1..Len(t) : j \in 1..Len(t2) /\ t2[j] = t[j]
      /\ \A j \in 1..Len(t2) : j \in 1..Len(t) \/ t2[j].len = 0
  BY SentIs
<1>2. NoData(t) => NoData(t2)
  BY <1>1 DEF NoData
<1>3. ASSUME NEW k, NEW k2, NEW e, NEW w, NEW s,
             Awaiting(k, t, e, w, s), k2.sndNxt = k.sndNxt, k2.len = k.len
      PROVE  Awaiting(k2, t2, e, w, s)
  <2>1. PICK j \in 1..Len(t) : AwaitedAt(j, k, t, e, w, s)
    BY <1>3 DEF Awaiting
  <2>2. j \in 1..Len(t2) /\ t2[j] = t[j] /\ \A i \in 1..Len(t2) : i # j => t2[i].len = 0
    BY <1>1, <2>1 DEF AwaitedAt
  <2>3. AwaitedAt(j, k2, t2, e, w, s)
    BY <1>3, <2>1, <2>2 DEF AwaitedAt
  <2> QED BY <1>3, <2>2, <2>3 DEF Awaiting
<1> QED BY <1>2, <1>3

\* What is to come is handled later.
LEMMA NextKeeps ==
  ASSUME NEW q \in Seq(Segments), NEW q2, IsTail(q2, q), NEW e, NEW w, NextOK(q, e, w)
  PROVE  NextOK(q2, e, w)
<1>1. \A j \in 1..Len(q2) : j + 1 \in 1..Len(q) /\ q2[j] = q[j + 1]
  BY TailOf
<1> QED BY <1>1 DEF NextOK

\* A connection that is not established any more says nothing with data.
LEMMA SilentSpoken ==
  ASSUME NEW o, NEW k, NEW q2, NEW t \in Seq(Segments), NEW t2, NEW e, NEW w, NEW s,
         NoData(t), Quiet(o.out), Sent(t2, t, o.out), o.conn.state # "ESTABLISHED",
         k.state = "CLOSED" => o.conn.state \in {"CLOSED", "SYN_RCVD"}, Closes(o, q2)
  PROVE  Spoken(o, k, q2, t2, e, w, s)
<1>1. NoData(t2)
  BY QuietKeeps
<1> QED BY <1>1 DEF Spoken, Sending

\* Where nothing changes and there is no data nothing changes for the peer.
LEMMA SameSpoken ==
  ASSUME NEW k, NEW k2, NEW q, NEW t, NEW e, NEW w, NEW s, Types(k, q, t, e, w, s),
         AnswerOK(k, q, t, e, w, s), k.state # "CLOSED",
         k2.state = k.state, k2.sndNxt = k.sndNxt, k2.len = k.len,
         NEW q2, IsTail(q2, q), NEW out, Quiet(out), NEW t2, Sent(t2, t, out),
         \A y : out = <<y>> => ~Ender(y) /\ "rst" \notin y.flags
  PROVE  Spoken(Outcome(k2, out, <<>>), k, q2, t2, e, w, s)
<1> DEFINE o == Outcome(k2, out, <<>>)
<1>1. /\ o.conn = k2 /\ o.out = out /\ o.line = <<>> /\ w \o <<>> = w
      /\ t \in Seq(Segments) /\ q \in Seq(Segments)
  BY ConcatEmptySeq DEF Outcome, Types
<1> HIDE DEF o
<1>2. Closes(o, q2)
  BY <1>1 DEF Closes
<1>3. Sending(k, q, t, e, w, s)
  BY DEF AnswerOK
<1>4. /\ NoData(t) => NoData(t2)
      /\ Awaiting(k, t, e, w, s) => Awaiting(k2, t2, e, w, s)
  BY <1>1, QuietKeeps
<1>5. Answered(k, t, e, w, s) => Answered(k2, t2, e, w, s)
  BY <1>4 DEF Answered
<1>6. NextOK(q, e, w) => NextOK(q2, e, w)
  BY <1>1, NextKeeps
<1>7. Sending(k2, q2, t2, e, w, s)
  BY <1>3, <1>4, <1>5, <1>6 DEF Sending
<1>8. Spoken(o, k, q2, t2, e, w, s)
  BY <1>1, <1>2, <1>7 DEF Spoken
<1> QED BY <1>8 DEF o

\* A session without loss of a peer that waits, and the first segment from it.
Hearing(k, q, t, e, w, s, q2) ==
  /\ Types(k, q, t, e, w, s) /\ SessionOK(k, q, t, e, w, s) /\ AnswerOK(k, q, t, e, w, s)
  /\ Len(q) > 0 /\ IsTail(q2, q)

LEMMA HeardFirst ==
  ASSUME patient, NEW k, NEW q, NEW t, NEW e, NEW w, NEW s, NEW q2, Hearing(k, q, t, e, w, s, q2)
  PROVE  /\ q[1] \in Segments /\ q[1].seq \in Nat /\ q[1].ack \in Nat /\ q[1].len \in Nat
         /\ t \in Seq(Segments) /\ w \in Seq(Words) /\ s \in Seq(Words)
         /\ Len(w) \in Nat /\ Len(s) \in Nat /\ Len(e.got) \in Nat
         /\ e.una \in Nat /\ e.nxt \in Nat /\ e.rcv \in Nat
         /\ Sendable(q[1], s) /\ "rst" \notin q[1].flags /\ q[1].ack <= e.rcv
         /\ IsNumbered(q[1]) => q[1].seq < e.nxt
         /\ HasSyn(q2) => IsSyn(q[1]) /\ HasSyn(q) /\ k.state \in {"CLOSED", "SYN_RCVD"}
         /\ IsSyn(q[1]) => k.state \in {"CLOSED", "SYN_RCVD"}
         /\ e.una <= e.nxt /\ e.nxt <= Len(s) + 2 /\ e.nxt <= e.una + 1 /\ AckOK(e.una, w, s)
<1>1. /\ Types(k, q, t, e, w, s) /\ SessionOK(k, q, t, e, w, s) /\ AnswerOK(k, q, t, e, w, s)
      /\ Len(q) > 0 /\ IsTail(q2, q)
  BY DEF Hearing
<1>2. /\ Len(q) \in Nat /\ Len(w) \in Nat /\ Len(s) \in Nat /\ Len(e.got) \in Nat /\ 1 \in 1..Len(q)
      /\ e.una \in Nat /\ e.nxt \in Nat /\ e.rcv \in Nat
      /\ q[1] \in Segments /\ q[1].seq \in Nat /\ q[1].ack \in Nat /\ q[1].len \in Nat
  BY <1>1, Fields
<1>3. /\ Sendable(q[1], s) /\ (IsNumbered(q[1]) => q[1].seq < e.nxt)
      /\ \A j \in 1..Len(q) : IsSyn(q[j]) => \A i \in 1..(j - 1) : IsSyn(q[i])
  BY <1>1, <1>2 DEF SessionOK, QueueOK
<1>4. "rst" \notin q[1].flags /\ q[1].ack <= e.rcv
  BY <1>1, <1>2 DEF AnswerOK, AcksOK
<1>5. HasSyn(q) => k.state \in {"CLOSED", "SYN_RCVD"}
  BY <1>1 DEF SessionOK, YoungOK
<1>6. IsSyn(q[1]) => HasSyn(q)
  BY <1>2 DEF HasSyn
<1>7. HasSyn(q2) => IsSyn(q[1])
  <2>1. Len(q2) = Len(q) - 1 /\ \A j \in 1..Len(q2) : q2[j] = q[j + 1]
    BY <1>1 DEF IsTail
  <2>2. ASSUME NEW j \in 1..Len(q2), IsSyn(q2[j])
        PROVE  IsSyn(q[1])
    <3>1. j + 1 \in 1..Len(q) /\ 1 \in 1..((j + 1) - 1) /\ q[j + 1] = q2[j]
      BY <1>2, <2>1
    <3> QED BY <1>3, <2>2, <3>1
  <2> QED BY <2>2 DEF HasSyn
<1>8. e.una <= e.nxt /\ e.nxt <= Len(s) + 2 /\ e.nxt <= e.una + 1 /\ AckOK(e.una, w, s)
  BY <1>1 DEF SessionOK, RemoteOK
<1> QED BY <1>1, <1>2, <1>3, <1>4, <1>5, <1>6, <1>7, <1>8 DEF Types

LEMMA RepeatSpoken ==
  ASSUME patient, NEW k, NEW q, NEW t, NEW e, NEW w, NEW s, NEW q2, Hearing(k, q, t, e, w, s, q2),
         k \in OpenEntries, ~Expected(k, q[1]), NEW t2, Sent(t2, t, Found(k, q[1]).out)
  PROVE  Spoken(Found(k, q[1]), k, q2, t2, e, w, s)
<1> DEFINE y == Segment({"ack"}, k.sndNxt, k.rcvNxt, 0, "none")
<1>1. Found(k, q[1]) = Outcome(k, <<y>>, <<>>)
  BY HeardFirst, FoundUnexpected
<1>2. y \in Segments /\ y.flags = {"ack"} /\ y.len = 0
  <2>1. k.sndNxt \in Nat /\ k.rcvNxt \in Nat
    BY EntryIs
  <2> QED BY <2>1, SegmentType DEF Segment
<1> HIDE DEF y
<1>3. \A z : <<y>> = <<z>> => ~Ender(z) /\ "rst" \notin z.flags
  BY <1>2, EnderIs
<1>4. Quiet(<<y>>) /\ Sent(t2, t, <<y>>)
  <2>1. Found(k, q[1]).out = <<y>>
    BY <1>1 DEF Outcome
  <2> QED BY <1>2, <2>1 DEF Quiet
<1> QED BY <1>1, <1>3, <1>4, SameSpoken, OpenIsOpen DEF Hearing

LEMMA SynRcvdSpoken ==
  ASSUME patient, NEW k, NEW q, NEW t, NEW e, NEW w, NEW s, NEW q2, Hearing(k, q, t, e, w, s, q2),
         k \in OpenEntries, k.state = "SYN_RCVD", NEW t2, Sent(t2, t, Found(k, q[1]).out)
  PROVE  Spoken(Found(k, q[1]), k, q2, t2, e, w, s)
<1> DEFINE x == q[1]
           o == Entry("ESTABLISHED", k, SndNxt(k, x), 2, k.rcvNxt)
           y == Segment({"ack"}, SndNxt(k, x), k.rcvNxt, 2, "prompt")
<1>1. /\ x \in Segments /\ Len(w) \in Nat /\ Len(s) \in Nat /\ Len(e.got) \in Nat /\ w \in Seq(Words)
      /\ e.una \in Nat /\ e.nxt \in Nat /\ "rst" \notin x.flags /\ t \in Seq(Segments)
      /\ e.una <= e.nxt /\ e.nxt <= Len(s) + 2
  BY HeardFirst
<1>2. /\ Types(k, q, t, e, w, s) /\ SessionOK(k, q, t, e, w, s) /\ AnswerOK(k, q, t, e, w, s)
      /\ Len(q) > 0 /\ IsTail(q2, q)
  BY DEF Hearing
<1>3. /\ QueueOK(q, s, e.nxt) /\ StateOK(k, w, s) /\ RemoteOK(k, q, t, e, w, s)
      /\ YoungOK(k, q, t, e, w)
  BY <1>2 DEF SessionOK
<1>4. /\ Len(e.got) = 0 /\ (e.state = "established" => e.rcv = 1)
      /\ \A j \in 1..Len(t) : IsSynAck(t[j])
      /\ \A j \in 1..Len(q) : IsNumbered(q[j]) => \E i \in 1..(j - 1) : IsGreeting(q[i])
  BY <1>3 DEF YoungOK, Young
<1>5. Len(w) = 0 /\ k.rcvNxt = 1 /\ k.sndNxt = 0 /\ k.len = 1
  BY <1>3 DEF StateOK
<1>6. 1 \in 1..Len(q) /\ x.len = 0
  <2>1. 1 \in 1..Len(q)
    BY <1>2, Fields
  <2>2. ~IsNumbered(x)
    BY <1>4, <2>1
  <2>3. x.len \in Nat
    BY HeardFirst
  <2> QED BY <2>1, <2>2, <2>3 DEF IsNumbered, IsLine
<1>7. /\ ~Acked(k, x) => Found(k, x) = Outcome(k, <<>>, <<>>)
      /\ Acked(k, x) => Found(k, x) = Outcome(o, <<y>>, <<>>)
  BY <1>1, <1>6, FoundSynRcvd
<1>8. CASE ~Acked(k, x)
  <2>1. Found(k, x).out = <<>>
    BY <1>7, <1>8 DEF Outcome
  <2>2. Quiet(<<>>) /\ Sent(t2, t, <<>>) /\ \A z : <<>> = <<z>> => ~Ender(z) /\ "rst" \notin z.flags
    BY <2>1 DEF Quiet
  <2>3. Spoken(Outcome(k, <<>>, <<>>), k, q2, t2, e, w, s)
    BY <1>2, <2>2, SameSpoken
  <2> QED BY <1>7, <1>8, <2>3
<1>9. CASE Acked(k, x)
  <2>1. SndNxt(k, x) = 1 /\ "ack" \in x.flags
    BY <1>5, <1>9 DEF SndNxt, Acked
  <2>2. e.state = "established" /\ e.rcv = 1
    <3>1. ~IsSyn(x)
      BY <2>1 DEF IsSyn
    <3>2. e.state \notin {"idle", "syn_sent"}
      BY <1>2, <1>3, <1>6, <3>1 DEF RemoteOK
    <3>3. e.state # "reset"
      BY <1>2 DEF AnswerOK, Ending
    <3>4. e.state \in {"idle", "syn_sent", "established", "reset"}
      BY <1>2 DEF Types, Remotes
    <3> QED BY <1>4, <3>2, <3>3, <3>4
  <2>3. e.una = e.nxt /\ e.nxt <= 1
    BY <1>1, <1>3, <1>4, <2>2 DEF RemoteOK
  <2>4. /\ o.state = "ESTABLISHED" /\ o.sndNxt = 1 /\ o.len = 2
        /\ y.seq = 1 /\ y.flags = {"ack"} /\ y.len = 2 /\ y.text = "prompt"
    BY <2>1 DEF Entry, Segment
  <2> HIDE DEF o, y, x
  <2>5. /\ Found(k, x).conn = o /\ Found(k, x).out = <<y>> /\ Found(k, x).line = <<>> /\ w \o <<>> = w
    BY <1>1, <1>7, <1>9, ConcatEmptySeq DEF Outcome
  <2>6. Len(t2) = Len(t) + 1 /\ t2[Len(t2)] = y /\ Len(t) \in Nat /\ \A j \in 1..Len(t) : t2[j] = t[j]
    <3>1. Sent(t2, t, <<y>>)
      BY <2>5 DEF x
    <3> QED BY <1>1, <3>1, SentIs
  <2>7. AwaitedAt(Len(t2), o, t2, e, w, s)
    <3>1. [text |-> y.text, len |-> y.len] = Answer(s, Len(w) + 1)
      BY <1>5, <2>4, AnswerIs
    <3>2. \A i \in 1..Len(t2) : i # Len(t2) => t2[i].len = 0
      BY <1>4, <2>6, SynAckIs
    <3> QED BY <2>2, <2>4, <2>6, <3>1, <3>2 DEF AwaitedAt
  <2>8. Awaiting(o, t2, e, w, s)
    <3>1. Len(t2) \in 1..Len(t2)
      BY <2>6
    <3> QED BY <1>4, <1>5, <2>2, <2>4, <2>7, <3>1 DEF Awaiting
  <2>9. NextOK(q2, e, w)
    <3>1. \A j \in 1..Len(q2) : j + 1 \in 1..Len(q) /\ q2[j] = q[j + 1]
      BY <1>2, TailOf DEF Types
    <3>2. \A j \in 1..Len(q) : q[j].seq \in Nat /\ (IsLine(q[j]) => q[j].seq < e.nxt)
      BY <1>2, <1>3, Fields DEF QueueOK, IsNumbered
    <3>3. \A j \in 1..Len(q2) : IsLine(q2[j]) => q2[j].seq \in Nat /\ q2[j].seq < 1
      BY <1>1, <2>3, <3>1, <3>2
    <3> QED BY <1>5, <3>3 DEF NextOK
  <2>10. Sending(o, q2, t2, e, w, s)
    BY <1>1, <2>3, <2>4, <2>8, <2>9 DEF Sending
  <2>11. Closes(Found(k, x), q2)
    <3>1. "fin" \notin y.flags /\ "rst" \notin y.flags
      BY <2>4
    <3>2. ~Ender(y)
      BY <3>1 DEF Ender
    <3> QED BY <2>5, <3>1, <3>2 DEF Closes
  <2> QED BY <2>5, <2>10, <2>11 DEF Spoken, x
<1> QED BY <1>8, <1>9

\* What an acknowledgement of all that is outstanding says of what the peer has.
LEMMA AckedAnswer ==
  ASSUME NEW k \in OpenEntries, NEW x \in Segments, Acked(k, x), NEW t, NEW e \in Remotes,
         NEW w, NEW s, x.ack <= e.rcv, Awaiting(k, t, e, w, s) \/ Answered(k, t, e, w, s)
  PROVE  /\ Answered(k, t, e, w, s) /\ SndNxt(k, x) = e.rcv /\ k.sndNxt + k.len = e.rcv
<1>1. k.sndNxt \in Nat /\ k.len \in Nat /\ e.rcv \in Nat /\ x.ack \in Nat
  BY EntryIs DEF Remotes, Segments
<1>2. k.len # 0 /\ x.ack = k.sndNxt + k.len /\ SndNxt(k, x) = k.sndNxt + k.len
  BY DEF Acked, SndNxt
<1>3. k.sndNxt # e.rcv
  BY <1>1, <1>2
<1> QED BY <1>2, <1>3 DEF Awaiting, Answered

LEMMA AckSpoken ==
  ASSUME patient, NEW k, NEW q, NEW t, NEW e, NEW w, NEW s, NEW q2, Hearing(k, q, t, e, w, s, q2),
         k \in OpenEntries, k.state = "ESTABLISHED", ~IsLine(q[1]),
         IsFin(q[1]) => k.len # 0, NEW t2, Sent(t2, t, Found(k, q[1]).out)
  PROVE  Spoken(Found(k, q[1]), k, q2, t2, e, w, s)
<1> DEFINE x == q[1]
           len == IF Acked(k, x) /\ ~IsFin(x) THEN 0 ELSE k.len
           o == Entry("ESTABLISHED", k, SndNxt(k, x), len, k.rcvNxt)
<1>1. /\ x \in Segments /\ x.seq \in Nat /\ x.len \in Nat /\ "rst" \notin x.flags /\ x.ack <= e.rcv
      /\ t \in Seq(Segments) /\ w \in Seq(Words) /\ Sendable(x, s) /\ Len(s) \in Nat /\ e.nxt \in Nat
      /\ IsNumbered(x) => x.seq < e.nxt
      /\ e.nxt <= Len(s) + 2
  BY HeardFirst
<1>2. /\ Types(k, q, t, e, w, s) /\ AnswerOK(k, q, t, e, w, s) /\ IsTail(q2, q)
      /\ q \in Seq(Segments) /\ e \in Remotes
  BY DEF Hearing, Types
<1> HIDE DEF x
<1>3. x.len = 0
  BY <1>1 DEF IsLine, x
<1>4. Found(k, x) = Outcome(o, <<>>, <<>>)
  <2>1. CASE IsFin(x)
    BY <1>1, <1>3, <2>1, FoundFin DEF IsFin, x
  <2>2. CASE ~IsFin(x)
    BY <1>1, <1>3, <2>2, FoundAck DEF IsFin
  <2> QED BY <2>1, <2>2
<1>5. o.state = "ESTABLISHED" /\ o.sndNxt = SndNxt(k, x) /\ o.len = len
  BY DEF Entry
<1>6. ~Acked(k, x) => SndNxt(k, x) = k.sndNxt /\ len = k.len
  BY <1>1, AckedEntry
<1> HIDE DEF o
<1>7. Found(k, x).conn = o /\ Found(k, x).out = <<>> /\ Found(k, x).line = <<>> /\ w \o <<>> = w
  BY <1>1, <1>4, ConcatEmptySeq DEF Outcome
<1>8. t2 = t
  <2>1. Sent(t2, t, <<>>)
    BY <1>7 DEF x
  <2> QED BY <2>1 DEF Sent
<1>9. CASE ~Acked(k, x)
  <2>1. Quiet(<<>>) /\ Sent(t2, t, <<>>) /\ \A z : <<>> = <<z>> => ~Ender(z) /\ "rst" \notin z.flags
    BY <1>8 DEF Quiet, Sent
  <2>2. Spoken(Outcome(o, <<>>, <<>>), k, q2, t2, e, w, s)
    BY <1>2, <1>5, <1>6, <1>9, <2>1, SameSpoken
  <2> QED BY <1>4, <2>2 DEF x
<1>10. CASE Acked(k, x)
  <2>1. /\ Awaiting(k, t, e, w, s) \/ Answered(k, t, e, w, s)
        /\ e.una < e.nxt => Len(e.got) >= e.una
        /\ NextOK(q, e, w)
    BY <1>2 DEF AnswerOK, Sending
  <2>2. Answered(k, t, e, w, s) /\ SndNxt(k, x) = e.rcv
    BY <1>1, <1>2, <1>10, <2>1, AckedAnswer
  <2>3. IsFin(x) => e.nxt = Len(s) + 2
    BY <1>1 DEF Sendable, IsNumbered
  <2>4. Answered(o, t, e, w, s)
    BY <1>5, <1>10, <2>2, <2>3 DEF Answered
  <2>5. NextOK(q2, e, w)
    BY <1>2, <2>1, NextKeeps
  <2>6. Sending(o, q2, t, e, w, s)
    BY <1>5, <2>1, <2>4, <2>5 DEF Sending
  <2>7. Closes(Found(k, x), q2)
    <3>1. \A z : <<>> # <<z>>
      OBVIOUS
    <3> QED BY <1>7, <3>1 DEF Closes
  <2> QED BY <1>7, <1>8, <2>6, <2>7 DEF Spoken, x
<1> QED BY <1>9, <1>10

\* A FIN the device sends ends what it has to say.
LEMMA FinSpoken ==
  ASSUME patient, NEW k, NEW q, NEW t, NEW e, NEW w, NEW s, NEW q2, Hearing(k, q, t, e, w, s, q2),
         k.state = "ESTABLISHED", Answered(k, t, e, w, s),
         NEW o, o.conn.state \in {"LAST_ACK", "FIN_WAIT_1"},
         NEW y \in Segments, o.out = <<y>>, y.flags = {"fin", "ack"}, y.len = 0,
         NEW t2, Sent(t2, t, o.out)
  PROVE  Spoken(o, k, q2, t2, e, w, s)
<1>1. t \in Seq(Segments) /\ ~HasSyn(q2)
  BY HeardFirst
<1>2. ~Alive(o.conn, q2)
  BY <1>1 DEF Alive, Young
<1>3. "rst" \notin y.flags
  OBVIOUS
<1>4. Closes(o, q2)
  BY <1>2, <1>3 DEF Closes
<1>5. NoData(t) /\ Quiet(o.out)
  BY DEF Answered, Quiet
<1> QED BY <1>1, <1>4, <1>5, SilentSpoken

LEMMA PassiveCloseSpoken ==
  ASSUME patient, NEW k, NEW q, NEW t, NEW e, NEW w, NEW s, NEW q2, Hearing(k, q, t, e, w, s, q2),
         k \in OpenEntries, k.state = "ESTABLISHED", ~IsLine(q[1]), IsFin(q[1]), k.len = 0,
         NEW t2, Sent(t2, t, Found(k, q[1]).out)
  PROVE  Spoken(Found(k, q[1]), k, q2, t2, e, w, s)
<1> DEFINE x == q[1]
           o == Entry("LAST_ACK", k, k.sndNxt, 1, k.rcvNxt + 1)
           y == Segment({"fin", "ack"}, k.sndNxt, k.rcvNxt + 1, 0, "none")
<1>1. /\ x \in Segments /\ x.len \in Nat /\ "rst" \notin x.flags /\ Len(w) \in Nat
  BY HeardFirst
<1>2. x.len = 0 /\ "fin" \in x.flags
  BY <1>1 DEF IsLine, IsFin
<1>3. Found(k, x) = Outcome(o, <<y>>, <<>>)
  BY <1>1, <1>2, FoundFin
<1>4. y \in Segments /\ y.flags = {"fin", "ack"} /\ y.len = 0 /\ o.state = "LAST_ACK"
  <2>1. k.sndNxt \in Nat /\ k.rcvNxt + 1 \in Nat
    BY EntryIs
  <2> QED BY <2>1, SegmentType DEF Segment, Entry
<1> HIDE DEF o, y
<1>5. Found(k, x).conn = o /\ Found(k, x).out = <<y>>
  BY <1>3 DEF Outcome
<1>6. ~Awaiting(k, t, e, w, s)
  <2>1. ASSUME NEW j \in 1..Len(t), AwaitedAt(j, k, t, e, w, s)
        PROVE  FALSE
    <3>1. t[j].len = 0 /\ [text |-> t[j].text, len |-> t[j].len] = Answer(s, Len(w) + 1)
      BY <2>1 DEF AwaitedAt
    <3>2. Answer(s, Len(w) + 1).len = 0
      <4>1. [text |-> t[j].text, len |-> t[j].len].len = t[j].len
        OBVIOUS
      <4> QED BY <3>1, <4>1
    <3> QED BY <1>1, <3>2, AnswerIs
  <2> QED BY <2>1 DEF Awaiting
<1>7. Answered(k, t, e, w, s)
  BY <1>6 DEF Hearing, AnswerOK, Sending
<1> QED BY <1>4, <1>5, <1>7, FinSpoken

LEMMA LineSpoken ==
  ASSUME patient, NEW k, NEW q, NEW t, NEW e, NEW w, NEW s, NEW q2, Hearing(k, q, t, e, w, s, q2),
         k \in OpenEntries, k.state = "ESTABLISHED", IsLine(q[1]), Expected(k, q[1]),
         NEW t2, Sent(t2, t, Found(k, q[1]).out)
  PROVE  Spoken(Found(k, q[1]), k, q2, t2, e, w, s)
<1> DEFINE x == q[1]
           n == Len(w)
           text == IF x.text = "h" THEN "ok" ELSE "prompt"
           len == IF Acked(k, x) \/ k.len = 0 THEN AnswerLength(text) ELSE k.len
           w2 == w \o <<x.text>>
<1>1. /\ x \in Segments /\ x.seq \in Nat /\ x.ack \in Nat /\ x.len \in Nat
      /\ t \in Seq(Segments) /\ w \in Seq(Words) /\ s \in Seq(Words)
      /\ n \in Nat /\ Len(s) \in Nat /\ Len(e.got) \in Nat
      /\ e.una \in Nat /\ e.nxt \in Nat /\ e.rcv \in Nat
      /\ Sendable(x, s) /\ "rst" \notin x.flags /\ x.ack <= e.rcv
      /\ e.una <= e.nxt /\ e.nxt <= e.una + 1 /\ AckOK(e.una, w, s)
  BY HeardFirst
<1>2. /\ Types(k, q, t, e, w, s) /\ SessionOK(k, q, t, e, w, s) /\ AnswerOK(k, q, t, e, w, s)
      /\ Len(q) > 0 /\ IsTail(q2, q) /\ q \in Seq(Segments) /\ e \in Remotes
  BY DEF Hearing, Types
<1>3. QueueOK(q, s, e.nxt) /\ StateOK(k, w, s)
  BY <1>2 DEF SessionOK
<1>4. /\ Awaiting(k, t, e, w, s) \/ Answered(k, t, e, w, s)
      /\ NextOK(q, e, w)
  BY <1>2 DEF AnswerOK, Sending
<1>5. k.sndNxt \in Nat /\ k.len \in Nat /\ k.rcvNxt \in Nat
  BY EntryIs
<1>6. 1 \in 1..Len(q)
  BY <1>2, Fields
<1> HIDE DEF x
<1>7. /\ x.flags = {"ack"} /\ x.len = 1 /\ x.seq = k.rcvNxt /\ k.rcvNxt = n + 1
      /\ x.seq \in 1..Len(s) /\ x.text = s[x.seq]
  BY <1>1, <1>3 DEF Sendable, Expected, IsLine, StateOK, x
<1>8. x.text \in Words /\ s[n + 1] = x.text /\ n < Len(s) /\ "fin" \notin x.flags
  <2>1. \A i \in 1..Len(s) : s[i] \in Words
    BY <1>1, LenNat
  <2>2. n < Len(s)
    BY <1>1, <1>7
  <2> QED BY <1>7, <2>1, <2>2
<1>9. x.ack = e.rcv /\ Len(e.got) = n + 1
  BY <1>4, <1>6, <1>7 DEF NextOK, x
<1>10. Answered(k, t, e, w, s)
  BY <1>1, <1>4, <1>9 DEF Awaiting
<1>11. e.una <= n + 1 /\ e.nxt # Len(s) + 2
  BY <1>1, <1>8 DEF AckOK
\* All that was sent before is acknowledged, with this line at the latest.
<1>12. SndNxt(k, x) = e.rcv /\ len = AnswerLength(text)
  <2>1. \/ k.len = 0 /\ k.sndNxt = e.rcv
        \/ k.len # 0 /\ k.sndNxt + k.len = e.rcv
    BY <1>5, <1>10, <1>11 DEF Answered
  <2>2. CASE k.len = 0 /\ k.sndNxt = e.rcv
    BY <2>2 DEF SndNxt, Acked
  <2>3. CASE k.len # 0 /\ k.sndNxt + k.len = e.rcv
    BY <1>7, <1>9, <2>3 DEF SndNxt, Acked
  <2> QED BY <2>1, <2>2, <2>3
<1>13. /\ x.text = "q" =>
            Found(k, x) =
              Outcome(Entry("FIN_WAIT_1", k, SndNxt(k, x), 1, k.rcvNxt + 1),
                      <<Segment({"fin", "ack"}, SndNxt(k, x), k.rcvNxt + 1, 0, "none")>>, <<x.text>>)
       /\ x.text # "q" =>
            Found(k, x) =
              Outcome(Entry("ESTABLISHED", k, SndNxt(k, x), len, k.rcvNxt + 1),
                      <<Segment({"ack"}, SndNxt(k, x), k.rcvNxt + 1, len, text)>>, <<x.text>>)
  BY <1>1, <1>7, <1>8, FoundLine
<1>14. len \in Nat /\ text \in {"ok", "prompt"} /\ k.rcvNxt + 1 \in Nat
  BY <1>5 DEF AnswerLength
<1>15. w2 \in Seq(Words) /\ Len(w2) = n + 1
  BY <1>1, <1>8, LineAdded
<1> HIDE DEF len
<1>16. CASE x.text = "q"
  <2> DEFINE o == Entry("FIN_WAIT_1", k, SndNxt(k, x), 1, k.rcvNxt + 1)
             y == Segment({"fin", "ack"}, SndNxt(k, x), k.rcvNxt + 1, 0, "none")
  <2>1. y \in Segments /\ y.flags = {"fin", "ack"} /\ y.len = 0 /\ o.state = "FIN_WAIT_1"
    BY <1>1, <1>12, <1>14, SegmentType DEF Segment, Entry
  <2> HIDE DEF o, y
  <2>2. Found(k, x).conn = o /\ Found(k, x).out = <<y>>
    BY <1>13, <1>16 DEF Outcome, o, y
  <2> QED BY <1>10, <2>1, <2>2, FinSpoken DEF x
<1>17. CASE x.text # "q"
  <2> DEFINE o == Entry("ESTABLISHED", k, SndNxt(k, x), len, k.rcvNxt + 1)
             y == Segment({"ack"}, SndNxt(k, x), k.rcvNxt + 1, len, text)
  <2>1. /\ o.state = "ESTABLISHED" /\ o.sndNxt = e.rcv /\ o.len = len
        /\ y.seq = e.rcv /\ y.flags = {"ack"} /\ y.len = len /\ y.text = text
    BY <1>12 DEF Segment, Entry
  <2> HIDE DEF o, y
  <2>2. Found(k, x).conn = o /\ Found(k, x).out = <<y>> /\ Found(k, x).line = <<x.text>>
    BY <1>13, <1>17 DEF Outcome, o, y
  <2>3. Len(t2) = Len(t) + 1 /\ t2[Len(t2)] = y /\ Len(t) \in Nat /\ \A j \in 1..Len(t) : t2[j] = t[j]
    <3>1. Sent(t2, t, <<y>>)
      BY <2>2 DEF x
    <3> QED BY <1>1, <3>1, SentIs
  <2>4. [text |-> y.text, len |-> y.len] = Answer(s, Len(w2) + 1)
    <3>1. n + 2 \in Nat /\ n + 2 > 1 /\ (n + 2) - 1 = n + 1 /\ Len(w2) + 1 = n + 2
      BY <1>1, <1>15
    <3>2. s[(n + 2) - 1] = x.text
      BY <1>8, <3>1
    <3>3. CASE x.text = "h"
      <4>1. Answer(s, n + 2) = [text |-> "ok", len |-> 3]
        BY <3>1, <3>2, <3>3, AnswerIs
      <4>2. text = "ok" /\ len = 3
        BY <1>12, <3>3 DEF AnswerLength
      <4> QED BY <2>1, <3>1, <4>1, <4>2
    <3>4. CASE x.text # "h"
      <4>1. Answer(s, n + 2) = [text |-> "prompt", len |-> 2]
        BY <3>1, <3>2, <3>4, AnswerIs
      <4>2. text = "prompt" /\ len = 2
        BY <1>12, <3>4 DEF AnswerLength
      <4> QED BY <2>1, <3>1, <4>1, <4>2
    <3> QED BY <3>3, <3>4
  <2>5. AwaitedAt(Len(t2), o, t2, e, w2, s)
    <3>1. \A i \in 1..Len(t2) : i # Len(t2) => t2[i].len = 0
      BY <1>10, <2>3 DEF Answered, NoData
    <3> QED BY <2>1, <2>3, <2>4, <3>1 DEF AwaitedAt
  <2>6. Awaiting(o, t2, e, w2, s)
    <3>1. Len(t2) \in 1..Len(t2)
      BY <2>3
    <3> QED BY <1>9, <1>15, <2>1, <2>5, <3>1 DEF Awaiting
  <2>7. NextOK(q2, e, w2)
    <3>1. \A j \in 1..Len(q2) : j + 1 \in 1..Len(q) /\ q2[j] = q[j + 1]
      BY <1>2, TailOf
    <3>2. \A j \in 1..Len(q) : q[j].seq \in Nat /\ (IsLine(q[j]) => q[j].seq < e.nxt)
      BY <1>2, <1>3, Fields DEF QueueOK, IsNumbered
    <3>3. e.nxt <= Len(w2) + 1
      BY <1>1, <1>11, <1>15
    <3>4. \A j \in 1..Len(q2) : IsLine(q2[j]) => q2[j].seq \in Nat /\ q2[j].seq < e.nxt
      BY <3>1, <3>2
    <3>5. \A j \in 1..Len(q2) : IsLine(q2[j]) => q2[j].seq # Len(w2) + 1
      BY <1>1, <1>15, <3>3, <3>4
    <3> QED BY <3>5 DEF NextOK
  <2>8. e.una < e.nxt => Len(e.got) >= e.una
    BY <1>1, <1>9, <1>11
  <2>9. Sending(o, q2, t2, e, w2, s)
    BY <2>1, <2>6, <2>7, <2>8 DEF Sending
  <2>10. Closes(Found(k, x), q2)
    <3>1. "fin" \notin y.flags /\ "rst" \notin y.flags
      BY <2>1
    <3>2. ~Ender(y)
      BY <3>1 DEF Ender
    <3> QED BY <2>2, <3>1, <3>2 DEF Closes
  <2>11. Spoken(Found(k, x), k, q2, t2, e, w, s)
    BY <2>2, <2>9, <2>10 DEF Spoken
  <2> QED BY <2>11 DEF x
<1> QED BY <1>16, <1>17

\* When a side has closed there is no more to say.
LEMMA ClosingSpoken ==
  ASSUME patient, NEW k, NEW q, NEW t, NEW e, NEW w, NEW s, NEW q2, Hearing(k, q, t, e, w, s, q2),
         k \in OpenEntries, k.state \in HalfClosed \cup {"CLOSING", "TIME_WAIT", "LAST_ACK"},
         NEW o, EndsIn(o, k, q[1]), NEW t2, Sent(t2, t, o.out)
  PROVE  Spoken(o, k, q2, t2, e, w, s)
<1> DEFINE x == q[1]
<1>1. x \in Segments /\ t \in Seq(Segments)
  BY HeardFirst
<1>2. k.state # "CLOSED" /\ k.state # "ESTABLISHED"
  BY DEF HalfClosed
<1>3. NoData(t)
  BY <1>2 DEF Hearing, AnswerOK, Sending
<1> HIDE DEF x
<1>4. CASE o = Outcome(Closed, <<>>, <<>>)
  <2>1. o.out = <<>> /\ o.conn.state # "ESTABLISHED"
    BY <1>4 DEF Outcome, Closed
  <2>2. \A z : <<>> # <<z>>
    OBVIOUS
  <2>3. Closes(o, q2) /\ Quiet(o.out)
    BY <2>1, <2>2 DEF Closes, Quiet
  <2> QED BY <1>1, <1>2, <1>3, <2>1, <2>3, SilentSpoken
<1>5. CASE o # Outcome(Closed, <<>>, <<>>)
  <2>1. PICK state \in OpenStates, len \in Nat, rcv \in Nat : \E out :
          /\ o = Outcome(Entry(state, k, SndNxt(k, x), len, rcv), out, <<>>)
          /\ out = <<>> \/ out = <<Segment({"ack"}, SndNxt(k, x), rcv, 0, "none")>>
          /\ Ends(k, state, rcv)
    BY <1>5 DEF EndsIn, x
  <2>2. PICK out :
          /\ o = Outcome(Entry(state, k, SndNxt(k, x), len, rcv), out, <<>>)
          /\ out = <<>> \/ out = <<Segment({"ack"}, SndNxt(k, x), rcv, 0, "none")>>
          /\ Ends(k, state, rcv)
    BY <2>1
  <2> DEFINE y == Segment({"ack"}, SndNxt(k, x), rcv, 0, "none")
  <2>3. o.out = out /\ o.conn.state = state
    BY <2>2 DEF Outcome, Entry
  <2>4. state \notin {"ESTABLISHED", "SYN_RCVD", "CLOSED"}
    BY <2>2 DEF Ends, HalfClosed
  <2>5. y \in Segments /\ y.len = 0 /\ y.flags = {"ack"}
    BY <1>1, <2>1, AckedEntry, SegmentType DEF Segment
  <2> HIDE DEF y
  <2>6. out = <<>> \/ out = <<y>>
    BY <2>2 DEF y
  <2>7. Quiet(o.out)
    BY <2>3, <2>5, <2>6 DEF Quiet
  <2>8. Closes(o, q2)
    <3>1. ~Ender(y) /\ "rst" \notin y.flags
      BY <2>5, EnderIs
    <3>2. \A z : o.out = <<z>> => z = y
      <4>1. \A z : <<>> # <<z>>
        OBVIOUS
      <4>2. \A z : <<y>> = <<z>> => z = y
        OBVIOUS
      <4> QED BY <2>3, <2>6, <4>1, <4>2
    <3> QED BY <3>1, <3>2 DEF Closes
  <2> QED BY <1>1, <1>2, <1>3, <2>3, <2>4, <2>7, <2>8, SilentSpoken
<1> QED BY <1>4, <1>5

LEMMA FoundSpoken ==
  ASSUME patient, NEW k, NEW q, NEW t, NEW e, NEW w, NEW s, NEW q2, Hearing(k, q, t, e, w, s, q2),
         k \in OpenEntries, NEW t2, Sent(t2, t, Found(k, q[1]).out)
  PROVE  Spoken(Found(k, q[1]), k, q2, t2, e, w, s)
<1>1. "rst" \notin q[1].flags
  BY HeardFirst
<1>2. CASE ~Expected(k, q[1])
  BY <1>2, RepeatSpoken
<1>3. CASE k.state = "SYN_RCVD"
  BY <1>3, SynRcvdSpoken
<1>4. CASE Expected(k, q[1]) /\ k.state = "ESTABLISHED"
  BY <1>4, LineSpoken, AckSpoken, PassiveCloseSpoken
<1>5. CASE Expected(k, q[1]) /\ k.state \notin {"SYN_RCVD", "ESTABLISHED"}
  <2>1. k.state \in HalfClosed \cup {"CLOSING", "TIME_WAIT", "LAST_ACK"}
    BY <1>5, EntryIs DEF OpenStates, HalfClosed
  <2>2. EndsIn(Found(k, q[1]), k, q[1])
    BY <1>1, <1>5, <2>1, ClosingEffect DEF Hearing
  <2> QED BY <2>1, <2>2, ClosingSpoken
<1> QED BY <1>2, <1>3, <1>4, <1>5

\* What is heard of a peer without a connection.
LEMMA NoneSpoken ==
  ASSUME patient, NEW k, NEW q, NEW t, NEW e, NEW w, NEW s, NEW q2, Hearing(k, q, t, e, w, s, q2),
         k.state = "CLOSED", NEW o, o.conn.state \in {"CLOSED", "SYN_RCVD"}, Quiet(o.out),
         \A y : o.out = <<y>> => y.flags = {"syn", "ack"} \/ (o.conn.state = "CLOSED" /\ ~IsSyn(q[1])),
         NEW t2, Sent(t2, t, o.out)
  PROVE  Spoken(o, k, q2, t2, e, w, s)
<1>1. t \in Seq(Segments) /\ (HasSyn(q2) => IsSyn(q[1]))
  BY HeardFirst
<1>2. NoData(t)
  BY DEF Hearing, AnswerOK, Sending
<1>3. ASSUME NEW y, o.out = <<y>>
      PROVE  (Ender(y) => ~Alive(o.conn, q2)) /\ ("rst" \in y.flags => o.conn.state = "CLOSED")
  <2>1. CASE y.flags = {"syn", "ack"}
    <3>1. "fin" \notin y.flags /\ "rst" \notin y.flags
      BY <2>1
    <3> QED BY <3>1 DEF Ender
  <2>2. CASE o.conn.state = "CLOSED" /\ ~IsSyn(q[1])
    BY <1>1, <2>2 DEF Alive, Young
  <2> QED BY <1>3, <2>1, <2>2
<1>4. Closes(o, q2)
  BY <1>3 DEF Closes
<1> QED BY <1>1, <1>2, <1>4, SilentSpoken

LEMMA SynSpoken ==
  ASSUME patient, NEW k, NEW q, NEW t, NEW e, NEW w, NEW s, NEW q2, Hearing(k, q, t, e, w, s, q2),
         k.state = "CLOSED", NEW p \in Peers, IsSyn(q[1]), NEW t2, Sent(t2, t, SynRcvd(p, q[1]).out)
  PROVE  Spoken(SynRcvd(p, q[1]), k, q2, t2, e, w, s)
<1> DEFINE x == q[1]
           c == [state |-> "SYN_RCVD", peer |-> p, sndNxt |-> 0, len |-> 1, rcvNxt |-> x.seq + 1]
           y == Segment({"syn", "ack"}, 0, x.seq + 1, 0, "none")
<1>1. x.seq \in Nat
  BY HeardFirst
<1>2. SynRcvd(p, x) = Outcome(c, <<y>>, <<>>)
  BY DEF SynRcvd, Control
<1>3. y \in Segments /\ y.len = 0 /\ y.flags = {"syn", "ack"} /\ c.state = "SYN_RCVD"
  <2>1. y \in Segments
    BY <1>1, SegmentType
  <2> QED BY <2>1 DEF Segment
<1> HIDE DEF c, y, x
<1>4. SynRcvd(p, x).conn = c /\ SynRcvd(p, x).out = <<y>>
  BY <1>2 DEF Outcome
<1>5. Quiet(SynRcvd(p, x).out)
  BY <1>3, <1>4 DEF Quiet
<1>6. \A z : SynRcvd(p, x).out = <<z>> => z.flags = {"syn", "ack"}
  BY <1>3, <1>4
<1> QED BY <1>3, <1>4, <1>5, <1>6, NoneSpoken DEF x

LEMMA RefuseSpoken ==
  ASSUME patient, NEW k, NEW q, NEW t, NEW e, NEW w, NEW s, NEW q2, Hearing(k, q, t, e, w, s, q2),
         k.state = "CLOSED", ~IsSyn(q[1]), NEW o, o = Outcome(Closed, Refuse(q[1]), <<>>),
         NEW t2, Sent(t2, t, o.out)
  PROVE  Spoken(o, k, q2, t2, e, w, s)
<1> DEFINE x == q[1]
           y == Segment({"rst", "ack"}, x.ack, x.seq + 1, 0, "none")
<1>1. x.seq \in Nat /\ x.ack \in Nat /\ "rst" \notin x.flags
  BY HeardFirst
<1>2. y \in Segments /\ y.len = 0
  <2>1. x.seq + 1 \in Nat
    BY <1>1
  <2>2. y \in Segments
    BY <1>1, <2>1, SegmentType
  <2> QED BY <2>2 DEF Segment
<1>3. Refuse(x) = <<y>>
  BY <1>1 DEF Refuse
<1> HIDE DEF x, y
<1>4. o.conn.state = "CLOSED" /\ o.out = <<y>>
  BY <1>3 DEF Outcome, Closed, x
<1>5. Quiet(o.out)
  BY <1>2, <1>4 DEF Quiet
<1> QED BY <1>4, <1>5, NoneSpoken DEF x

\* Whatever is on its way, o is what may be said.
Heard(o, k, q, t, e, w, s) ==
  \A q2, t2 : Hearing(k, q, t, e, w, s, q2) /\ Sent(t2, t, o.out) => Spoken(o, k, q2, t2, e, w, s)

LEMMA AnswerHandled ==
  ASSUME patient, NEW k, NEW q, NEW t, NEW e, NEW w, NEW s, NEW q2, Hearing(k, q, t, e, w, s, q2),
         NEW o, Handled(k, q[1], w, s, o.conn, w \o o.line), Heard(o, k, q, t, e, w, s),
         NEW t2, Sent(t2, t, o.out)
  PROVE  AnswerOK(o.conn, q2, t2, e, w \o o.line, s)
<1> DEFINE x == q[1]
           k2 == o.conn
<1>1. Spoken(o, k, q2, t2, e, w, s)
  BY DEF Heard
<1>2. /\ t \in Seq(Segments) /\ (HasSyn(q2) => HasSyn(q))
      /\ AnswerOK(k, q, t, e, w, s) /\ q \in Seq(Segments) /\ IsTail(q2, q)
  BY HeardFirst DEF Hearing, Types
<1>3. \A j \in 1..Len(q2) : j + 1 \in 1..Len(q) /\ q2[j] = q[j + 1]
  BY <1>2, TailOf
<1>4. Alive(k2, q2) => Alive(k, q)
  <2>1. 1 \in 1..Len(q)
    BY <1>2, TailOf
  <2>2. IsSyn(x) => HasSyn(q)
    BY <2>1 DEF HasSyn
  <2>3. k2.state = "SYN_RCVD" => k.state = "SYN_RCVD" \/ IsSyn(x)
    BY DEF Handled
  <2>4. k2.state = "ESTABLISHED" => k.state \in {"SYN_RCVD", "ESTABLISHED"}
    BY DEF Handled
  <2> HIDE DEF x, k2
  <2> QED BY <1>2, <2>2, <2>3, <2>4 DEF Alive, Young
<1>5. AcksOK(q2, e)
  BY <1>2, <1>3 DEF AnswerOK, AcksOK
<1>6. /\ e.fin \/ e.state = "reset" \/ (\E j \in 1..Len(t) : Ender(t[j])) => ~Alive(k, q)
      /\ e.state = "reset" \/ (\E j \in 1..Len(t) : "rst" \in t[j].flags) => k.state = "CLOSED"
  BY <1>2 DEF AnswerOK, Ending
<1>7. /\ \A j \in 1..Len(t) : t2[j] = t[j] /\ t[j] \in Segments
      /\ \A j \in 1..Len(t2) : j \in 1..Len(t) \/ o.out = <<t2[j]>>
  BY <1>2, SentIs, LenNat
<1>8. /\ k.state = "CLOSED" => k2.state \in {"CLOSED", "SYN_RCVD"}
      /\ Closes(o, q2) /\ Sending(k2, q2, t2, e, w \o o.line, s)
  BY <1>1 DEF Spoken
<1>9. \A j \in 1..Len(t2) : ~(j \in 1..Len(t)) =>
        /\ Ender(t2[j]) => ~Alive(k2, q2)
        /\ "rst" \in t2[j].flags => k2.state = "CLOSED"
  BY <1>7, <1>8 DEF Closes
<1> HIDE DEF k2
<1>10. e.fin \/ e.state = "reset" \/ (\E j \in 1..Len(t2) : Ender(t2[j])) => ~Alive(k2, q2)
  BY <1>4, <1>6, <1>7, <1>9
<1>11. e.state = "reset" \/ (\E j \in 1..Len(t2) : "rst" \in t2[j].flags) => k2.state = "CLOSED"
  <2>1. e.state = "reset" \/ (\E j \in 1..Len(t) : "rst" \in t[j].flags) => k2.state = "CLOSED"
    <3>1. e.state = "reset" \/ (\E j \in 1..Len(t) : "rst" \in t[j].flags) => ~Alive(k, q)
      BY <1>6, <1>7, EnderIs
    <3>2. ~Alive(k, q) => k2.state # "SYN_RCVD"
      BY <1>4 DEF Alive, Young
    <3> QED BY <1>6, <1>8, <3>1, <3>2
  <2> QED BY <1>7, <1>9, <2>1
<1>12. Ending(k2, q2, t2, e)
  BY <1>10, <1>11 DEF Ending
<1>13. GotOK(e, s)
  BY <1>2 DEF AnswerOK
<1> QED BY <1>5, <1>8, <1>12, <1>13 DEF AnswerOK, k2

-----------------------------------------------------------------------------
(* The invariant, action by action *)

\* The peers the answers are promised to.
Waits(p) == patient /\ ~lossy /\ p \notin beyond \cup robbed

Talk(p, k, q, t, e, w, s) == SessionOK(k, q, t, e, w, s) /\ (Waits(p) => AnswerOK(k, q, t, e, w, s))
SessionOf(p) ==
  Talk(p, ConnIn(conns, p), toDevice[p], toPeer[p], peers[p], looked[p], script[p])

Sound ==
  /\ script \in [Peers -> Scripts]
  /\ conns \in [1..Conns -> TableEntries] /\ OneEach(conns)
  /\ toDevice \in [Peers -> Seq(Segments)] /\ toPeer \in [Peers -> Seq(Segments)]
  /\ peers \in [Peers -> Remotes] /\ looked \in [Peers -> Seq(Words)]
  /\ \A p \in Peers : SessionOf(p)

\* What is on its way to a peer is as it was, or a peer that was robbed misses the end.
Shortened(g) ==
  /\ robbed \subseteq robbed' /\ g \in [Peers -> Seq(Segments)]
  /\ \A r \in Peers : g[r] = toPeer[r] \/ (r \in robbed' /\ IsFront(g[r], toPeer[r]))

\* g with another value for p.
Update(g, p, v) == [r \in Peers |-> IF r = p THEN v ELSE g[r]]

LEMMA Updates ==
  ASSUME NEW S, NEW g \in [Peers -> S], NEW p \in Peers, NEW v
  PROVE  /\ [g EXCEPT ![p] = v] = Update(g, p, v) /\ g = Update(g, p, g[p])
         /\ Update(g, p, v)[p] = v /\ \A r \in Peers \ {p} : Update(g, p, v)[r] = g[r]
         /\ v \in S => Update(g, p, v) \in [Peers -> S]
BY DEF Update

LEMMA ConnType ==
  ASSUME NEW f \in [1..Conns -> TableEntries], NEW p \in Peers
  PROVE  ConnIn(f, p) \in TableEntries
<1>1. CASE \E c \in 1..Conns : MineIn(f, p, c)
  <2>1. (CHOOSE c \in 1..Conns : MineIn(f, p, c)) \in 1..Conns
    BY <1>1
  <2> QED BY <1>1, <2>1 DEF ConnIn
<1>2. CASE ~\E c \in 1..Conns : MineIn(f, p, c)
  BY <1>2 DEF ConnIn, TableEntries
<1> QED BY <1>1, <1>2

LEMMA PeerTypes ==
  ASSUME Sound, NEW p \in Peers
  PROVE  /\ Types(ConnIn(conns, p), toDevice[p], toPeer[p], peers[p], looked[p], script[p])
         /\ Talk(p, ConnIn(conns, p), toDevice[p], toPeer[p], peers[p], looked[p], script[p])
<1>1. ConnIn(conns, p) \in TableEntries
  BY ConnType DEF Sound
<1>2. script[p] \in Seq(Words) /\ \A i \in 1..Len(script[p]) : script[p][i] = "q" => i = Len(script[p])
  BY UipAssumption DEF Sound, Words
<1> QED BY <1>1, <1>2 DEF Sound, Types, SessionOf

LEMMA StillWaits ==
  ASSUME UNCHANGED <<lossy, patient, beyond>>, robbed \subseteq robbed', NEW p
  PROVE  Waits(p)' => Waits(p)
BY DEF Waits

LEMMA Steady ==
  ASSUME UNCHANGED <<lossy, patient, beyond>>, NEW p, NEW k, NEW q, NEW t, NEW e, NEW w, NEW s,
         SessionOK(k, q, t, e, w, s), Waits(p)' => AnswerOK(k, q, t, e, w, s)
  PROVE  Talk(p, k, q, t, e, w, s)'
<1>1. RemoteOK(k, q, t, e, w, s) => RemoteOK(k, q, t, e, w, s)'
  BY DEF RemoteOK
<1>2. YoungOK(k, q, t, e, w) => YoungOK(k, q, t, e, w)'
  BY DEF YoungOK
<1>3. InTurn(k, q, e, w, s) => InTurn(k, q, e, w, s)'
  BY DEF InTurn
<1>4. AnswerOK(k, q, t, e, w, s) => AnswerOK(k, q, t, e, w, s)'
  OBVIOUS
<1> QED BY <1>1, <1>2, <1>3, <1>4 DEF SessionOK, Talk

\* A step changes what belongs to one peer, and at most frees another's entry or
\* flushes what was sent to it last.
LEMMA PeerStep ==
  ASSUME Sound, NEW p \in Peers, UNCHANGED <<lossy, patient, beyond, script>>,
         NEW f \in [1..Conns -> TableEntries], OneEach(f),
         NEW q \in Seq(Segments), NEW t \in Seq(Segments), NEW e \in Remotes, NEW w \in Seq(Words),
         NEW g, Shortened(g),
         conns' = f, toDevice' = Update(toDevice, p, q), toPeer' = Update(g, p, t),
         peers' = Update(peers, p, e), looked' = Update(looked, p, w),
         Others(f, conns, p),
         SessionOK(ConnIn(f, p), q, t, e, w, script[p]),
         Waits(p)' => AnswerOK(ConnIn(f, p), q, t, e, w, script[p])
  PROVE  Sound'
<1>1. /\ script' \in [Peers -> Scripts]
      /\ conns' \in [1..Conns -> TableEntries] /\ OneEach(conns')
  BY DEF Sound
<1>2. /\ toDevice' \in [Peers -> Seq(Segments)] /\ toPeer' \in [Peers -> Seq(Segments)]
      /\ peers' \in [Peers -> Remotes] /\ looked' \in [Peers -> Seq(Words)]
  BY Updates DEF Sound, Shortened
<1>3. /\ toDevice'[p] = q /\ toPeer'[p] = t /\ peers'[p] = e /\ looked'[p] = w
      /\ \A r \in Peers \ {p} : /\ toDevice'[r] = toDevice[r] /\ toPeer'[r] = g[r]
                                /\ peers'[r] = peers[r] /\ looked'[r] = looked[r]
  BY DEF Update
<1>4. ASSUME NEW r \in Peers
      PROVE  /\ SessionOK(ConnIn(f, r), toDevice'[r], toPeer'[r], peers'[r], looked'[r], script[r])
             /\ Waits(r)' =>
                  AnswerOK(ConnIn(f, r), toDevice'[r], toPeer'[r], peers'[r], looked'[r], script[r])
  <2>1. CASE r = p
    BY <1>3, <2>1
  <2>2. CASE r # p
    <3>1. Talk(r, ConnIn(conns, r), toDevice[r], toPeer[r], peers[r], looked[r], script[r])
      BY DEF Sound, SessionOf
    <3>2. Talk(r, ConnIn(f, r), toDevice[r], toPeer[r], peers[r], looked[r], script[r])
      <4>1. CASE ConnIn(f, r) = ConnIn(conns, r)
        BY <3>1, <4>1
      <4>2. CASE ConnIn(conns, r).state = "TIME_WAIT" /\ ConnIn(f, r) = Closed
        BY <3>1, <4>2, EvictKeeps, AnswerEvict DEF Talk
      <4> QED BY <2>2, <4>1, <4>2 DEF Others
    <3>3. toPeer[r] \in Seq(Segments)
      BY DEF Sound
    <3>4. SessionOK(ConnIn(f, r), toDevice[r], g[r], peers[r], looked[r], script[r])
      BY <3>2, <3>3, FrontKeeps DEF Talk, Shortened
    <3>5. Waits(r)' => Waits(r) /\ g[r] = toPeer[r]
      BY StillWaits DEF Shortened, Waits
    <3> QED BY <1>3, <2>2, <3>2, <3>4, <3>5 DEF Talk
  <2> QED BY <2>1, <2>2
<1>5. ASSUME NEW r \in Peers
      PROVE  SessionOf(r)'
  <2>1. ASSUME NEW k, NEW a, NEW b, NEW c, NEW d, NEW s, SessionOK(k, a, b, c, d, s),
               Waits(r)' => AnswerOK(k, a, b, c, d, s),
               k = ConnIn(f, r), a = toDevice'[r], b = toPeer'[r], c = peers'[r], d = looked'[r],
               s = script[r]
        PROVE  SessionOf(r)'
    <3>1. Talk(r, k, a, b, c, d, s)'
      BY <2>1, Steady
    <3>2. /\ ConnIn(conns, r)' = k /\ toDevice[r]' = a /\ toPeer[r]' = b /\ peers[r]' = c
          /\ looked[r]' = d /\ script[r]' = s
      BY <2>1 DEF ConnIn, MineIn
    <3> QED BY <3>1, <3>2 DEF SessionOf
  <2> QED BY <1>4, <2>1
<1> QED BY <1>1, <1>2, <1>5 DEF Sound, OneEach, MineIn

\* uip_conns and what the application looked at do not change when the peer acts.
LEMMA RemoteStep ==
  ASSUME Sound, NEW p \in Peers, UNCHANGED <<styleVars, conns, replyVars, looked>>,
         NEW q \in Seq(Segments), NEW t \in Seq(Segments), NEW e \in Remotes,
         toDevice' = Update(toDevice, p, q), toPeer' = Update(toPeer, p, t),
         peers' = Update(peers, p, e),
         Talk(p, ConnIn(conns, p), q, t, e, looked[p], script[p])
  PROVE  Sound'
<1>1. looked' = Update(looked, p, looked[p]) /\ looked[p] \in Seq(Words)
  BY DEF Sound, Update
<1>2. conns' = conns /\ conns \in [1..Conns -> TableEntries] /\ OneEach(conns)
  BY DEF Sound
<1>3. Others(conns, conns, p)
  BY DEF Others
<1>4. Shortened(toPeer) /\ robbed' = robbed
  BY DEF Shortened, replyVars, Sound
<1>5. /\ SessionOK(ConnIn(conns, p), q, t, e, looked[p], script[p])
      /\ Waits(p)' => AnswerOK(ConnIn(conns, p), q, t, e, looked[p], script[p])
  BY <1>4, StillWaits DEF Talk, styleVars
<1> QED BY <1>1, <1>2, <1>3, <1>4, <1>5, PeerStep DEF styleVars

\* What is fetched, or flushed.
LEMMA ShortenedStep ==
  ASSUME Sound, UNCHANGED <<lossy, patient, beyond, script, conns, toDevice, peers, looked>>,
         NEW g, Shortened(g), toPeer' = g
  PROVE  Sound'
<1>1. ASSUME NEW r \in Peers
      PROVE  SessionOf(r)'
  <2>1. PICK k, a, b, c, d, s :
          /\ k = ConnIn(conns, r) /\ a = toDevice[r] /\ b = g[r] /\ c = peers[r] /\ d = looked[r]
          /\ s = script[r]
    OBVIOUS
  <2>2. Talk(r, k, a, toPeer[r], c, d, s) /\ toPeer[r] \in Seq(Segments)
    BY <2>1 DEF Sound, SessionOf
  <2>3. SessionOK(k, a, b, c, d, s)
    BY <2>1, <2>2, FrontKeeps DEF Talk, Shortened
  <2>4. Waits(r)' => Waits(r) /\ b = toPeer[r]
    BY <2>1, StillWaits DEF Shortened, Waits
  <2>5. Talk(r, k, a, b, c, d, s)'
    BY <2>2, <2>3, <2>4, Steady DEF Talk
  <2>6. /\ ConnIn(conns, r)' = k /\ toDevice[r]' = a /\ toPeer[r]' = b /\ peers[r]' = c
        /\ looked[r]' = d /\ script[r]' = s
    BY <2>1 DEF ConnIn, MineIn
  <2> QED BY <2>5, <2>6 DEF SessionOf
<1>2. toPeer' \in [Peers -> Seq(Segments)]
  BY DEF Shortened
<1> QED BY <1>1, <1>2 DEF Sound, OneEach, MineIn

LEMMA FlushShortens ==
  ASSUME Sound, NEW victims, Flush(victims)
  PROVE  Shortened(toPeer') /\ victims \cap Peers \subseteq robbed'
<1>1. /\ robbed' = robbed \cup (({unfetched} \cup victims) \cap Peers)
      /\ toPeer' = IF unfetched \in Peers
                   THEN [toPeer EXCEPT ![unfetched] = SubSeq(@, 1, Len(@) - 1)] ELSE toPeer
      /\ toPeer \in [Peers -> Seq(Segments)]
  BY DEF Flush, Sound
<1>2. ASSUME NEW t \in Seq(Segments)
      PROVE  IsFront(SubSeq(t, 1, Len(t) - 1), t)
  <2>1. Len(t) \in Nat /\ \A j \in 1..Len(t) : t[j] \in Segments
    BY LenNat
  <2>2. Len(t) - 1 \in Int /\ \A j \in 1..(Len(t) - 1) : t[j] \in Segments
    BY <2>1
  <2>3. /\ SubSeq(t, 1, Len(t) - 1) \in Seq(Segments)
        /\ Len(SubSeq(t, 1, Len(t) - 1)) = IF 1 <= Len(t) - 1 THEN (Len(t) - 1) - 1 + 1 ELSE 0
        /\ \A j \in 1..((Len(t) - 1) - 1 + 1) : SubSeq(t, 1, Len(t) - 1)[j] = t[1 + j - 1]
    BY <2>2, SubSeqProperties
  <2> QED BY <2>1, <2>3 DEF IsFront
<1>3. CASE unfetched \in Peers
  <2>1. PICK p \in Peers : p = unfetched
    BY <1>3
  <2>2. PICK z : z = SubSeq(toPeer[p], 1, Len(toPeer[p]) - 1)
    OBVIOUS
  <2>3. toPeer[p] \in Seq(Segments)
    BY <1>1
  <2>4. IsFront(z, toPeer[p])
    BY <1>2, <2>2, <2>3
  <2>5. toPeer' = [toPeer EXCEPT ![p] = z]
    BY <1>1, <2>1, <2>2
  <2>6. z \in Seq(Segments)
    BY <2>4 DEF IsFront
  <2> QED BY <1>1, <2>1, <2>4, <2>5, <2>6 DEF Shortened
<1>4. CASE unfetched \notin Peers
  BY <1>1, <1>4 DEF Shortened
<1> QED BY <1>1, <1>3, <1>4

LEMMA OnTheNetIs ==
  ASSUME NEW p \in Peers, OnTheNet(p)
  PROVE  toPeer[p] # <<>>
BY EmptySeq DEF OnTheNet

\* A segment for the device is added to those on their way.
LEMMA Sends ==
  ASSUME Sound, NEW p \in Peers, NEW x \in Segments, Transmit(p, x)
  PROVE  \E q2 \in Seq(Segments) :
           toDevice' = Update(toDevice, p, q2) /\ IsAppend(q2, toDevice[p], x)
<1>1. toDevice \in [Peers -> Seq(Segments)] /\ toDevice[p] \in Seq(Segments)
  BY DEF Sound
<1>2. toDevice' = Update(toDevice, p, Append(toDevice[p], x))
  BY <1>1 DEF Transmit, Update
<1>3. IsAppend(Append(toDevice[p], x), toDevice[p], x)
  BY <1>1, AppendIs
<1> QED BY <1>2, <1>3 DEF IsAppend

LEMMA RemoteOf ==
  ASSUME Sound, NEW p \in Peers
  PROVE  /\ peers[p] \in Remotes /\ peers \in [Peers -> Remotes]
         /\ peers[p].una \in Nat /\ peers[p].nxt \in Nat /\ peers[p].rcv \in Nat
         /\ Lines(p) \in Nat /\ Lines(p) = Len(script[p])
         /\ \A i \in 1..Lines(p) : script[p][i] \in Words
<1>1. peers[p] \in Remotes
  BY DEF Sound
<1>2. script[p] \in Seq(Words)
  BY PeerTypes DEF Types
<1>3. Lines(p) \in Nat /\ \A i \in 1..Lines(p) : script[p][i] \in Words
  BY <1>2, LenProperties, ElementOfSeq DEF Lines
<1> QED BY <1>1, <1>3 DEF Sound, Remotes, Lines

LEMMA NumberedIs ==
  ASSUME Sound, NEW p \in Peers, NEW i \in 0..(Lines(p) + 1)
  PROVE  /\ Numbered(p, i) \in Segments /\ Numbered(p, i).seq = i
         /\ Sendable(Numbered(p, i), script[p])
         /\ i = 0 => IsSyn(Numbered(p, i)) /\ Numbered(p, i).ack = 0 /\ Numbered(p, i).len = 0
         /\ i > 0 => /\ ~IsSyn(Numbered(p, i)) /\ IsNumbered(Numbered(p, i))
                     /\ Numbered(p, i).ack = peers[p].rcv /\ "rst" \notin Numbered(p, i).flags
<1> DEFINE x == Numbered(p, i)
<1>1. /\ peers[p].rcv \in Nat /\ Lines(p) \in Nat /\ Lines(p) = Len(script[p])
      /\ \A j \in 1..Lines(p) : script[p][j] \in Words
  BY RemoteOf
<1>2. CASE i = 0
  <2>1. x = Segment({"syn"}, 0, 0, 0, "none")
    BY <1>1, <1>2 DEF Numbered
  <2>2. Segment({"syn"}, 0, 0, 0, "none") \in Segments
    BY SegmentType
  <2>3. x.flags = {"syn"} /\ x.seq = 0 /\ x.ack = 0 /\ x.len = 0
    BY <2>1 DEF Segment
  <2>4. IsSyn(x) /\ ~IsLine(x) /\ ~IsFin(x) /\ x.flags # {"syn", "ack"}
    BY <2>3 DEF IsSyn, IsLine, IsFin
  <2>5. Sendable(x, script[p])
    BY <2>3, <2>4 DEF Sendable
  <2> QED BY <1>2, <2>1, <2>2, <2>3, <2>4, <2>5
<1>3. CASE i \in 1..Lines(p)
  <2>1. x = Segment({"ack"}, i, peers[p].rcv, 1, script[p][i])
    BY <1>1, <1>3 DEF Numbered
  <2>2. Segment({"ack"}, i, peers[p].rcv, 1, script[p][i]) \in Segments
    BY <1>1, <1>3, SegmentType
  <2>3. x.flags = {"ack"} /\ x.seq = i /\ x.len = 1 /\ x.text = script[p][i] /\ x.ack = peers[p].rcv
    BY <2>1 DEF Segment
  <2>4. ~IsSyn(x) /\ IsLine(x) /\ ~IsFin(x) /\ x.flags # {"syn", "ack"} /\ "rst" \notin x.flags
    BY <2>3 DEF IsSyn, IsLine, IsFin
  <2>5. Sendable(x, script[p])
    BY <1>1, <1>3, <2>3, <2>4 DEF Sendable
  <2> QED BY <1>1, <1>3, <2>1, <2>2, <2>3, <2>4, <2>5 DEF IsNumbered
<1>4. CASE i = Lines(p) + 1
  <2>1. x = Segment({"fin", "ack"}, i, peers[p].rcv, 0, "none")
    BY <1>1, <1>4 DEF Numbered
  <2>2. Segment({"fin", "ack"}, i, peers[p].rcv, 0, "none") \in Segments
    BY <1>1, <1>4, SegmentType
  <2>3. x.flags = {"fin", "ack"} /\ x.seq = i /\ x.len = 0 /\ x.ack = peers[p].rcv
    BY <2>1 DEF Segment
  <2>4. ~IsSyn(x) /\ ~IsLine(x) /\ IsFin(x) /\ x.flags # {"syn", "ack"} /\ "rst" \notin x.flags
    BY <2>3 DEF IsSyn, IsLine, IsFin
  <2>5. Sendable(x, script[p])
    BY <1>1, <1>4, <2>3, <2>4 DEF Sendable
  <2> QED BY <1>1, <1>4, <2>1, <2>2, <2>3, <2>4, <2>5 DEF IsNumbered
<1> QED BY <1>1, <1>2, <1>3, <1>4

LEMMA OpenStep ==
  ASSUME Sound, NEW p \in Peers, Open(p)
  PROVE  Sound'
<1> DEFINE x == Numbered(p, 0)
           e == peers[p]
           e2 == [e EXCEPT !.state = "syn_sent", !.nxt = 1]
           k == ConnIn(conns, p)
<1>1. e \in Remotes /\ peers \in [Peers -> Remotes] /\ Lines(p) \in Nat
  BY RemoteOf
<1>2. x \in Segments /\ x.seq = 0 /\ x.ack = 0 /\ x.len = 0 /\ IsSyn(x)
  BY <1>1, NumberedIs
<1>3. /\ Types(k, toDevice[p], toPeer[p], e, looked[p], script[p])
      /\ SessionOK(k, toDevice[p], toPeer[p], e, looked[p], script[p])
      /\ Waits(p) => AnswerOK(k, toDevice[p], toPeer[p], e, looked[p], script[p])
  BY PeerTypes DEF Talk
<1>4. PICK q2 \in Seq(Segments) : toDevice' = Update(toDevice, p, q2) /\ IsAppend(q2, toDevice[p], x)
  BY <1>2, Sends DEF Open
<1>5. /\ e.state = "idle" /\ peers' = [peers EXCEPT ![p] = e2]
      /\ UNCHANGED <<styleVars, conns, router, toPeer, replyVars, looked>>
  BY DEF Open
<1>6. e.una = 0
  BY <1>3, <1>5 DEF SessionOK, RemoteOK
<1>7. /\ e2 \in Remotes /\ e2.state = "syn_sent" /\ e2.nxt = 1 /\ e2.una = 0 /\ e2.rcv = e.rcv
      /\ e2.got = e.got /\ e2.fin = e.fin
  BY <1>1, <1>6 DEF Remotes
<1>8. peers' = Update(peers, p, e2)
  BY <1>1, <1>5 DEF Update
<1> HIDE DEF x, e2, k
<1>9. SessionOK(k, q2, toPeer[p], e2, looked[p], script[p])
  BY <1>2, <1>3, <1>4, <1>5, <1>7, SynKeeps
<1>10. Waits(p) => AnswerOK(k, q2, toPeer[p], e2, looked[p], script[p])
  BY <1>2, <1>3, <1>4, <1>5, <1>7, AnswerSyn
<1>11. Talk(p, k, q2, toPeer[p], e2, looked[p], script[p])
  BY <1>9, <1>10 DEF Talk
<1>12. toPeer' = Update(toPeer, p, toPeer[p]) /\ toPeer[p] \in Seq(Segments)
  BY <1>5 DEF Sound, Update
<1> QED BY <1>4, <1>5, <1>7, <1>8, <1>11, <1>12, RemoteStep DEF k

LEMMA SendNextStep ==
  ASSUME patient \/ ~lossy, Sound, NEW p \in Peers, SendNext(p)
  PROVE  Sound'
<1> DEFINE e == peers[p]
           e2 == [e EXCEPT !.nxt = @ + 1]
           k == ConnIn(conns, p)
<1>1. /\ e \in Remotes /\ peers \in [Peers -> Remotes] /\ e.una \in Nat /\ e.nxt \in Nat
      /\ Lines(p) \in Nat /\ Lines(p) = Len(script[p])
  BY RemoteOf
<1>2. /\ Types(k, toDevice[p], toPeer[p], e, looked[p], script[p])
      /\ SessionOK(k, toDevice[p], toPeer[p], e, looked[p], script[p])
      /\ Waits(p) => AnswerOK(k, toDevice[p], toPeer[p], e, looked[p], script[p])
  BY PeerTypes DEF Talk
<1>3. /\ e.state = "established" /\ e.nxt <= Lines(p) + 1
      /\ patient => e.una = e.nxt /\ e.got # <<>> /\ (lossy \/ e.fin \/ Len(e.got) = e.nxt)
      /\ Transmit(p, Numbered(p, e.nxt)) /\ peers' = [peers EXCEPT ![p].nxt = @ + 1]
      /\ UNCHANGED <<styleVars, conns, router, toPeer, replyVars, looked>>
  BY DEF SendNext, HasAnswer
<1>4. e.una >= 1 /\ e.una <= e.nxt
  BY <1>2, <1>3 DEF SessionOK, RemoteOK
<1>5. PICK x : x = Numbered(p, e.nxt)
  OBVIOUS
<1>6. /\ x \in Segments /\ x.seq = e.nxt /\ Sendable(x, script[p]) /\ ~IsSyn(x) /\ IsNumbered(x)
      /\ x.ack = e.rcv /\ "rst" \notin x.flags
  <2>1. e.nxt \in 0..(Lines(p) + 1) /\ e.nxt > 0
    BY <1>1, <1>3, <1>4
  <2> QED BY <1>5, <2>1, NumberedIs
<1>7. PICK q2 \in Seq(Segments) : toDevice' = Update(toDevice, p, q2) /\ IsAppend(q2, toDevice[p], x)
  BY <1>3, <1>5, <1>6, Sends
<1>8. /\ e2 \in Remotes /\ e2.state = "established" /\ e2.nxt = e.nxt + 1 /\ e2.una = e.una
      /\ e2.rcv = e.rcv /\ e2.got = e.got /\ e2.fin = e.fin
  <2>1. e.nxt + 1 \in Nat
    BY <1>1
  <2> QED BY <1>1, <1>3, <2>1 DEF Remotes
<1>9. peers' = Update(peers, p, e2)
  BY <1>1, <1>3 DEF Update
<1>10. patient => e.una = e.nxt /\ Len(e.got) > 0
  <2>1. e.got \in Seq([text : Texts, len : Nat])
    BY <1>1 DEF Remotes
  <2> QED BY <1>3, <2>1, EmptySeq, LenProperties
<1> HIDE DEF e2, k
<1>11. SessionOK(k, q2, toPeer[p], e2, looked[p], script[p])
  BY <1>1, <1>2, <1>3, <1>6, <1>7, <1>8, <1>10, SendKeeps DEF NumberOK
<1>12. Waits(p) => AnswerOK(k, q2, toPeer[p], e2, looked[p], script[p])
  BY <1>1, <1>2, <1>3, <1>6, <1>7, <1>8, AnswerSend DEF Waits
<1>13. Talk(p, k, q2, toPeer[p], e2, looked[p], script[p])
  BY <1>11, <1>12 DEF Talk
<1>14. toPeer' = Update(toPeer, p, toPeer[p]) /\ toPeer[p] \in Seq(Segments)
  BY <1>3 DEF Sound, Update
<1> QED BY <1>3, <1>7, <1>8, <1>9, <1>13, <1>14, RemoteStep DEF k

LEMMA RetransmitStep ==
  ASSUME patient \/ ~lossy, Sound, NEW p \in Peers, Retransmit(p)
  PROVE  Sound'
<1> DEFINE e == peers[p]
           k == ConnIn(conns, p)
<1>1. /\ e \in Remotes /\ peers \in [Peers -> Remotes] /\ e.una \in Nat /\ e.nxt \in Nat
      /\ Lines(p) \in Nat /\ Lines(p) = Len(script[p])
  BY RemoteOf
<1>2. /\ Types(k, toDevice[p], toPeer[p], e, looked[p], script[p])
      /\ SessionOK(k, toDevice[p], toPeer[p], e, looked[p], script[p])
      /\ Waits(p) => AnswerOK(k, toDevice[p], toPeer[p], e, looked[p], script[p])
  BY PeerTypes DEF Talk
<1>3. /\ e.state \in {"syn_sent", "established"} /\ e.una < e.nxt
      /\ Transmit(p, Numbered(p, e.una)) /\ peers' = peers
      /\ UNCHANGED <<styleVars, conns, router, toPeer, replyVars, looked>>
  BY DEF Retransmit
<1>4. /\ e.nxt <= Lines(p) + 2
      /\ e.state = "syn_sent" => e.una = 0 /\ e.nxt = 1
      /\ e.state = "established" => e.una >= 1
  BY <1>1, <1>2 DEF SessionOK, RemoteOK
<1>5. PICK x : x = Numbered(p, e.una)
  OBVIOUS
<1>6. /\ x \in Segments /\ x.seq = e.una /\ Sendable(x, script[p])
      /\ e.una = 0 => IsSyn(x) /\ x.ack = 0 /\ x.len = 0
      /\ e.una > 0 => ~IsSyn(x) /\ IsNumbered(x) /\ x.ack = e.rcv /\ "rst" \notin x.flags
  <2>1. e.una \in 0..(Lines(p) + 1)
    BY <1>1, <1>3, <1>4
  <2> QED BY <1>5, <2>1, NumberedIs
<1>7. PICK q2 \in Seq(Segments) : toDevice' = Update(toDevice, p, q2) /\ IsAppend(q2, toDevice[p], x)
  BY <1>3, <1>5, <1>6, Sends
<1>8. peers' = Update(peers, p, e) /\ toPeer' = Update(toPeer, p, toPeer[p]) /\ toPeer[p] \in Seq(Segments)
  BY <1>1, <1>3 DEF Sound, Update
<1> HIDE DEF k, e
<1>9. CASE e.state = "syn_sent"
  <2>1. SessionOK(k, q2, toPeer[p], e, looked[p], script[p])
    BY <1>1, <1>2, <1>4, <1>6, <1>7, <1>9, SynKeeps
  <2>2. Waits(p) => AnswerOK(k, q2, toPeer[p], e, looked[p], script[p])
    BY <1>2, <1>4, <1>6, <1>7, <1>9, AnswerSyn
  <2>3. Talk(p, k, q2, toPeer[p], e, looked[p], script[p])
    BY <2>1, <2>2 DEF Talk
  <2> QED BY <1>1, <1>3, <1>7, <1>8, <2>3, RemoteStep DEF k
<1>10. CASE e.state = "established"
  <2>1. ~IsSyn(x) /\ IsNumbered(x) /\ x.ack = e.rcv /\ "rst" \notin x.flags
    BY <1>1, <1>4, <1>6, <1>10
  <2>2. SessionOK(k, q2, toPeer[p], e, looked[p], script[p])
    BY <1>1, <1>2, <1>3, <1>6, <1>7, <1>10, <2>1, SendKeeps DEF NumberOK
  <2>3. Waits(p) => AnswerOK(k, q2, toPeer[p], e, looked[p], script[p])
    BY <1>2, <1>3, <1>6, <1>7, <1>10, <2>1, AnswerSend
  <2>4. Talk(p, k, q2, toPeer[p], e, looked[p], script[p])
    BY <2>2, <2>3 DEF Talk
  <2> QED BY <1>1, <1>3, <1>7, <1>8, <2>4, RemoteStep DEF k
<1> QED BY <1>3, <1>9, <1>10

LEMMA AbortStep ==
  ASSUME patient \/ ~lossy, Sound, NEW p \in Peers, Abort(p)
  PROVE  Sound'
<1> DEFINE e == peers[p]
           e2 == [e EXCEPT !.state = "reset"]
           k == ConnIn(conns, p)
           x == Segment({"rst", "ack"}, e.nxt, e.rcv, 0, "none")
<1>1. /\ e \in Remotes /\ peers \in [Peers -> Remotes] /\ e.una \in Nat /\ e.nxt \in Nat /\ e.rcv \in Nat
  BY RemoteOf
<1>2. /\ Types(k, toDevice[p], toPeer[p], e, looked[p], script[p])
      /\ SessionOK(k, toDevice[p], toPeer[p], e, looked[p], script[p])
      /\ Waits(p) => AnswerOK(k, toDevice[p], toPeer[p], e, looked[p], script[p])
  BY PeerTypes DEF Talk
<1>3. /\ e.state = "established" /\ Transmit(p, x) /\ peers' = [peers EXCEPT ![p].state = "reset"]
      /\ ~Waits(p) /\ UNCHANGED <<styleVars, conns, router, toPeer, replyVars, looked>>
  BY DEF Abort, Waits
<1>4. x \in Segments /\ Sendable(x, script[p]) /\ ~IsSyn(x) /\ ~IsNumbered(x)
  <2>1. x \in Segments
    BY <1>1, SegmentType
  <2>2. x.flags = {"rst", "ack"} /\ x.len = 0
    BY DEF Segment
  <2> HIDE DEF x
  <2>3. ~IsSyn(x) /\ ~IsLine(x) /\ ~IsFin(x) /\ x.flags # {"syn", "ack"}
    BY <2>2 DEF IsSyn, IsLine, IsFin
  <2> QED BY <2>1, <2>3 DEF IsNumbered, Sendable
<1> HIDE DEF x
<1>5. PICK q2 \in Seq(Segments) : toDevice' = Update(toDevice, p, q2) /\ IsAppend(q2, toDevice[p], x)
  BY <1>3, <1>4, Sends
<1>6. /\ e2 \in Remotes /\ e2.state = "reset" /\ e2.nxt = e.nxt /\ e2.una = e.una
      /\ e2.rcv = e.rcv /\ e2.got = e.got
  BY <1>1 DEF Remotes
<1>7. peers' = Update(peers, p, e2) /\ toPeer' = Update(toPeer, p, toPeer[p]) /\ toPeer[p] \in Seq(Segments)
  BY <1>1, <1>3 DEF Sound, Update
<1> HIDE DEF e2, k
<1>8. SessionOK(k, q2, toPeer[p], e2, looked[p], script[p])
  BY <1>1, <1>2, <1>3, <1>4, <1>5, <1>6, SendKeeps DEF NumberOK
<1>9. Talk(p, k, q2, toPeer[p], e2, looked[p], script[p])
  BY <1>3, <1>8 DEF Talk
<1> QED BY <1>3, <1>5, <1>6, <1>7, <1>9, RemoteStep DEF k

LEMMA LoseStep ==
  ASSUME patient \/ ~lossy, Sound, NEW p \in Peers, LoseSegment(p)
  PROVE  Sound'
<1> DEFINE e == peers[p]
           k == ConnIn(conns, p)
<1>1. /\ Types(k, toDevice[p], toPeer[p], e, looked[p], script[p])
      /\ SessionOK(k, toDevice[p], toPeer[p], e, looked[p], script[p])
      /\ Waits(p) => AnswerOK(k, toDevice[p], toPeer[p], e, looked[p], script[p])
  BY PeerTypes DEF Talk
<1>2. /\ e \in Remotes /\ toDevice[p] \in Seq(Segments) /\ toPeer[p] \in Seq(Segments)
      /\ peers' = Update(peers, p, e)
  BY DEF Sound, Update, LoseSegment
<1>3. patient /\ lossy /\ ~Waits(p) /\ UNCHANGED <<styleVars, conns, router, replyVars, peers, looked>>
  BY DEF LoseSegment, Waits
<1> HIDE DEF k, e
<1>4. CASE toDevice[p] # <<>> /\ toDevice' = [toDevice EXCEPT ![p] = Tail(@)] /\ UNCHANGED toPeer
  <2>1. IsTail(Tail(toDevice[p]), toDevice[p])
    BY <1>2, <1>4, TailIs
  <2>2. Talk(p, k, Tail(toDevice[p]), toPeer[p], e, looked[p], script[p])
    BY <1>1, <1>3, <2>1, LossKeeps DEF Talk
  <2>3. toDevice' = Update(toDevice, p, Tail(toDevice[p])) /\ toPeer' = Update(toPeer, p, toPeer[p])
    BY <1>4 DEF Sound, Update
  <2> QED BY <1>2, <1>3, <2>1, <2>2, <2>3, RemoteStep DEF k, IsTail
<1>5. CASE OnTheNet(p) /\ toPeer' = [toPeer EXCEPT ![p] = Tail(@)] /\ UNCHANGED toDevice
  <2>1. IsTail(Tail(toPeer[p]), toPeer[p])
    BY <1>2, <1>5, OnTheNetIs, TailIs
  <2>2. Talk(p, k, toDevice[p], Tail(toPeer[p]), e, looked[p], script[p])
    BY <1>1, <1>2, <1>3, <2>1, TakeKeeps DEF Talk
  <2>3. toPeer' = Update(toPeer, p, Tail(toPeer[p])) /\ toDevice' = Update(toDevice, p, toDevice[p])
    BY <1>5 DEF Sound, Update
  <2> QED BY <1>2, <1>3, <2>1, <2>2, <2>3, RemoteStep DEF k, IsTail
<1> QED BY <1>4, <1>5 DEF LoseSegment

LEMMA TakesStep ==
  ASSUME patient \/ ~lossy, Sound, NEW p \in Peers, PeerTakes(p)
  PROVE  Sound'
<1> DEFINE e == peers[p]
           k == ConnIn(conns, p)
           t == toPeer[p]
           y == Head(t)
           Ack(r) == Transmit(p, Segment({"ack"}, r.nxt, r.rcv, 0, "none"))
<1>1. /\ e \in Remotes /\ peers \in [Peers -> Remotes] /\ e.nxt \in Nat /\ e.rcv \in Nat
  BY RemoteOf
<1>2. /\ Types(k, toDevice[p], t, e, looked[p], script[p])
      /\ SessionOK(k, toDevice[p], t, e, looked[p], script[p])
      /\ Waits(p) => AnswerOK(k, toDevice[p], t, e, looked[p], script[p])
  BY PeerTypes DEF Talk
<1>3. /\ t # <<>> /\ toPeer' = [toPeer EXCEPT ![p] = Tail(@)]
      /\ UNCHANGED <<styleVars, conns, router, replyVars, looked>>
  BY OnTheNetIs DEF PeerTakes
<1>4. t \in Seq(Segments) /\ IsTail(Tail(t), t) /\ y = t[1] /\ y \in Segments
  BY <1>3, TailIs DEF Sound
<1>5. toPeer' = Update(toPeer, p, Tail(t)) /\ Tail(t) \in Seq(Segments) /\ toDevice[p] \in Seq(Segments)
  BY <1>3, <1>4 DEF Sound, Update, IsTail
<1>6. /\ toDevice' = toDevice => toDevice' = Update(toDevice, p, toDevice[p])
      /\ peers' = peers => peers' = Update(peers, p, e)
      /\ \A e2 : peers' = [peers EXCEPT ![p] = e2] => peers' = Update(peers, p, e2)
  BY <1>1 DEF Sound, Update
<1>7. \/ e.state # "established" /\ UNCHANGED <<peers, toDevice>>
      \/ "rst" \in y.flags /\ peers' = [peers EXCEPT ![p].state = "reset"] /\ UNCHANGED toDevice
      \/ /\ e.state = "syn_sent"
         /\ peers' = [peers EXCEPT ![p] = [e EXCEPT !.state = "established", !.una = 1, !.rcv = 1]]
         /\ Ack([e EXCEPT !.state = "established", !.una = 1, !.rcv = 1])
      \/ /\ e.state = "established" /\ "rst" \notin y.flags
         /\ peers' = [peers EXCEPT ![p] = Taken(e, y)]
         /\ Ack(Taken(e, y)) \/ UNCHANGED toDevice
  <2>1. e.state \in {"idle", "syn_sent", "established", "reset"}
    BY <1>1 DEF Remotes
  <2>2. e.state \in {"idle", "reset"} => UNCHANGED <<peers, toDevice>>
    BY DEF PeerTakes
  <2>3. e.state \notin {"idle", "reset"} /\ "rst" \in y.flags =>
          peers' = [peers EXCEPT ![p].state = "reset"] /\ UNCHANGED toDevice
    BY DEF PeerTakes
  <2>4. e.state = "syn_sent" /\ "rst" \notin y.flags =>
          \/ UNCHANGED <<peers, toDevice>>
          \/ /\ peers' = [peers EXCEPT ![p] = [e EXCEPT !.state = "established", !.una = 1, !.rcv = 1]]
             /\ Ack([e EXCEPT !.state = "established", !.una = 1, !.rcv = 1])
    BY DEF PeerTakes
  <2>5. e.state = "established" /\ "rst" \notin y.flags =>
          /\ peers' = [peers EXCEPT ![p] = Taken(e, y)]
          /\ Ack(Taken(e, y)) \/ UNCHANGED toDevice
    BY DEF PeerTakes, Taken
  <2> QED BY <2>1, <2>2, <2>3, <2>4, <2>5
<1> HIDE DEF k, e, t, y
<1>8. CASE e.state # "established" /\ UNCHANGED <<peers, toDevice>>
  <2>1. SessionOK(k, toDevice[p], Tail(t), e, looked[p], script[p])
    BY <1>1, <1>2, <1>4, TakeKeeps
  <2>2. toDevice' = Update(toDevice, p, toDevice[p]) /\ peers' = Update(peers, p, e)
    BY <1>6, <1>8
  <2>3. Waits(p) => AnswerOK(k, toDevice[p], Tail(t), e, looked[p], script[p])
    <3> SUFFICES ASSUME Waits(p), AnswerOK(k, toDevice[p], t, e, looked[p], script[p])
                 PROVE  AnswerOK(k, toDevice[p], Tail(t), e, looked[p], script[p])
      BY <1>2
    <3>1. e.state = "reset" => k.state = "CLOSED"
      BY DEF AnswerOK, Ending
    <3>2. e.state \in {"idle", "syn_sent"} => k.state \in {"CLOSED", "SYN_RCVD"}
      BY <1>2 DEF SessionOK, RemoteOK
    <3>3. e.state \in {"idle", "syn_sent", "reset"}
      BY <1>1, <1>8 DEF Remotes
    <3>4. k.state # "ESTABLISHED" /\ e.rcv >= e.rcv
      BY <1>1, <3>1, <3>2, <3>3
    <3> QED BY <1>1, <1>2, <1>4, <3>4, AnswerDrop
  <2>4. Talk(p, k, toDevice[p], Tail(t), e, looked[p], script[p])
    BY <2>1, <2>3 DEF Talk
  <2> QED BY <1>1, <1>3, <1>5, <2>2, <2>4, RemoteStep DEF k
<1>9. CASE "rst" \in y.flags /\ peers' = [peers EXCEPT ![p].state = "reset"] /\ UNCHANGED toDevice
  <2> DEFINE e2 == [e EXCEPT !.state = "reset"]
  <2>1. /\ e2 \in Remotes /\ e2.state = "reset" /\ e2.nxt = e.nxt /\ e2.una = e.una
        /\ e2.got = e.got /\ e2.rcv = e.rcv /\ e2.fin = e.fin
    BY <1>1 DEF Remotes
  <2>2. peers' = Update(peers, p, e2)
    BY <1>1, <1>9 DEF Update, e
  <2> HIDE DEF e2
  <2>3. SessionOK(k, toDevice[p], Tail(t), e2, looked[p], script[p])
    BY <1>2, <1>4, <2>1, TakeKeeps
  <2>4. toDevice' = Update(toDevice, p, toDevice[p])
    BY <1>6, <1>9
  <2>5. Waits(p) => AnswerOK(k, toDevice[p], Tail(t), e2, looked[p], script[p])
    <3> SUFFICES ASSUME Waits(p), AnswerOK(k, toDevice[p], t, e, looked[p], script[p])
                 PROVE  AnswerOK(k, toDevice[p], Tail(t), e2, looked[p], script[p])
      BY <1>2
    <3>1. "rst" \in t[1].flags /\ 1 \in 1..Len(t)
      BY <1>2, <1>4, <1>9, TailOf DEF Types
    <3>2. k.state # "ESTABLISHED" /\ e2.rcv >= e.rcv
      BY <1>1, <2>1, <3>1 DEF AnswerOK, Ending
    <3> QED BY <1>2, <1>4, <2>1, <3>1, <3>2, AnswerDrop
  <2>6. Talk(p, k, toDevice[p], Tail(t), e2, looked[p], script[p])
    BY <2>3, <2>5 DEF Talk
  <2> QED BY <1>3, <1>5, <2>1, <2>2, <2>4, <2>6, RemoteStep DEF k
<1>10. CASE /\ e.state = "syn_sent"
            /\ peers' = [peers EXCEPT ![p] = [e EXCEPT !.state = "established", !.una = 1, !.rcv = 1]]
            /\ Ack([e EXCEPT !.state = "established", !.una = 1, !.rcv = 1])
  <2> DEFINE e2 == [e EXCEPT !.state = "established", !.una = 1, !.rcv = 1]
             x == Segment({"ack"}, e2.nxt, e2.rcv, 0, "none")
  <2>1. /\ e2 \in Remotes /\ e2.state = "established" /\ e2.nxt = e.nxt /\ e2.una = 1 /\ e2.rcv = 1
        /\ e2.got = e.got /\ e2.fin = e.fin
    BY <1>1 DEF Remotes
  <2>2. peers' = Update(peers, p, e2)
    BY <1>6, <1>10
  <2> HIDE DEF e2
  <2>3. x \in Segments /\ IsGreeting(x) /\ ~IsSyn(x) /\ "rst" \notin x.flags
    <3>1. x \in Segments
      BY <1>1, <2>1, SegmentType
    <3>2. x.flags = {"ack"} /\ IsGreeting(x)
      BY <2>1, <3>1 DEF IsGreeting, Segment
    <3> HIDE DEF x
    <3>3. "syn" \notin x.flags /\ "rst" \notin x.flags
      BY <3>2
    <3> QED BY <3>1, <3>2, <3>3 DEF IsSyn
  <2>4. Transmit(p, x)
    BY <1>10 DEF e2
  <2> HIDE DEF x
  <2>5. PICK q2 \in Seq(Segments) : toDevice' = Update(toDevice, p, q2) /\ IsAppend(q2, toDevice[p], x)
    BY <2>3, <2>4, Sends
  <2>6. SessionOK(k, q2, Tail(t), e2, looked[p], script[p])
    BY <1>2, <1>4, <1>10, <2>1, <2>3, <2>5, GreetKeeps
  <2>7. Waits(p) => AnswerOK(k, q2, Tail(t), e2, looked[p], script[p])
    <3> SUFFICES ASSUME Waits(p), AnswerOK(k, toDevice[p], t, e, looked[p], script[p])
                 PROVE  AnswerOK(k, q2, Tail(t), e2, looked[p], script[p])
      BY <1>2
    <3>1. k.state \in {"CLOSED", "SYN_RCVD"} /\ e.rcv = 0
      BY <1>2, <1>10 DEF SessionOK, RemoteOK
    <3>2. AnswerOK(k, toDevice[p], Tail(t), e2, looked[p], script[p])
      <4>1. k.state # "ESTABLISHED" /\ e2.rcv >= e.rcv /\ e2.state # "reset"
        BY <2>1, <3>1
      <4> QED BY <1>2, <1>4, <2>1, <4>1, AnswerDrop
    <3>3. Types(k, toDevice[p], Tail(t), e2, looked[p], script[p])
      BY <1>2, <1>5, <2>1 DEF Types
    <3>4. x.ack = e2.rcv /\ ~IsLine(x)
      BY <2>1, <2>3 DEF IsGreeting, IsLine
    <3> QED BY <2>1, <2>3, <2>5, <3>2, <3>3, <3>4, AnswerSend
  <2>8. Talk(p, k, q2, Tail(t), e2, looked[p], script[p])
    BY <2>6, <2>7 DEF Talk
  <2> QED BY <1>3, <1>5, <2>1, <2>2, <2>5, <2>8, RemoteStep DEF k
<1>11. CASE /\ e.state = "established" /\ "rst" \notin y.flags
            /\ peers' = [peers EXCEPT ![p] = Taken(e, y)]
            /\ Ack(Taken(e, y)) \/ UNCHANGED toDevice
  <2> DEFINE e2 == Taken(e, y)
             x == Segment({"ack"}, e2.nxt, e2.rcv, 0, "none")
  <2>1. /\ e2 \in Remotes /\ e2.state = "established" /\ e2.nxt = e.nxt
        /\ e2.una = IF y.ack \in (e.una + 1)..e.nxt THEN y.ack ELSE e.una
        /\ Len(e2.got) >= Len(e.got)
        /\ y.seq # e.rcv => e2.rcv = e.rcv /\ e2.got = e.got
    BY <1>1, <1>4, <1>11, TakenIs
  <2>2. peers' = Update(peers, p, e2)
    BY <1>6, <1>11
  <2>3. Waits(p) => AnswerOK(k, toDevice[p], Tail(t), e2, looked[p], script[p])
    <3>1. e2 = Taken(e, t[1])
      BY <1>4
    <3> HIDE DEF e2
    <3> QED BY <1>2, <1>4, <1>11, <3>1, AnswerTakes DEF Waits
  <2>4. CASE Ack(Taken(e, y))
    <3>1. Transmit(p, x)
      BY <2>4
    <3> HIDE DEF e2
    <3>2. SessionOK(k, toDevice[p], Tail(t), e2, looked[p], script[p])
      BY <1>2, <1>4, <1>11, <2>1, TakeKeeps
    <3>3. Types(k, toDevice[p], Tail(t), e2, looked[p], script[p])
      BY <1>2, <1>5, <2>1 DEF Types
    <3>4. e2.nxt \in Nat /\ e2.rcv \in Nat
      BY <2>1 DEF Remotes
    <3>5. /\ x \in Segments /\ Sendable(x, script[p]) /\ ~IsSyn(x) /\ ~IsNumbered(x)
          /\ ~IsLine(x) /\ x.ack = e2.rcv /\ "rst" \notin x.flags
      <4>1. x \in Segments
        BY <3>4, SegmentType
      <4>2. x.flags = {"ack"} /\ x.len = 0 /\ x.ack = e2.rcv
        BY DEF Segment
      <4> HIDE DEF x
      <4>3. ~IsSyn(x) /\ ~IsLine(x) /\ ~IsFin(x) /\ x.flags # {"syn", "ack"} /\ "rst" \notin x.flags
        BY <4>2 DEF IsSyn, IsLine, IsFin
      <4> QED BY <4>1, <4>2, <4>3 DEF IsNumbered, Sendable
    <3> HIDE DEF x
    <3>6. PICK q2 \in Seq(Segments) : toDevice' = Update(toDevice, p, q2) /\ IsAppend(q2, toDevice[p], x)
      BY <3>1, <3>5, Sends
    <3>7. SessionOK(k, q2, Tail(t), e2, looked[p], script[p])
      BY <2>1, <3>2, <3>3, <3>5, <3>6, SendKeeps DEF NumberOK
    <3>8. Waits(p) => AnswerOK(k, q2, Tail(t), e2, looked[p], script[p])
      BY <2>1, <2>3, <3>3, <3>5, <3>6, AnswerSend
    <3>9. Talk(p, k, q2, Tail(t), e2, looked[p], script[p])
      BY <3>7, <3>8 DEF Talk
    <3> QED BY <1>3, <1>5, <2>1, <2>2, <3>6, <3>9, RemoteStep DEF k
  <2>5. CASE UNCHANGED toDevice
    <3> HIDE DEF e2
    <3>1. SessionOK(k, toDevice[p], Tail(t), e2, looked[p], script[p])
      BY <1>2, <1>4, <1>11, <2>1, TakeKeeps
    <3>2. toDevice' = Update(toDevice, p, toDevice[p])
      BY <1>6, <2>5
    <3>3. Talk(p, k, toDevice[p], Tail(t), e2, looked[p], script[p])
      BY <2>3, <3>1 DEF Talk
    <3> QED BY <1>3, <1>5, <2>1, <2>2, <3>2, <3>3, RemoteStep DEF k
  <2> QED BY <1>11, <2>4, <2>5
<1> QED BY <1>7, <1>8, <1>9, <1>10, <1>11

\* What it sends is added to the answers, or p does not get it.
Puts(p, out) ==
  \/ toPeer' = [toPeer EXCEPT ![p] = @ \o out] /\ robbed' = robbed
  \/ ~Waits(p)' /\ Shortened(toPeer')

LEMMA ArpOutPuts ==
  ASSUME Sound, NEW p \in Peers, NEW out, ArpOut(p, out), beyond' = beyond
  PROVE  Puts(p, out)
<1> DEFINE asks == p \in beyond /\ router # "known"
<1>1. toPeer \in [Peers -> Seq(Segments)]
  BY DEF Sound
<1>2. CASE out = <<>>
  <2>1. toPeer' = toPeer /\ robbed' = robbed
    BY <1>2 DEF ArpOut, replyVars
  <2>2. toPeer[p] \o <<>> = toPeer[p]
    BY <1>1, ConcatEmptySeq
  <2> QED BY <1>1, <1>2, <2>1, <2>2 DEF Puts
<1>3. CASE out # <<>> /\ asks
  <2>1. PutOther /\ ~Waits(p)'
    BY <1>3 DEF ArpOut, Waits
  <2>2. Shortened(toPeer')
    <3>1. CASE Flushes
      BY <2>1, <3>1, FlushShortens DEF PutOther
    <3>2. CASE ~Flushes
      BY <1>1, <2>1, <3>2 DEF PutOther, Shortened
    <3> QED BY <3>1, <3>2
  <2> QED BY <2>1, <2>2 DEF Puts
<1>4. CASE out # <<>> /\ ~asks
  <2>1. PutOut(p, out)
    BY <1>4 DEF ArpOut
  <2>2. CASE Flushes
    <3>1. Shortened(toPeer') /\ p \in robbed'
      BY <2>1, <2>2, FlushShortens DEF PutOut
    <3> QED BY <3>1 DEF Puts, Waits
  <2>3. CASE ~Flushes
    BY <2>1, <2>3 DEF PutOut, Puts
  <2> QED BY <2>2, <2>3
<1> QED BY <1>2, <1>3, <1>4

\* uip_process has made o of the first segment of p, for the connection of p, and
\* the table is f.
LEMMA HandledStep ==
  ASSUME patient \/ ~lossy, Sound, NEW p \in Peers, toDevice[p] # <<>>,
         toDevice' = [toDevice EXCEPT ![p] = Tail(@)], UNCHANGED <<styleVars, peers>>,
         NEW o, Effect(o, p, ConnIn(conns, p), toDevice[p][1], looked[p], script[p]),
         looked' = [looked EXCEPT ![p] = @ \o o.line],
         Puts(p, o.out),
         Waits(p) =>
           Heard(o, ConnIn(conns, p), toDevice[p], toPeer[p], peers[p], looked[p], script[p]),
         NEW f \in [1..Conns -> TableEntries], OneEach(f), conns' = f, ConnIn(f, p) = o.conn,
         Others(f, conns, p)
  PROVE  Sound'
<1> DEFINE e == peers[p]
           k == ConnIn(conns, p)
           q == toDevice[p]
           t == toPeer[p]
           w == looked[p]
           w2 == w \o o.line
           s == script[p]
           x == q[1]
<1>1. /\ toDevice \in [Peers -> Seq(Segments)] /\ toPeer \in [Peers -> Seq(Segments)]
      /\ peers \in [Peers -> Remotes] /\ looked \in [Peers -> Seq(Words)]
      /\ q \in Seq(Segments) /\ t \in Seq(Segments) /\ e \in Remotes /\ w \in Seq(Words)
  BY DEF Sound
<1>2. /\ Types(k, q, t, e, w, s) /\ SessionOK(k, q, t, e, w, s)
      /\ Waits(p) => AnswerOK(k, q, t, e, w, s) /\ Heard(o, k, q, t, e, w, s)
  BY PeerTypes DEF Talk
<1>3. IsTail(Tail(q), q) /\ Tail(q) \in Seq(Segments)
  BY <1>1, TailIs DEF IsTail
<1>4. w2 \in Seq(Words) /\ Handled(k, x, w, s, o.conn, w2)
  BY DEF Effect
<1>5. /\ toDevice' = Update(toDevice, p, Tail(q)) /\ looked' = Update(looked, p, w2)
      /\ peers' = Update(peers, p, e)
  BY <1>1 DEF Update
<1>6. UNCHANGED <<lossy, patient, beyond, script>>
  BY DEF styleVars
<1>7. CASE toPeer' = [toPeer EXCEPT ![p] = @ \o o.out] /\ robbed' = robbed
  <2>1. PICK t2 \in Seq(Segments) :
          /\ toPeer' = Update(toPeer, p, t2)
          /\ t2 = t \/ \E y : IsAppend(t2, t, y) /\ Replies(y, x, w2, s, o.conn)
          /\ Sent(t2, t, o.out)
    <3>1. CASE o.out = <<>>
      <4>1. t \o o.out = t
        BY <1>1, <3>1, ConcatEmptySeq
      <4>2. toPeer' = Update(toPeer, p, t)
        BY <1>1, <1>7, <4>1 DEF Update
      <4>3. Sent(t, t, o.out)
        BY <3>1 DEF Sent
      <4> QED BY <1>1, <4>2, <4>3
    <3>2. CASE o.out # <<>>
      <4>1. PICK y \in Segments : o.out = <<y>> /\ Replies(y, x, w2, s, o.conn)
        BY <3>2 DEF Effect
      <4>2. IsAppend(t \o <<y>>, t, y)
        BY <1>1, AppendIs
      <4>3. toPeer' = Update(toPeer, p, t \o <<y>>)
        BY <1>1, <1>7, <4>1 DEF Update
      <4>4. t \o <<y>> \in Seq(Segments)
        BY <4>2 DEF IsAppend
      <4>5. Sent(t \o <<y>>, t, o.out)
        BY <4>1, <4>2 DEF Sent
      <4> QED BY <4>1, <4>2, <4>3, <4>4, <4>5
    <3> QED BY <3>1, <3>2
  <2> HIDE DEF e, k, q, t, w, w2, s
  <2>2. SessionOK(o.conn, Tail(q), t2, e, w2, s)
    BY <1>2, <1>3, <1>4, <2>1, HandledKeeps
  <2>3. Waits(p) => AnswerOK(o.conn, Tail(q), t2, e, w2, s)
    <3> SUFFICES ASSUME Waits(p) PROVE AnswerOK(o.conn, Tail(q), t2, e, w2, s)
      OBVIOUS
    <3>1. Hearing(k, q, t, e, w, s, Tail(q))
      BY <1>2, <1>3 DEF Hearing, IsTail
    <3>2. Handled(k, q[1], w, s, o.conn, w \o o.line)
      BY <1>4 DEF w2
    <3>3. AnswerOK(o.conn, Tail(q), t2, e, w \o o.line, s)
      BY <1>2, <2>1, <3>1, <3>2, AnswerHandled DEF Waits
    <3> QED BY <3>3 DEF w2
  <2>4. /\ SessionOK(ConnIn(f, p), Tail(q), t2, e, w2, script[p])
        /\ Waits(p)' => AnswerOK(ConnIn(f, p), Tail(q), t2, e, w2, script[p])
    BY <1>6, <1>7, <2>2, <2>3, StillWaits DEF s
  <2>5. Shortened(toPeer)
    BY <1>1, <1>7 DEF Shortened
  <2> QED BY <1>1, <1>3, <1>4, <1>5, <1>6, <2>1, <2>4, <2>5, PeerStep
<1>8. CASE ~Waits(p)' /\ Shortened(toPeer')
  <2>1. PICK g : g = toPeer'
    OBVIOUS
  <2>2. PICK t2 : t2 = g[p]
    OBVIOUS
  <2>3. Shortened(g) /\ g \in [Peers -> Seq(Segments)] /\ t2 \in Seq(Segments)
    BY <1>8, <2>1, <2>2 DEF Shortened
  <2>4. t2 = t \/ IsFront(t2, t)
    BY <2>2, <2>3 DEF Shortened
  <2>5. toPeer' = Update(g, p, t2)
    BY <2>1, <2>2, <2>3 DEF Update
  <2> HIDE DEF e, k, q, t, w, w2, s
  <2>6. SessionOK(o.conn, Tail(q), t, e, w2, s)
    BY <1>2, <1>3, <1>4, HandledKeeps
  <2>7. SessionOK(o.conn, Tail(q), t2, e, w2, s)
    BY <1>1, <2>4, <2>6, FrontKeeps
  <2>8. SessionOK(ConnIn(f, p), Tail(q), t2, e, w2, script[p])
    BY <2>7 DEF s
  <2> QED BY <1>1, <1>3, <1>4, <1>5, <1>6, <1>8, <2>3, <2>5, <2>8, PeerStep
<1> QED BY <1>7, <1>8 DEF Puts

LEMMA IpFrameStep ==
  ASSUME patient \/ ~lossy, Sound, NEW p \in Peers, IpFrame(p)
  PROVE  Sound'
<1> DEFINE k == ConnIn(conns, p)
           q == toDevice[p]
           w == looked[p]
           s == script[p]
           x == q[1]
           mine == {c \in 1..Conns : conns[c].state # "CLOSED" /\ conns[c].peer = p}
           free == {c \in 1..Conns : Available(c)}
           Do(c, o) == /\ conns' = [conns EXCEPT ![c] = o.conn]
                       /\ looked' = [looked EXCEPT ![p] = @ \o o.line]
                       /\ ArpOut(p, o.out)
<1>1. /\ conns \in [1..Conns -> TableEntries] /\ OneEach(conns)
      /\ q \in Seq(Segments) /\ w \in Seq(Words) /\ looked \in [Peers -> Seq(Words)]
  BY DEF Sound
<1>2. /\ Types(k, q, toPeer[p], peers[p], w, s) /\ SessionOK(k, q, toPeer[p], peers[p], w, s)
      /\ s \in Seq(Words)
  BY PeerTypes DEF Talk, Types
<1>3. /\ q # <<>> /\ toDevice' = [toDevice EXCEPT ![p] = Tail(@)] /\ UNCHANGED <<styleVars, peers>>
  BY DEF IpFrame
<1>4. x = Head(q) /\ x \in Segments /\ Len(q) > 0
  BY <1>1, <1>3, TailIs DEF IsTail
<1>5. Sendable(x, s) /\ (IsSyn(x) => HasSyn(q))
  <2>1. Len(q) \in Nat /\ 1 \in 1..Len(q)
    BY <1>1, <1>4, LenNat
  <2> QED BY <1>2, <2>1 DEF SessionOK, QueueOK, HasSyn
<1>6. /\ mine # {} => \E c \in mine : Do(c, Found(conns[c], x))
      /\ mine = {} /\ x.flags = {"syn"} /\ free # {} => \E c \in free : Do(c, SynRcvd(p, x))
      /\ mine = {} /\ x.flags = {"syn"} /\ free = {} => UNCHANGED <<conns, looked, toPeer, replyVars, router>>
      /\ mine = {} /\ x.flags # {"syn"} => ArpOut(p, Refuse(x)) /\ UNCHANGED <<conns, looked>>
  <2> HIDE DEF x
  <2>1. mine # {} => \E c \in mine : Do(c, Found(conns[c], x))
    BY <1>4 DEF IpFrame
  <2>2. mine = {} /\ x.flags = {"syn"} /\ free # {} => \E c \in free : Do(c, SynRcvd(p, x))
    BY <1>4 DEF IpFrame
  <2>3. mine = {} /\ x.flags = {"syn"} /\ free = {} => UNCHANGED <<conns, looked, toPeer, replyVars, router>>
    BY <1>4 DEF IpFrame
  <2>4. mine = {} /\ x.flags # {"syn"} => ArpOut(p, Refuse(x)) /\ UNCHANGED <<conns, looked>>
    BY <1>4 DEF IpFrame
  <2> QED BY <2>1, <2>2, <2>3, <2>4
<1>7. \A out : ArpOut(p, out) => Puts(p, out)
  BY <1>3, ArpOutPuts DEF styleVars
<1>8. ASSUME NEW c \in 1..Conns, NEW o, Effect(o, p, k, x, w, s), Do(c, o),
             Waits(p) => Heard(o, k, q, toPeer[p], peers[p], w, s),
             \/ MineIn(conns, p, c)
             \/ /\ \A d \in 1..Conns : ~MineIn(conns, p, d)
                /\ conns[c].state \in {"CLOSED", "TIME_WAIT"}
      PROVE  Sound'
  <2>1. PICK f : f = [conns EXCEPT ![c] = o.conn]
    OBVIOUS
  <2>2. o.conn \in TableEntries /\ (o.conn # Closed => o.conn.peer = p)
    BY <1>8 DEF Effect
  <2>3. /\ f \in [1..Conns -> TableEntries] /\ OneEach(f) /\ ConnIn(f, p) = o.conn
        /\ Others(f, conns, p)
    <3>1. PICK z \in TableEntries : z = o.conn
      BY <2>2
    <3>2. Replaced(f, conns, c, z) /\ (z # Closed => z.peer = p)
      BY <2>1, <2>2, <3>1 DEF Replaced
    <3>3. /\ f \in [1..Conns -> TableEntries] /\ OneEach(f) /\ ConnIn(f, p) = z
          /\ Others(f, conns, p)
      BY <1>1, <1>8, <3>2, Replace
    <3> QED BY <3>1, <3>3
  <2>4. conns' = f /\ looked' = [looked EXCEPT ![p] = @ \o o.line]
    BY <1>8, <2>1
  <2>5. Puts(p, o.out)
    BY <1>7, <1>8
  <2> QED BY <1>3, <1>8, <2>3, <2>4, <2>5, HandledStep
<1>9. \A c \in 1..Conns : c \in mine <=> MineIn(conns, p, c)
  BY DEF MineIn
<1>10. CASE mine # {}
  <2>1. PICK c \in 1..Conns : MineIn(conns, p, c) /\ Do(c, Found(conns[c], x))
    BY <1>6, <1>9, <1>10
  <2>2. k = conns[c] /\ k \in OpenEntries /\ k.peer = p
    <3>1. k = conns[c]
      BY <1>1, <2>1, ConnOfMine
    <3>2. conns[c] \in TableEntries /\ conns[c].state # "CLOSED" /\ conns[c].peer = p
      BY <1>1, <2>1 DEF MineIn
    <3> QED BY <3>1, <3>2 DEF TableEntries, Closed
  <2>3. Effect(Found(k, x), k.peer, k, x, w, s)
    BY <1>2, <1>4, <2>2, FoundEffect
  <2>4. Waits(p) => Heard(Found(k, x), k, q, toPeer[p], peers[p], w, s)
    BY <2>2, FoundSpoken DEF Heard, Waits
  <2> QED BY <1>8, <2>1, <2>2, <2>3, <2>4
<1>11. CASE mine = {}
  <2>1. /\ \A c \in 1..Conns : ~MineIn(conns, p, c)
        /\ k = Closed /\ k.state = "CLOSED"
    <3>1. \A c \in 1..Conns : ~MineIn(conns, p, c)
      BY <1>9, <1>11
    <3> QED BY <3>1, ConnOfNone DEF Closed
  <2>2. ASSUME NEW out, UNCHANGED <<conns, looked>>,
               Effect(Outcome(Closed, out, <<>>), p, k, x, w, s),
               Puts(p, out),
               Waits(p) => Heard(Outcome(Closed, out, <<>>), k, q, toPeer[p], peers[p], w, s)
        PROVE  Sound'
    <3> DEFINE o == Outcome(Closed, out, <<>>)
    <3>1. o.conn = Closed /\ o.out = out /\ o.line = <<>>
      BY DEF Outcome
    <3>2. looked' = [looked EXCEPT ![p] = @ \o <<>>]
      <4>1. w \o <<>> = w
        BY <1>1, ConcatEmptySeq
      <4> QED BY <1>1, <2>2, <4>1
    <3> HIDE DEF o
    <3>3. Effect(o, p, k, x, w, s)
      BY <2>2 DEF o
    <3>4. looked' = [looked EXCEPT ![p] = @ \o o.line]
      BY <3>1, <3>2
    <3>5. /\ Puts(p, o.out)
          /\ Waits(p) => Heard(o, k, q, toPeer[p], peers[p], w, s)
      BY <2>2, <3>1 DEF o
    <3>6. conns' = conns /\ ConnIn(conns, p) = o.conn
      BY <2>1, <2>2, <3>1
    <3>7. Others(conns, conns, p)
      BY DEF Others
    <3> QED BY <1>1, <1>3, <3>3, <3>4, <3>5, <3>6, <3>7, HandledStep
  <2>3. CASE x.flags = {"syn"} /\ free # {}
    <3>1. PICK c \in 1..Conns : Available(c) /\ Do(c, SynRcvd(p, x))
      BY <1>6, <1>11, <2>3
    <3>2. conns[c].state \in {"CLOSED", "TIME_WAIT"}
      BY <3>1 DEF Available
    <3>3. Len(w) = 0
      BY <1>2, <1>5, <2>3 DEF SessionOK, YoungOK, IsSyn
    <3>4. Effect(SynRcvd(p, x), p, k, x, w, s)
      BY <1>1, <1>2, <1>4, <1>5, <2>1, <2>3, <3>3, SynEffect DEF IsSyn
    <3>5. Waits(p) => Heard(SynRcvd(p, x), k, q, toPeer[p], peers[p], w, s)
      BY <2>1, <2>3, SynSpoken DEF Heard, Waits, IsSyn
    <3> QED BY <1>8, <2>1, <3>1, <3>2, <3>4, <3>5
  <2>4. CASE x.flags = {"syn"} /\ free = {}
    <3>1. UNCHANGED <<conns, looked, toPeer>> /\ robbed' = robbed
      BY <1>6, <1>11, <2>4 DEF replyVars
    <3>2. Handled(k, x, w, s, Closed, w)
      BY DEF Handled, StateOK, Closed
    <3>3. Effect(Outcome(Closed, <<>>, <<>>), p, k, x, w, s)
      BY <1>1, <3>2, NoLineEffect DEF TableEntries
    <3>4. Puts(p, <<>>)
      <4>1. toPeer \in [Peers -> Seq(Segments)] /\ toPeer[p] \o <<>> = toPeer[p]
        BY ConcatEmptySeq DEF Sound
      <4> QED BY <3>1, <4>1 DEF Puts
    <3>5. Waits(p) => Heard(Outcome(Closed, <<>>, <<>>), k, q, toPeer[p], peers[p], w, s)
      <4> DEFINE o == Outcome(Closed, <<>>, <<>>)
      <4>1. o.conn.state = "CLOSED" /\ o.out = <<>> /\ Quiet(o.out)
        BY DEF Outcome, Closed, Quiet
      <4>2. \A y : o.out # <<y>>
        <5>1. \A y : <<>> # <<y>>
          OBVIOUS
        <5> HIDE DEF o
        <5> QED BY <4>1, <5>1
      <4> HIDE DEF o
      <4>3. Waits(p) => patient
        BY DEF Waits
      <4>4. Waits(p) => Heard(o, k, q, toPeer[p], peers[p], w, s)
        BY <2>1, <4>1, <4>2, <4>3, NoneSpoken DEF Heard
      <4> QED BY <4>4 DEF o
    <3> QED BY <2>2, <3>1, <3>3, <3>4, <3>5
  <2>5. CASE x.flags # {"syn"}
    <3>1. ArpOut(p, Refuse(x)) /\ UNCHANGED <<conns, looked>>
      BY <1>6, <1>11, <2>5
    <3>2. Effect(Outcome(Closed, Refuse(x), <<>>), p, k, x, w, s)
      BY <1>1, <1>4, <2>1, <2>5, RefuseEffect DEF IsSyn
    <3>3. Puts(p, Refuse(x))
      BY <1>7, <3>1
    <3>4. Waits(p) => Heard(Outcome(Closed, Refuse(x), <<>>), k, q, toPeer[p], peers[p], w, s)
      BY <2>1, <2>5, RefuseSpoken DEF Heard, Waits, IsSyn
    <3> QED BY <2>2, <3>1, <3>2, <3>3, <3>4
  <2> QED BY <2>3, <2>4, <2>5
<1> QED BY <1>10, <1>11

LEMMA ArpStep ==
  ASSUME Sound, ArpReply \/ ArpRequest \/ Fetch
  PROVE  Sound'
<1>1. UNCHANGED <<lossy, patient, beyond, script, conns, toDevice, peers, looked>>
  BY DEF ArpReply, ArpRequest, Fetch, styleVars
<1>2. CASE toPeer' = toPeer /\ robbed' = robbed
  BY <1>1, <1>2, ShortenedStep DEF Shortened, Sound
<1>3. CASE Flush({})
  <2>1. PICK g : g = toPeer'
    OBVIOUS
  <2> QED BY <1>1, <1>3, <2>1, FlushShortens, ShortenedStep
<1> QED BY <1>2, <1>3 DEF ArpReply, ArpRequest, Fetch, PutOther, replyVars

\* Every line of a session is in its place, or no peer waits and segments are lost.
UipInv == patient \/ ~lossy => Sound

LEMMA UipInvInit == UipInit => UipInv
<1> SUFFICES ASSUME UipInit PROVE Sound
  BY DEF UipInv
<1>1. \A p \in Peers : ConnIn(conns, p) = Closed
  <2>1. \A p \in Peers : \A c \in 1..Conns : ~MineIn(conns, p, c)
    BY DEF UipInit, MineIn, Closed
  <2> QED BY <2>1, ConnOfNone
<1>2. /\ script \in [Peers -> Scripts]
      /\ conns \in [1..Conns -> TableEntries] /\ OneEach(conns)
  BY DEF UipInit, OneEach, MineIn, Closed, TableEntries
<1>3. \A S : <<>> \in Seq(S) /\ Len(<<>>) = 0
  BY EmptySeq
<1>4. /\ toDevice \in [Peers -> Seq(Segments)] /\ toPeer \in [Peers -> Seq(Segments)]
      /\ looked \in [Peers -> Seq(Words)]
  BY <1>3 DEF UipInit
<1>5. peers \in [Peers -> Remotes]
  <2>1. [state |-> "idle", una |-> 0, nxt |-> 0, rcv |-> 0, got |-> <<>>, fin |-> FALSE] \in Remotes
    BY <1>3 DEF Remotes
  <2> QED BY <2>1 DEF UipInit
<1>6. ASSUME NEW p \in Peers
      PROVE  SessionOf(p)
  <2> DEFINE e == [state |-> "idle", una |-> 0, nxt |-> 0, rcv |-> 0, got |-> <<>>, fin |-> FALSE]
             s == script[p]
  <2>1. /\ ConnIn(conns, p) = Closed /\ toDevice[p] = <<>> /\ toPeer[p] = <<>> /\ peers[p] = e
        /\ looked[p] = <<>>
    BY <1>1 DEF UipInit
  <2>2. Len(s) \in Nat
    BY <1>2, UipAssumption, LenProperties
  <2> HIDE DEF s
  <2>3. QueueOK(<<>>, s, e.nxt) /\ AnswersOK(<<>>, <<>>, s) /\ ~HasSyn(<<>>)
    BY <1>3 DEF QueueOK, AnswersOK, HasSyn
  <2>4. StateOK(Closed, <<>>, s) /\ LookedOK(<<>>, s)
    BY <1>3, <2>2 DEF StateOK, LookedOK, Closed
  <2>5. ~Young(Closed, <<>>) /\ ~Alive(Closed, <<>>)
    BY <2>3 DEF Young, Alive, Closed
  <2>6. YoungOK(Closed, <<>>, <<>>, e, <<>>) /\ InTurn(Closed, <<>>, e, <<>>, s)
    BY <2>3, <2>5 DEF YoungOK, InTurn
  <2>7. RemoteOK(Closed, <<>>, <<>>, e, <<>>, s)
    BY <1>3, <2>2 DEF RemoteOK, AckOK, Closed
  <2> HIDE DEF e
  <2>8. SessionOK(Closed, <<>>, <<>>, e, <<>>, s)
    BY <2>3, <2>4, <2>6, <2>7 DEF SessionOK
  <2>9. AnswerOK(Closed, <<>>, <<>>, e, <<>>, s)
    <3>1. Len(e.got) = 0 /\ ~e.fin /\ e.state = "idle" /\ Closed.state = "CLOSED"
      BY <1>3 DEF e, Closed
    <3>2. GotOK(e, s) /\ AcksOK(<<>>, e) /\ NoData(<<>>)
      BY <1>3, <3>1 DEF GotOK, AcksOK, NoData
    <3>3. Sending(Closed, <<>>, <<>>, e, <<>>, s)
      BY <3>1, <3>2 DEF Sending
    <3>4. Ending(Closed, <<>>, <<>>, e)
      BY <1>3, <2>5, <3>1 DEF Ending
    <3> QED BY <3>2, <3>3, <3>4 DEF AnswerOK
  <2> QED BY <2>1, <2>8, <2>9 DEF SessionOf, Talk, s
<1> QED BY <1>2, <1>4, <1>5, <1>6 DEF Sound

LEMMA UipInvNext == UipInv /\ [UipNext]_uipVars => UipInv'
<1> SUFFICES ASSUME UipInv, [UipNext]_uipVars, patient' \/ ~lossy' PROVE Sound'
  BY DEF UipInv
<1>1. patient' = patient /\ lossy' = lossy
  BY DEF UipNext, uipVars, styleVars, ArpReply, ArpRequest, Fetch, Session, IpFrame, Open, SendNext, Retransmit, PeerTakes,
         LoseSegment, Abort
<1>2. (patient \/ ~lossy) /\ Sound
  BY <1>1 DEF UipInv
<1>3. CASE ArpReply \/ ArpRequest \/ Fetch
  BY <1>2, <1>3, ArpStep
<1>4. ASSUME NEW p \in Peers, Session(p)
      PROVE  Sound'
  BY <1>2, <1>4, IpFrameStep, OpenStep, SendNextStep, RetransmitStep, TakesStep DEF Session
<1>5. ASSUME NEW p \in Peers, LoseSegment(p) \/ Abort(p)
      PROVE  Sound'
  BY <1>2, <1>5, LoseStep, AbortStep
<1>6. CASE UNCHANGED uipVars
  <2>1. /\ UNCHANGED <<lossy, patient, beyond, script, conns, toDevice, peers, looked>>
        /\ toPeer' = toPeer /\ robbed' = robbed
    BY <1>6 DEF uipVars
  <2>2. Shortened(toPeer)
    BY <1>2, <2>1 DEF Shortened, Sound
  <2> QED BY <1>2, <2>1, <2>2, ShortenedStep
<1> QED BY <1>3, <1>4, <1>5, <1>6 DEF UipNext

LEMMA LinesSo == UipInv => LinesInOrder
<1> SUFFICES ASSUME UipInv, patient \/ ~lossy, NEW p \in Peers
             PROVE  /\ Len(looked[p]) <= Lines(p)
                    /\ looked[p] = SubSeq(script[p], 1, Len(looked[p]))
                    /\ peers[p].una - 1 <= Len(looked[p]) + (IF peers[p].una > Lines(p) + 1 THEN 1 ELSE 0)
  BY DEF LinesInOrder
<1> DEFINE w == looked[p]
           s == script[p]
<1>1. Sound
  BY DEF UipInv
<1>2. /\ Types(ConnIn(conns, p), toDevice[p], toPeer[p], peers[p], w, s)
      /\ LookedOK(w, s) /\ AckOK(peers[p].una, w, s)
  BY <1>1, PeerTypes DEF Talk, SessionOK, RemoteOK
<1>3. /\ w \in Seq(Words) /\ s \in Seq(Words) /\ Len(w) \in Nat /\ Len(s) \in Nat
      /\ peers[p].una \in Nat /\ Lines(p) = Len(s)
  BY <1>2, Fields DEF Types, Lines
<1>4. Len(w) <= Len(s) /\ \A i \in 1..Len(w) : w[i] = s[i]
  BY <1>2 DEF LookedOK
<1> HIDE DEF w, s
<1>5. w = SubSeq(s, 1, Len(w))
  <2>1. /\ SubSeq(s, 1, Len(w)) \in Seq(Words) /\ Len(SubSeq(s, 1, Len(w))) = Len(w)
        /\ \A i \in 1..Len(w) : SubSeq(s, 1, Len(w))[i] = s[i]
    BY <1>3, <1>4, SubSeqProperties
  <2> QED BY <1>3, <1>4, <2>1, SeqEqual
<1>6. peers[p].una - 1 <= Len(w) + (IF peers[p].una > Lines(p) + 1 THEN 1 ELSE 0)
  BY <1>2, <1>3 DEF AckOK
<1> QED BY <1>3, <1>4, <1>5, <1>6 DEF w, s

LEMMA AnswersSo == UipInv => AnswersInOrder
<1> SUFFICES ASSUME UipInv, patient, ~lossy, NEW p \in Peers \ (beyond \cup robbed), NEW i \in 1..Len(peers[p].got)
             PROVE  peers[p].got[i] = Answer(script[p], i)
  BY DEF AnswersInOrder, Answer
<1>1. Sound /\ Waits(p)
  BY DEF UipInv, Waits
<1> QED BY <1>1, PeerTypes DEF Talk, AnswerOK, GotOK

\* The application of the bridge looks at the lines of a session in the order its peer
\* sent them, each once, and acknowledges none before; and without loss a peer that
\* waits and of whose answers none is flushed gets the prompt and then the answer to
\* each of its lines, each once.
THEOREM SessionsInOrder == UipSpec => []StreamsInOrder
<1>1. UipInit => UipInv
  BY UipInvInit
<1>2. UipInv /\ [UipNext]_uipVars => UipInv'
  BY UipInvNext
<1>3. UipInv => StreamsInOrder
  BY LinesSo, AnswersSo DEF StreamsInOrder
<1> QED BY <1>1, <1>2, <1>3, PTL DEF UipSpec
=============================================================================
