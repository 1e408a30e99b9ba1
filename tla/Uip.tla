-------------------------------- MODULE Uip --------------------------------
(***************************************************************************)
(* The TCP of the USB to Ethernet bridge: uip_process of uIP 0.9           *)
(* (applications/usbn2net/cdc_subset/uip/uip/uip.c) as demo.c calls it,    *)
(* with the ARP table of uip_arp.c and the application that listens        *)
(* (uip/exampleapp).  usbn2net_event is never called with an empty buffer, *)
(* so uip_periodic is not, and the call of uip_arp_timer is commented out: *)
(* nothing is sent again, no connection times out, and every connection    *)
(* starts with the sequence number 0.  A reply waits in TX FIFO 1 for the  *)
(* host, and the next one flushes it: all of them fit into a packet.  A    *)
(* peer opens one connection, sends the lines of its script, a segment     *)
(* each, and closes.  A line counts 1 in sequence numbers, "avr> " 2 and   *)
(* "ok\navr> " 3.  Peers' windows and segments take every answer; no       *)
(* segment is urgent, a fragment or broken.                                *)
(***************************************************************************)
EXTENDS Integers, Sequences

CONSTANTS
  Peers,      \* remote ends, each an address and a port
  Beyond,     \* those of them that may be behind the router
  Conns,      \* UIP_CONNS
  Scripts,    \* sequences of "h", "other" and, at the end only, "q"
  MaxFlight   \* bound: segments of a peer on their way

ASSUME UipAssumption ==
  /\ Beyond \subseteq Peers /\ Conns \in Nat \ {0} /\ MaxFlight \in Nat
  /\ Scripts \subseteq Seq({"h", "other", "q"})
  /\ \A s \in Scripts : \A i \in 1..Len(s) : s[i] = "q" => i = Len(s)

VARIABLES
  lossy,           \* are segments lost, and connections reset?
  hasty,           \* do peers send again what may still be on its way?
  patient,         \* do the peers wait for an answer before they send on?
  prompt,          \* do the peers acknowledge an answer at once?
  active, beyond, script,  \* the peers there are, those behind the router, what each sends
  conns,           \* uip_conns
  router,          \* its entry in arp_table: "unknown", "asked" or "known"
  toDevice, toPeer,  \* segments on their way, with the one in TX FIFO 1
  unfetched,       \* what is in TX FIFO 1: "none", the last segment to a peer, what is
                   \* for "another", or "lost": what has the PID the host does not expect
  peers,           \* state, una and nxt of the lines, rcv, answers got, FIN taken
  looked,          \* history: the lines of each peer the application looked at
  robbed           \* history: the peers that lost an answer in TX FIFO 1

uipVars == <<lossy, hasty, patient, prompt, active, beyond, script, conns, router, toDevice, toPeer,
             unfetched, peers, looked, robbed>>
styleVars == <<lossy, hasty, patient, prompt, active, beyond, script>>
replyVars == <<unfetched, robbed>>

Closed == [state |-> "CLOSED"]

UipInit ==
  /\ lossy \in BOOLEAN /\ hasty \in BOOLEAN /\ patient \in BOOLEAN /\ prompt \in BOOLEAN
  /\ active \in SUBSET Peers /\ beyond \in SUBSET (Beyond \cap active) /\ script \in [Peers -> Scripts]
  /\ conns = [c \in 1..Conns |-> Closed]
  /\ router = "unknown"
  /\ toDevice = [p \in Peers |-> <<>>] /\ toPeer = [p \in Peers |-> <<>>]
  /\ peers = [p \in Peers |-> [state |-> "idle", una |-> 0, nxt |-> 0, rcv |-> 0,
                               got |-> <<>>, fin |-> FALSE]]
  /\ looked = [p \in Peers |-> <<>>]
  /\ unfetched = "none" /\ robbed = {}

Segment(flags, seq, ack, len, text) ==
  [flags |-> flags, seq |-> seq, ack |-> ack, len |-> len, text |-> text]

-----------------------------------------------------------------------------
(* uip_process.  What it does to a connection k: the connection after it, the *)
(* segment it sends, if any, and the line the application looks at, if any.   *)

Outcome(k, out, line) == [conn |-> k, out |-> out, line |-> line]
Drop(k)         == Outcome(k, <<>>, <<>>)
Control(k, fs)  == Segment(fs, k.sndNxt, k.rcvNxt, 0, "none")
SendAck(k)      == Outcome(k, <<Control(k, {"ack"})>>, <<>>)
SendFin(k, line) == Outcome([k EXCEPT !.len = 1], <<Control(k, {"fin", "ack"})>>, line)

\* appsend: a connection with data under way sends as much as that was, again.
AnswerLength(answer) == IF answer = "ok" THEN 3 ELSE 2
AppSend(k, acked, answer, line) ==
  LET len == IF acked \/ k.len = 0 THEN AnswerLength(answer) ELSE k.len
  IN Outcome([k EXCEPT !.len = len],
             <<Segment({"ack"}, k.sndNxt, k.rcvNxt, len, answer)>>, line)

\* example_app with new data.
ExampleApp(k, acked, line) ==
  CASE line = "q"     -> SendFin([k EXCEPT !.state = "FIN_WAIT_1"], <<line>>)
    [] line = "h"     -> AppSend(k, acked, "ok", <<line>>)
    [] line = "other" -> AppSend(k, acked, "prompt", <<line>>)

\* found_listen: the first closed entry, or else the first in TIME_WAIT, where
\* no timer runs.
Available(c) ==
  \/ conns[c].state = "CLOSED"
  \/ conns[c].state = "TIME_WAIT" /\ \A d \in 1..Conns : conns[d].state # "CLOSED"

SynRcvd(p, s) ==
  LET k == [state |-> "SYN_RCVD", peer |-> p, sndNxt |-> 0, len |-> 1, rcvNxt |-> s.seq + 1]
  IN Outcome(k, <<Control(k, {"syn", "ack"})>>, <<>>)

\* The acknowledgement of all that is outstanding moves snd_nxt and leaves len.
Acked(k, s) == "ack" \in s.flags /\ k.len # 0 /\ s.ack = k.sndNxt + k.len

\* A connection that was waiting for it is established: the application sends
\* its prompt, and does not look at data that came along.
Connect(k, s) ==
  AppSend([k EXCEPT !.state = "ESTABLISHED", !.len = 0, !.rcvNxt = @ + s.len],
          FALSE, "prompt", <<>>)

\* With data outstanding a FIN is dropped.
Established(k, s, acked) ==
  CASE "fin" \in s.flags /\ k.len # 0 -> Drop(k)
    [] "fin" \in s.flags /\ k.len = 0 ->
         SendFin([k EXCEPT !.state = "LAST_ACK", !.rcvNxt = @ + s.len + 1], <<>>)
    [] "fin" \notin s.flags /\ s.len > 0 ->
         ExampleApp([k EXCEPT !.rcvNxt = @ + s.len], acked, s.text)
    [] "fin" \notin s.flags /\ s.len = 0 ->
         Drop([k EXCEPT !.len = IF acked THEN 0 ELSE @])

\* FIN_WAIT_1 and FIN_WAIT_2: the application has closed; data is taken unseen.
FinWait(k, s, acked) ==
  LET r == [k EXCEPT !.rcvNxt = @ + s.len]
      done == acked \/ k.state = "FIN_WAIT_2"
      noLen == [r EXCEPT !.len = IF acked THEN 0 ELSE @]
  IN CASE "fin" \in s.flags ->
            SendAck([noLen EXCEPT !.rcvNxt = @ + 1,
                                  !.state = IF done THEN "TIME_WAIT" ELSE "CLOSING"])
       [] "fin" \notin s.flags /\ k.state = "FIN_WAIT_1" /\ acked ->
            Drop([noLen EXCEPT !.state = "FIN_WAIT_2"])
       [] OTHER -> IF s.len > 0 THEN SendAck(r) ELSE Drop(r)

\* Mutant: LAST_ACK is left open.
LastAckStays(k, acked) == Drop(k)
LastAck(k, acked)      == Drop(IF acked THEN Closed ELSE k)

\* found: any RST is believed; data must be what is expected next, a FIN need not.
\* Mutant: the sequence number is not looked at.
ExpectedAll(k, s) == TRUE
Expected(k, s)    == s.len = 0 \/ s.seq = k.rcvNxt

Found(k0, s) ==
  LET acked == Acked(k0, s)
      k == IF acked THEN [k0 EXCEPT !.sndNxt = @ + k0.len] ELSE k0
  IN CASE "rst" \in s.flags -> Drop(Closed)
       [] "rst" \notin s.flags /\ ~Expected(k0, s) -> SendAck(k0)
       [] OTHER ->
            CASE k0.state = "SYN_RCVD"    -> IF acked THEN Connect(k, s) ELSE Drop(k)
              [] k0.state = "ESTABLISHED" -> Established(k, s, acked)
              [] k0.state = "LAST_ACK"    -> LastAck(k, acked)
              [] k0.state \in {"FIN_WAIT_1", "FIN_WAIT_2"} -> FinWait(k, s, acked)
              [] k0.state = "TIME_WAIT"   -> SendAck(k)
              [] k0.state = "CLOSING"     ->
                   Drop(IF acked THEN [k EXCEPT !.state = "TIME_WAIT"] ELSE k)

\* reset: what no connection expects is answered with the numbers flipped.
Refuse(s) ==
  IF "rst" \in s.flags THEN <<>> ELSE <<Segment({"rst", "ack"}, s.ack, s.seq + 1, 0, "none")>>

\* usbn2net_send: a reply flushes the one the host has not fetched, whoever waits for
\* it.  It has the other PID then, so that the host drops it for a duplicate; behind
\* one that is lost so, a reply has the right PID again.
Flushes == unfetched \notin {"none", "lost"}
Flush(victims) ==
  /\ toPeer' = IF unfetched \in Peers
               THEN [toPeer EXCEPT ![unfetched] = SubSeq(@, 1, Len(@) - 1)] ELSE toPeer
  /\ robbed' = robbed \cup (({unfetched} \cup victims) \cap Peers)
  /\ unfetched' = "lost"

PutOut(p, out) ==
  IF Flushes THEN Flush({p})
  ELSE toPeer' = [toPeer EXCEPT ![p] = @ \o out] /\ unfetched' = p /\ UNCHANGED robbed

PutOther ==
  IF Flushes THEN Flush({}) ELSE unfetched' = "another" /\ UNCHANGED <<toPeer, robbed>>

\* uip_arp_out: an answer to a peer behind a router nobody has heard of is
\* replaced by an ARP request, which "asked" takes to get there unless it is lost at
\* once.  Local peers are known by uip_arp_ipin.
ArpOut(p, out) ==
  LET asks == p \in beyond /\ router # "known"
  IN /\ IF out = <<>> THEN UNCHANGED <<toPeer, replyVars>>
        ELSE IF asks THEN PutOther ELSE PutOut(p, out)
     /\ router' = IF out # <<>> /\ asks /\ ~Flushes THEN "asked" ELSE router

\* usbn2net_event with an IP frame: of the connections that are not closed one
\* at most is the peer's.
IpFrame(p) ==
  /\ toDevice[p] # <<>>
  /\ LET s    == Head(toDevice[p])
         mine == {c \in 1..Conns : conns[c].state # "CLOSED" /\ conns[c].peer = p}
         free == {c \in 1..Conns : Available(c)}
         Do(c, o) == /\ conns' = [conns EXCEPT ![c] = o.conn]
                     /\ looked' = [looked EXCEPT ![p] = @ \o o.line]
                     /\ ArpOut(p, o.out)
     IN CASE mine # {} -> \E c \in mine : Do(c, Found(conns[c], s))
          [] mine = {} /\ s.flags = {"syn"} /\ free # {} ->
               \E c \in free : (\A d \in free : c <= d) /\ Do(c, SynRcvd(p, s))
          [] mine = {} /\ s.flags = {"syn"} /\ free = {} ->
               UNCHANGED <<conns, looked, toPeer, replyVars, router>>
          [] mine = {} /\ s.flags # {"syn"} ->
               ArpOut(p, Refuse(s)) /\ UNCHANGED <<conns, looked>>
  /\ toDevice' = [toDevice EXCEPT ![p] = Tail(@)]
  /\ UNCHANGED <<styleVars, peers>>

\* uip_arp_arpin: the router's answer, and anybody's request, which is answered.
ArpReply ==
  /\ router = "asked" /\ router' = "known"
  /\ UNCHANGED <<styleVars, conns, toDevice, toPeer, replyVars, peers, looked>>

ArpRequest ==
  /\ PutOther
  /\ UNCHANGED <<styleVars, conns, router, toDevice, peers, looked>>

-----------------------------------------------------------------------------
(* The peers and the network                                                *)

Lines(p) == Len(script[p])

\* What has number i in a peer's stream: its SYN, a line, or its FIN.
Numbered(p, i) ==
  CASE i = 0           -> Segment({"syn"}, 0, 0, 0, "none")
    [] i \in 1..Lines(p) -> Segment({"ack"}, i, peers[p].rcv, 1, script[p][i])
    [] i = Lines(p) + 1  -> Segment({"fin", "ack"}, i, peers[p].rcv, 0, "none")

Transmit(p, segment) == toDevice' = [toDevice EXCEPT ![p] = Append(@, segment)]

Open(p) ==
  /\ p \in active /\ peers[p].state = "idle"
  /\ peers' = [peers EXCEPT ![p].state = "syn_sent", ![p].nxt = 1]
  /\ Transmit(p, Numbered(p, 0))
  /\ UNCHANGED <<styleVars, conns, router, toPeer, replyVars, looked>>

\* The prompt and an answer to each line; for "q" the end.
HasAnswer(p) == peers[p].fin \/ Len(peers[p].got) = peers[p].nxt

SendNext(p) ==
  /\ peers[p].state = "established" /\ peers[p].nxt <= Lines(p) + 1
  /\ Len(toDevice[p]) < MaxFlight
  /\ patient => /\ peers[p].una = peers[p].nxt /\ peers[p].got # <<>>
                /\ lossy \/ HasAnswer(p)
  /\ Transmit(p, Numbered(p, peers[p].nxt))
  /\ peers' = [peers EXCEPT ![p].nxt = @ + 1]
  /\ UNCHANGED <<styleVars, conns, router, toPeer, replyVars, looked>>

Retransmit(p) ==
  /\ peers[p].state \in {"syn_sent", "established"} /\ peers[p].una < peers[p].nxt
  /\ IF hasty THEN Len(toDevice[p]) < MaxFlight /\ Len(toPeer[p]) < MaxFlight
     ELSE toDevice[p] = <<>> /\ toPeer[p] = <<>>
  /\ Transmit(p, Numbered(p, peers[p].una))
  /\ UNCHANGED <<styleVars, conns, router, toPeer, replyVars, peers, looked>>

\* The host fetches the reply, and what is not lost goes its way.
Fetch ==
  /\ unfetched # "none" /\ unfetched' = "none"
  /\ UNCHANGED <<styleVars, conns, router, toDevice, toPeer, peers, looked, robbed>>

OnTheNet(p) == Len(toPeer[p]) > (IF unfetched = p THEN 1 ELSE 0)

\* A peer takes what it expects next and acknowledges it, at once or with what it
\* sends next; what it does not expect it answers with an ACK.
PeerTakes(p) ==
  /\ OnTheNet(p)
  /\ LET s == Head(toPeer[p])
         q == peers[p]
         fresh == s.seq = q.rcv
         taken == [q EXCEPT !.una = IF s.ack \in (@ + 1)..q.nxt THEN s.ack ELSE @,
                            !.rcv = IF fresh THEN @ + s.len + (IF "fin" \in s.flags THEN 1 ELSE 0) ELSE @,
                            !.got = IF fresh /\ s.len > 0 THEN Append(@, [text |-> s.text, len |-> s.len]) ELSE @,
                            !.fin = @ \/ (fresh /\ "fin" \in s.flags)]
         Ack(r) == Transmit(p, Segment({"ack"}, r.nxt, r.rcv, 0, "none"))
     IN CASE q.state \in {"idle", "reset"} -> UNCHANGED <<peers, toDevice>>
          [] q.state \notin {"idle", "reset"} /\ "rst" \in s.flags ->
               peers' = [peers EXCEPT ![p].state = "reset"] /\ UNCHANGED toDevice
          [] q.state = "syn_sent" /\ "rst" \notin s.flags ->
               IF s.flags = {"syn", "ack"} /\ s.ack = 1
               THEN LET r == [q EXCEPT !.state = "established", !.una = 1, !.rcv = 1]
                    IN peers' = [peers EXCEPT ![p] = r] /\ Ack(r)
               ELSE UNCHANGED <<peers, toDevice>>
          [] q.state = "established" /\ "rst" \notin s.flags ->
               /\ peers' = [peers EXCEPT ![p] = taken]
               /\ \/ (s.len > 0 \/ "fin" \in s.flags \/ "syn" \in s.flags) /\ Ack(taken)
                  \/ s.flags = {"ack"} /\ (s.len > 0 => fresh /\ ~prompt) /\ UNCHANGED toDevice
  /\ toPeer' = [toPeer EXCEPT ![p] = Tail(@)]
  /\ UNCHANGED <<styleVars, conns, router, replyVars, looked>>

\* A segment is lost; a peer gives up.
LoseSegment(p) ==
  /\ lossy
  /\ \/ toDevice[p] # <<>> /\ toDevice' = [toDevice EXCEPT ![p] = Tail(@)] /\ UNCHANGED toPeer
     \/ OnTheNet(p) /\ toPeer' = [toPeer EXCEPT ![p] = Tail(@)] /\ UNCHANGED toDevice
  /\ UNCHANGED <<styleVars, conns, router, replyVars, peers, looked>>

Abort(p) ==
  /\ lossy /\ peers[p].state = "established"
  /\ peers' = [peers EXCEPT ![p].state = "reset"]
  /\ Transmit(p, Segment({"rst", "ack"}, peers[p].nxt, peers[p].rcv, 0, "none"))
  /\ UNCHANGED <<styleVars, conns, router, toPeer, replyVars, looked>>

Session(p) == IpFrame(p) \/ Open(p) \/ SendNext(p) \/ Retransmit(p) \/ PeerTakes(p)

UipNext ==
  \/ ArpReply \/ ArpRequest \/ Fetch
  \/ \E p \in Peers : Session(p) \/ LoseSegment(p) \/ Abort(p)

UipSpec == UipInit /\ [][UipNext]_uipVars

-----------------------------------------------------------------------------
(* Properties                                                               *)

\* The application looks at the lines of a peer in order, each once, and no line is
\* acknowledged it has not looked at: with peers that wait for their answers or
\* without loss.
LinesInOrder ==
  patient \/ ~lossy =>
    \A p \in Peers :
      /\ Len(looked[p]) <= Lines(p)
      /\ looked[p] = SubSeq(script[p], 1, Len(looked[p]))
      /\ peers[p].una - 1 <= Len(looked[p]) + (IF peers[p].una > Lines(p) + 1 THEN 1 ELSE 0)

\* Without loss a peer that waits for its answers gets the prompt and then the
\* answer to each of its lines, whole, and not a second time, as long as none of its
\* answers is flushed, whatever is sent to others meanwhile.
AnswersInOrder ==
  patient /\ ~lossy =>
    \A p \in Peers \ (beyond \cup robbed) : \A i \in 1..Len(peers[p].got) :
      peers[p].got[i] =
        LET text == IF i > 1 /\ script[p][i - 1] = "h" THEN "ok" ELSE "prompt"
        IN [text |-> text, len |-> AnswerLength(text)]

StreamsInOrder == LinesInOrder /\ AnswersInOrder

\* Every session of local, patient and prompt peers comes to its end, though there
\* are more of them than entries in the table and nobody frees one by time: but for
\* peers an answer to which was flushed, which is never sent again, and those that
\* find no entry, because such peers have them all.
KeptOut(p) ==
  peers[p].state = "syn_sent" /\ \A c \in 1..Conns : conns[c].state # "CLOSED" /\ conns[c].peer \in robbed

SessionsEnd ==
  ~lossy /\ ~hasty /\ patient /\ prompt /\ beyond = {} =>
    <>[](\A p \in active \ robbed :
           \/ peers[p].fin /\ peers[p].una = Lines(p) + 2
           \/ KeptOut(p))
=============================================================================
