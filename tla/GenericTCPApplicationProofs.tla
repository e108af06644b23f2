-------------------- MODULE GenericTCPApplicationProofs --------------------
(***************************************************************************)
(* The worker connections and the client threads of GenericTCPApplication, *)
(* for any sessions, requests, replies, limits and losses.                 *)
(*                                                                         *)
(* First, a connection keeps the promises of TCPContract.  Up to the state *)
(* transition, which comes last, the operators of TCPConnection keep its   *)
(* state and the flag of the CLOSE (Evolves).  With the promises every     *)
(* step keeps the invariant of TCPThreadProofs, by TCPStepProofs, and the  *)
(* theorems follow.                                                        *)
(***************************************************************************)
EXTENDS TCPStepProofs, FiniteSetTheorems

\* What an operator makes of the connection c, up to the transition: the state
\* and the flag of the application's CLOSE are kept, and each event and each
\* indication has its reason.
Evolves(r, c, stops) ==
  /\ r \in Outcome
  /\ r.c.fsm = c.fsm /\ r.c.sendFin = c.sendFin
  /\ r.event = "CLOSE" => c.sendFin
  /\ \A i \in DOMAIN r.inds : ProperIndication(r.inds[i], c, stops)

\* An outcome with another component.
WithConnection(r, x) == [r EXCEPT !.c = x]
WithSegments(r, t) == [r EXCEPT !.segs = t]
WithEvent(r, e) == [r EXCEPT !.event = e]
WithIndications(r, t) == [r EXCEPT !.inds = t]

\* The function that MessagesEnding defines.
IsText(f, stops, from, to) ==
  f = [n \in from .. to |->
         IF n = from THEN <<>>
         ELSE IF n - 1 \in stops THEN Append(f[n - 1], n - 1) ELSE f[n - 1]]

-----------------------------------------------------------------------------
\* Every operator of TCPConnection, in every state that a TCP module keeps and
\* for any segment, timer or command, does what TCP and the applications rely on:
\* the types, the states it may lead to, and the reason of each indication.
THEOREM ConnectionContract == Contract
(* Connections and outcomes.                                               *)

\* An outcome with another connection in it.
<0>OtherConnection.
  ASSUME NEW c, NEW stops, NEW r, Evolves(r, c, stops), NEW x \in Connection,
         x.fsm = c.fsm, x.sendFin = c.sendFin
  PROVE  /\ Evolves(WithConnection(r, x), c, stops)
         /\ WithConnection(r, x).c = x /\ WithConnection(r, x).inds = r.inds
         /\ WithConnection(r, x).segs = r.segs
         /\ WithConnection(r, x).event = r.event
<1> USE <0>OtherConnection
<1>1. /\ WithConnection(r, x) \in Outcome
      /\ WithConnection(r, x).c = x /\ WithConnection(r, x).inds = r.inds
      /\ WithConnection(r, x).segs = r.segs
      /\ WithConnection(r, x).event = r.event
  BY Zenon DEF Evolves, Outcome, WithConnection
<1> QED
  BY <1>1 DEF Evolves

\* An outcome with other segments in it.
<0>OtherSegments.
  ASSUME NEW c, NEW stops, NEW r, Evolves(r, c, stops), NEW t \in Seq(TCPSegment)
  PROVE  /\ Evolves(WithSegments(r, t), c, stops)
         /\ WithSegments(r, t).c = r.c /\ WithSegments(r, t).inds = r.inds
         /\ WithSegments(r, t).event = r.event
<1> USE <0>OtherSegments
<1>1. /\ WithSegments(r, t) \in Outcome
      /\ WithSegments(r, t).c = r.c /\ WithSegments(r, t).inds = r.inds
      /\ WithSegments(r, t).event = r.event
  BY Zenon DEF Evolves, Outcome, WithSegments
<1> QED
  BY <1>1 DEF Evolves

\* An outcome with another event.
<0>OtherEvent.
  ASSUME NEW c, NEW stops, NEW r, Evolves(r, c, stops), NEW e \in Event,
         e = "CLOSE" => c.sendFin
  PROVE  /\ Evolves(WithEvent(r, e), c, stops)
         /\ WithEvent(r, e).c = r.c /\ WithEvent(r, e).inds = r.inds
         /\ WithEvent(r, e).segs = r.segs
         /\ WithEvent(r, e).event = e
<1> USE <0>OtherEvent
<1>1. /\ WithEvent(r, e) \in Outcome
      /\ WithEvent(r, e).c = r.c /\ WithEvent(r, e).inds = r.inds
      /\ WithEvent(r, e).segs = r.segs
      /\ WithEvent(r, e).event = e
  BY DEF Evolves, Outcome, WithEvent
<1> QED
  BY <1>1 DEF Evolves

\* An outcome with more indications.
<0>MoreIndications.
  ASSUME NEW c, NEW stops, NEW r, Evolves(r, c, stops), NEW more \in Seq(Indication),
         \A i \in DOMAIN more : ProperIndication(more[i], c, stops)
  PROVE  /\ Evolves(WithIndications(r, r.inds \o more), c, stops)
         /\ WithIndications(r, r.inds \o more).c = r.c
         /\ WithIndications(r, r.inds \o more).inds = r.inds \o more
         /\ WithIndications(r, r.inds \o more).event = r.event
<1> USE <0>MoreIndications
<1> DEFINE all == r.inds \o more
<1>0. r.inds \in Seq(Indication)
  BY DEF Evolves, Outcome
<1>1. all \in Seq(Indication) /\ \A i \in DOMAIN all : ProperIndication(all[i], c, stops)
  <2>1. /\ all \in Seq(Indication) /\ Len(all) = Len(r.inds) + Len(more)
        /\ \A i \in 1..Len(r.inds) + Len(more) :
              all[i] = IF i <= Len(r.inds) THEN r.inds[i] ELSE more[i - Len(r.inds)]
    BY <1>0
  <2>2. /\ DOMAIN all = 1..Len(r.inds) + Len(more) /\ DOMAIN more = 1..Len(more)
        /\ DOMAIN r.inds = 1..Len(r.inds) /\ Len(r.inds) \in Nat /\ Len(more) \in Nat
    BY <1>0, <2>1
  <2> HIDE DEF all
  <2>3. ASSUME NEW i \in DOMAIN all PROVE ProperIndication(all[i], c, stops)
    <3>1. CASE i <= Len(r.inds)
      <4>1. i \in DOMAIN r.inds /\ all[i] = r.inds[i]
        BY <2>1, <2>2, <2>3, <3>1
      <4> QED
        BY <4>1 DEF Evolves
    <3>2. CASE ~(i <= Len(r.inds))
      <4>1. i - Len(r.inds) \in DOMAIN more /\ all[i] = more[i - Len(r.inds)]
        BY <2>1, <2>2, <2>3, <3>2
      <4> QED
        BY <4>1
    <3> QED
      BY <3>1, <3>2
  <2> QED
    BY <2>1, <2>3
<1> HIDE DEF all
<1>2. /\ WithIndications(r, all) \in Outcome
      /\ WithIndications(r, all).c = r.c /\ WithIndications(r, all).inds = all
      /\ WithIndications(r, all).event = r.event
  BY Zenon, <1>1 DEF Evolves, Outcome, WithIndications
<1>3. Evolves(WithIndications(r, all), c, stops)
  BY <1>1, <1>2 DEF Evolves
<1> QED
  BY <1>2, <1>3 DEF all

\* A connection as an outcome of its own.
<0>ResultEvolves.
  ASSUME NEW c \in Connection, NEW x \in Connection, NEW stops,
         x.fsm = c.fsm, x.sendFin = c.sendFin
  PROVE  /\ Evolves(Result(x), c, stops)
         /\ Result(x).c = x /\ Result(x).segs = <<>> /\ Result(x).inds = <<>>
         /\ Result(x).event = "IGNORE"
<1> USE <0>ResultEvolves
<1>1. /\ Result(x) \in Outcome
      /\ Result(x).c = x /\ Result(x).segs = <<>> /\ Result(x).inds = <<>>
      /\ Result(x).event = "IGNORE"
  BY DEF Result, Outcome, Event
<1>2. DOMAIN Result(x).inds = {}
  BY <1>1
<1> QED
  BY <1>1, <1>2 DEF Evolves

(* The operators that send and indicate.                                   *)

\* A segment is a segment.
<0>SegmentType.
  ASSUME NEW flags \in SUBSET Flag, NEW seq \in Int, NEW ack \in Int, NEW len \in Int
  PROVE  Segment(flags, seq, ack, len) \in TCPSegment
  BY <0>SegmentType DEF Segment, TCPSegment

\* sendToIP changes neither the connection nor the indications.
<0>SendToIP.
  ASSUME NEW c, NEW stops, NEW r, Evolves(r, c, stops), NEW seg \in TCPSegment
  PROVE  /\ Evolves(sendToIP(r, seg), c, stops)
         /\ sendToIP(r, seg).c = r.c /\ sendToIP(r, seg).inds = r.inds
         /\ sendToIP(r, seg).event = r.event
<1> USE <0>SendToIP
<1> DEFINE t == Append(r.segs, seg)
<1>1. r.segs \in Seq(TCPSegment)
  BY DEF Evolves, Outcome
<1>2. t \in Seq(TCPSegment)
  BY <1>1
<1>3. sendToIP(r, seg) = WithSegments(r, t)
  BY DEF sendToIP, WithSegments
<1> HIDE DEF t
<1> QED
  BY <1>2, <1>3, <0>OtherSegments

\* sendIndicationToApp adds one indication.
<0>SendIndication.
  ASSUME NEW c, NEW stops, NEW r, Evolves(r, c, stops), NEW kind \in Kinds \ {"DATA"},
         kind = "CLOSED" => c.fsm \in Closing,
         kind = "ESTABLISHED" => c.fsm \in {"SYN_SENT", "SYN_RCVD"}
  PROVE  /\ Evolves(sendIndicationToApp(r, kind), c, stops)
         /\ sendIndicationToApp(r, kind).c = r.c
         /\ sendIndicationToApp(r, kind).inds = Append(r.inds, [kind |-> kind, at |-> 0])
         /\ sendIndicationToApp(r, kind).event = r.event
<1> USE <0>SendIndication
<1> DEFINE ind == [kind |-> kind, at |-> 0]
           more == <<ind>>
<1>1. ind \in Indication /\ ProperIndication(ind, c, stops)
  BY DEF Indication, ProperIndication
<1>2. r.inds \in Seq(Indication)
  BY DEF Evolves, Outcome
<1> HIDE DEF ind
<1>3. /\ more \in Seq(Indication) /\ DOMAIN more = {1} /\ more[1] = ind
      /\ Append(r.inds, ind) = r.inds \o more
  BY <1>1, <1>2
<1> HIDE DEF more
<1>4. sendIndicationToApp(r, kind) = WithIndications(r, r.inds \o more)
  BY Zenon, <1>3 DEF sendIndicationToApp, WithIndications, ind
<1>5. \A i \in DOMAIN more : ProperIndication(more[i], c, stops)
  BY <1>1, <1>3
<1>6. r.inds \o more = Append(r.inds, [kind |-> kind, at |-> 0])
  BY <1>3 DEF ind
<1>7. /\ Evolves(WithIndications(r, r.inds \o more), c, stops)
      /\ WithIndications(r, r.inds \o more).c = r.c
      /\ WithIndications(r, r.inds \o more).inds = r.inds \o more
      /\ WithIndications(r, r.inds \o more).event = r.event
  BY <1>3, <1>5, <0>MoreIndications
<1> QED
  BY <1>4, <1>6, <1>7

\* The SYN's part of snd_nxt and snd_max.
<0>SynSentEvolves.
  ASSUME NEW c, NEW stops, NEW r, Evolves(r, c, stops)
  PROVE  /\ Evolves(SynSent(r), c, stops)
         /\ SynSent(r).inds = r.inds /\ SynSent(r).event = r.event
<1> USE <0>SynSentEvolves
<1> DEFINE x == [r.c EXCEPT !.nxt = r.c.iss + 1, !.max = r.c.iss + 1]
<1>1. r.c \in Connection
  BY DEF Evolves, Outcome
<1>2. ASSUME NEW y \in Connection, NEW v \in Int
      PROVE  /\ [y EXCEPT !.nxt = v, !.max = v] \in Connection
             /\ [y EXCEPT !.nxt = v, !.max = v].fsm = y.fsm
             /\ [y EXCEPT !.nxt = v, !.max = v].sendFin = y.sendFin
  BY Zenon, <1>2 DEF Connection
<1>3. r.c.iss + 1 \in Int
  BY <1>1 DEF Connection
<1>4. x \in Connection /\ x.fsm = r.c.fsm /\ x.sendFin = r.c.sendFin
  BY Zenon, <1>1, <1>2, <1>3
<1>5. SynSent(r) = WithConnection(r, x)
  BY Zenon DEF SynSent, Evolves, Outcome, WithConnection
<1> HIDE DEF x
<1>6. x.fsm = c.fsm /\ x.sendFin = c.sendFin
  BY <1>4 DEF Evolves
<1> QED
  BY <1>4, <1>5, <1>6, <0>OtherConnection

\* The SYN of an active open.
<0>SendSyn.
  ASSUME NEW c, NEW stops, NEW r, Evolves(r, c, stops)
  PROVE  /\ Evolves(sendSyn(r), c, stops)
         /\ sendSyn(r).inds = r.inds /\ sendSyn(r).event = r.event
<1> USE <0>SendSyn
<1>1. r.c.iss \in Int
  BY DEF Evolves, Outcome, Connection
<1>2. Segment({"SYN"}, r.c.iss, 0, 0) \in TCPSegment
  BY <1>1, <0>SegmentType DEF Flag
<1>3. /\ Evolves(SynSent(r), c, stops)
      /\ SynSent(r).inds = r.inds /\ SynSent(r).event = r.event
  BY <0>SynSentEvolves
<1> QED
  BY <1>2, <1>3, <0>SendToIP DEF sendSyn

\* The SYN ACK of a worker that the listener forked off.
<0>SendSynAck.
  ASSUME NEW c, NEW stops, NEW r, Evolves(r, c, stops)
  PROVE  /\ Evolves(sendSynAck(r), c, stops)
         /\ sendSynAck(r).inds = r.inds /\ sendSynAck(r).event = r.event
<1> USE <0>SendSynAck
<1>1. r.c.iss \in Int /\ r.c.rcv \in Int
  BY DEF Evolves, Outcome, Connection
<1>2. Segment({"SYN", "ACK"}, r.c.iss, r.c.rcv, 0) \in TCPSegment
  BY <1>1, <0>SegmentType DEF Flag
<1>3. /\ Evolves(SynSent(r), c, stops)
      /\ SynSent(r).inds = r.inds /\ SynSent(r).event = r.event
  BY <0>SynSentEvolves
<1> QED
  BY <1>2, <1>3, <0>SendToIP DEF sendSynAck

\* A RST changes nothing of the connection that sends it.
<0>SendRst.
  ASSUME NEW c, NEW stops, NEW r, Evolves(r, c, stops), NEW seq \in Int
  PROVE  /\ Evolves(sendRst(r, seq), c, stops)
         /\ sendRst(r, seq).inds = r.inds /\ sendRst(r, seq).event = r.event
<1> USE <0>SendRst
<1>1. Segment({"RST"}, seq, 0, 0) \in TCPSegment
  BY <0>SegmentType DEF Flag
<1> QED
  BY <1>1, <0>SendToIP DEF sendRst

\* An ACK carries the next sequence number of both directions.
<0>SendAck.
  ASSUME NEW c, NEW stops, NEW r, Evolves(r, c, stops)
  PROVE  /\ Evolves(sendAck(r), c, stops) /\ sendAck(r).c = r.c
         /\ sendAck(r).inds = r.inds /\ sendAck(r).event = r.event
<1> USE <0>SendAck
<1>1. r.c.nxt \in Int /\ r.c.rcv \in Int
  BY DEF Evolves, Outcome, Connection
<1>2. Segment({"ACK"}, r.c.nxt, r.c.rcv, 0) \in TCPSegment
  BY <1>1, <0>SegmentType DEF Flag
<1> QED
  BY <1>2, <0>SendToIP DEF sendAck

(* Sending data.                                                           *)

\* The segments of the send queue.
<0>SegmentsType.
  ASSUME NEW c \in Connection, NEW from \in Int, NEW to \in Int
  PROVE  Segments(c, from, to) \in Seq(TCPSegment)
<1> USE <0>SegmentsType
<1> DEFINE f(i) == Segment(IF c.sendFin /\ from + i = c.end THEN {"ACK", "FIN"}
                           ELSE {"ACK"}, from + i - 1, c.rcv, 1)
           n == IF to - from < 0 THEN 0 ELSE to - from
<1>1. c.rcv \in Int
  BY DEF Connection
<1>2. ASSUME NEW i \in Int PROVE f(i) \in TCPSegment
  BY <1>1, <1>2, <0>SegmentType DEF Flag
<1>3. n \in Nat /\ 1 .. to - from = 1 .. n
  OBVIOUS
<1>4. Segments(c, from, to) = [i \in 1 .. n |-> f(i)]
  BY <1>3 DEF Segments
<1> HIDE DEF f, n
<1>5. \A i \in 1 .. n : f(i) \in TCPSegment
  BY <1>2, <1>3
<1>6. [i \in 1 .. n |-> f(i)] \in Seq(TCPSegment)
  BY <1>3, <1>5
<1> QED
  BY <1>4, <1>6

\* Past stays with the integers.
<0>PastType.
  ASSUME NEW c \in Connection, NEW to \in Int
  PROVE  Past(c, to) \in Int
  BY <0>PastType DEF Past, Connection

\* dataSent starts the retransmission timer.
<0>DataSent.
  ASSUME NEW c \in Connection
  PROVE  /\ dataSent(c) \in Connection
         /\ dataSent(c).fsm = c.fsm /\ dataSent(c).sendFin = c.sendFin
<1> USE <0>DataSent
<1> DEFINE t == c.timers \cup {"REXMIT"}
           none == 0
           y == [c EXCEPT !.timers = t, !.rexmits = none]
<1>1. t \in SUBSET Timer /\ none \in Int
  BY DEF Connection, Timer
<1>2. dataSent(c) = IF "REXMIT" \in c.timers THEN c ELSE y
  BY DEF dataSent
<1> HIDE DEF t, none
<1>3. y \in Connection /\ y.fsm = c.fsm /\ y.sendFin = c.sendFin
  BY Zenon, <1>1 DEF Connection
<1> HIDE DEF y
<1> QED
  BY <1>2, <1>3

\* sendData lets out what the congestion window allows.
<0>SendData.
  ASSUME NEW c, NEW stops, NEW r, Evolves(r, c, stops)
  PROVE  /\ Evolves(sendData(r), c, stops)
         /\ sendData(r).inds = r.inds /\ sendData(r).event = r.event
<1> USE <0>SendData
<1> DEFINE d == r.c
           from == IF d.afterRto THEN d.nxt ELSE d.max
           room == d.cwnd - (from - d.una)
           to == min(d.end, from + room)
           held == [d EXCEPT !.nxt = from]
           out == [d EXCEPT !.nxt = Past(d, to), !.max = max(@, Past(d, to)),
                            !.afterRto = @ /\ to < d.max]
           segs == r.segs \o Segments(d, from, to)
<1>1. d \in Connection /\ d.fsm = c.fsm /\ d.sendFin = c.sendFin
  BY DEF Evolves, Outcome
<1>2. from \in Int /\ room \in Int /\ to \in Int /\ d.max \in Int
  <2>1. d.nxt \in Int /\ d.max \in Int /\ d.cwnd \in Int /\ d.una \in Int /\ d.end \in Int
    BY <1>1 DEF Connection
  <2>2. from \in Int
    BY <2>1
  <2> HIDE DEF d, from
  <2>3. room \in Int
    BY <2>1, <2>2
  <2> HIDE DEF room
  <2>4. to \in Int
    BY <2>1, <2>2, <2>3 DEF min
  <2> QED
    BY <2>1, <2>2, <2>3, <2>4
<1>3. Past(d, to) \in Int /\ max(d.max, Past(d, to)) \in Int
  <2> HIDE DEF d, to
  <2>1. Past(d, to) \in Int
    BY <1>1, <1>2, <0>PastType
  <2> QED
    BY <1>2, <2>1 DEF max
<1>5. segs \in Seq(TCPSegment)
  <2>1. r.segs \in Seq(TCPSegment) /\ Segments(d, from, to) \in Seq(TCPSegment)
    BY <1>1, <1>2, <0>SegmentsType DEF Evolves, Outcome
  <2> QED
    BY <2>1
<1>6. held \in Connection /\ held.fsm = c.fsm /\ held.sendFin = c.sendFin
  <2> HIDE DEF d, from
  <2> QED
    BY <1>1, <1>2 DEF Connection
<1>7. out \in Connection /\ out.fsm = c.fsm /\ out.sendFin = c.sendFin
  <2> DEFINE v == Past(d, to)
             w == max(d.max, Past(d, to))
             b == d.afterRto /\ to < d.max
  <2>1. b \in BOOLEAN
    OBVIOUS
  <2>2. out = [d EXCEPT !.nxt = v, !.max = w, !.afterRto = b]
    OBVIOUS
  <2>3. v \in Int /\ w \in Int
    BY <1>3
  <2> HIDE DEF v, w, b, d
  <2>4. /\ [d EXCEPT !.nxt = v, !.max = w, !.afterRto = b] \in Connection
        /\ [d EXCEPT !.nxt = v, !.max = w, !.afterRto = b].fsm = d.fsm
        /\ [d EXCEPT !.nxt = v, !.max = w, !.afterRto = b].sendFin = d.sendFin
    BY Zenon, <1>1, <2>1, <2>3 DEF Connection
  <2> HIDE DEF out
  <2> QED
    BY <1>1, <2>2, <2>4
<1>8. sendData(r) = IF from >= d.end \/ room <= 0 THEN WithConnection(r, held)
                    ELSE WithConnection(WithSegments(r, segs), dataSent(out))
  BY DEF sendData, WithConnection, WithSegments, Evolves, Outcome
<1> HIDE DEF d, from, room, to, held, out, segs
<1>9. CASE from >= d.end \/ room <= 0
  BY <1>6, <1>8, <1>9, <0>OtherConnection
<1>10. CASE ~(from >= d.end \/ room <= 0)
  <2>1. /\ Evolves(WithSegments(r, segs), c, stops)
        /\ WithSegments(r, segs).inds = r.inds
        /\ WithSegments(r, segs).event = r.event
    BY <1>5, <0>OtherSegments
  <2>2. /\ dataSent(out) \in Connection
        /\ dataSent(out).fsm = c.fsm /\ dataSent(out).sendFin = c.sendFin
    BY <1>7, <0>DataSent
  <2> DEFINE q == WithSegments(r, segs)
             y == dataSent(out)
  <2>3. sendData(r) = WithConnection(q, y)
    BY <1>8, <1>10
  <2> HIDE DEF q, y
  <2>4. /\ Evolves(WithConnection(q, y), c, stops)
        /\ WithConnection(q, y).inds = q.inds /\ WithConnection(q, y).event = q.event
    BY <2>1, <2>2, <0>OtherConnection DEF q, y
  <2> QED
    BY <2>1, <2>3, <2>4 DEF q
<1> QED
  BY <1>9, <1>10

\* retransmitOneSegment sends again what is at snd_una.
<0>RetransmitOneSegment.
  ASSUME NEW c, NEW stops, NEW r, Evolves(r, c, stops)
  PROVE  /\ Evolves(retransmitOneSegment(r), c, stops)
         /\ retransmitOneSegment(r).inds = r.inds
         /\ retransmitOneSegment(r).event = r.event
<1> USE <0>RetransmitOneSegment
<1> DEFINE d == r.c
           to == min(d.una + 1, d.end)
           y == [d EXCEPT !.nxt = Past(d, to), !.afterRto = @ /\ to < d.max]
           segs == r.segs \o (IF d.una < d.end THEN Segments(d, d.una, to)
                              ELSE <<Segment({"ACK", "FIN"}, d.una, d.rcv, 0)>>)
<1>1. d \in Connection /\ d.fsm = c.fsm /\ d.sendFin = c.sendFin
  BY DEF Evolves, Outcome
<1>2. d.una \in Int /\ d.end \in Int /\ d.rcv \in Int /\ d.max \in Int
  BY <1>1 DEF Connection
<1>3. to \in Int /\ Past(d, to) \in Int
  <2> HIDE DEF d
  <2>1. to \in Int
    BY <1>2 DEF min
  <2> HIDE DEF to
  <2> QED
    BY <1>1, <2>1, <0>PastType
<1>4. ASSUME NEW z \in Connection, NEW v \in Int, NEW b \in BOOLEAN
      PROVE  /\ [z EXCEPT !.nxt = v, !.afterRto = b] \in Connection
             /\ [z EXCEPT !.nxt = v, !.afterRto = b].fsm = z.fsm
             /\ [z EXCEPT !.nxt = v, !.afterRto = b].sendFin = z.sendFin
  BY Zenon, <1>4 DEF Connection
<1>5. segs \in Seq(TCPSegment)
  <2>1. r.segs \in Seq(TCPSegment) /\ Segments(d, d.una, to) \in Seq(TCPSegment)
    BY Zenon, <1>1, <1>2, <1>3, <0>SegmentsType DEF Evolves, Outcome
  <2>2. Segment({"ACK", "FIN"}, d.una, d.rcv, 0) \in TCPSegment
    BY <1>2, <0>SegmentType DEF Flag
  <2> QED
    BY <2>1, <2>2
<1>6. y \in Connection /\ y.fsm = c.fsm /\ y.sendFin = c.sendFin
  <2> DEFINE v == Past(d, to)
             b == d.afterRto /\ to < d.max
  <2>1. b \in BOOLEAN
    OBVIOUS
  <2>2. y = [d EXCEPT !.nxt = v, !.afterRto = b]
    OBVIOUS
  <2>3. v \in Int
    BY <1>3
  <2> HIDE DEF v, b, d, y
  <2> QED
    BY Zenon, <1>1, <1>4, <2>1, <2>2, <2>3
<1>7. retransmitOneSegment(r) = WithConnection(WithSegments(r, segs), y)
  BY Zenon DEF retransmitOneSegment, WithConnection, WithSegments, Evolves, Outcome
<1> HIDE DEF y, segs
<1> DEFINE q == WithSegments(r, segs)
<1>8. Evolves(q, c, stops) /\ q.inds = r.inds /\ q.event = r.event
  BY <1>5, <0>OtherSegments
<1> HIDE DEF q
<1>9. /\ Evolves(WithConnection(q, y), c, stops)
      /\ WithConnection(q, y).inds = q.inds /\ WithConnection(q, y).event = q.event
  BY SMTT(30), <1>6, <1>8, <0>OtherConnection
<1> QED
  BY Zenon, <1>7, <1>8, <1>9 DEF q

(* The state machine.                                                      *)

\* A transition leads from a state to a state.  Only a CLOSE leads towards the
\* end that the application asked for, only an active open to SYN_SENT and only
\* a SYN at the listener to SYN_RCVD.
<0>GotoState.
  ASSUME NEW state \in Live \cup {"INIT", "LISTEN", "CLOSED"}, NEW event \in Event
  PROVE  /\ Goto(state, event) \in Live \cup {"INIT", "LISTEN", "CLOSED"}
         /\ state \in Live => Goto(state, event) \in Live \cup {"CLOSED"}
         /\ Goto(state, event) \in Closing => state \in Closing \/ event = "CLOSE"
         /\ Goto(state, event) = "SYN_SENT" =>
               state = "SYN_SENT" \/ (state = "INIT" /\ event = "OPEN_ACTIVE")
         /\ Goto(state, event) = "SYN_RCVD" =>
               state = "SYN_RCVD" \/ (state = "LISTEN" /\ event = "RCV_SYN")
<1> USE <0>GotoState
<1> USE DEF Live, Opened, Closing
<1>1. CASE state = "INIT"
  <2>1. \/ Goto("INIT", event) \in {"INIT", "CLOSED"}
        \/ Goto("INIT", event) = "SYN_SENT" /\ event = "OPEN_ACTIVE"
    BY DEF Goto
  <2> QED
    BY <1>1, <2>1
<1>2. CASE state = "LISTEN"
  <2>1. \/ Goto("LISTEN", event) \in {"LISTEN", "CLOSED"}
        \/ Goto("LISTEN", event) = "SYN_RCVD" /\ event = "RCV_SYN"
    BY DEF Goto
  <2> QED
    BY <1>2, <2>1
<1>3. CASE state = "CLOSED"
  <2>1. Goto("CLOSED", event) = "CLOSED"
    BY DEF Goto
  <2> QED
    BY <1>3, <2>1
<1>4. CASE state = "SYN_SENT"
  <2>1. Goto("SYN_SENT", event) \in {"SYN_SENT", "ESTABLISHED", "CLOSED"}
    BY DEF Goto
  <2> QED
    BY <1>4, <2>1
<1>5. CASE state = "SYN_RCVD"
  <2>1. \/ Goto("SYN_RCVD", event) \in {"SYN_RCVD", "ESTABLISHED", "CLOSE_WAIT", "CLOSED"}
        \/ Goto("SYN_RCVD", event) = "FIN_WAIT_1" /\ event = "CLOSE"
    BY DEF Goto
  <2> QED
    BY <1>5, <2>1
<1>6. CASE state = "ESTABLISHED"
  <2>1. \/ Goto("ESTABLISHED", event) \in {"ESTABLISHED", "CLOSE_WAIT", "CLOSED"}
        \/ Goto("ESTABLISHED", event) = "FIN_WAIT_1" /\ event = "CLOSE"
    BY DEF Goto
  <2> QED
    BY <1>6, <2>1
<1>7. CASE state = "CLOSE_WAIT"
  <2>1. \/ Goto("CLOSE_WAIT", event) \in {"CLOSE_WAIT", "CLOSED"}
        \/ Goto("CLOSE_WAIT", event) = "LAST_ACK" /\ event = "CLOSE"
    BY DEF Goto
  <2> QED
    BY <1>7, <2>1
<1>8. CASE state \in Closing
  <2>1. /\ Goto("FIN_WAIT_1", event) \in Closing \cup {"CLOSED"}
        /\ Goto("FIN_WAIT_2", event) \in Closing \cup {"CLOSED"}
        /\ Goto("CLOSING", event) \in Closing \cup {"CLOSED"}
        /\ Goto("LAST_ACK", event) \in Closing \cup {"CLOSED"}
        /\ Goto("TIME_WAIT", event) \in Closing \cup {"CLOSED"}
    BY DEF Goto
  <2> QED
    BY <1>8, <2>1
<1> QED
  BY Zenon, <1>1, <1>2, <1>3, <1>4, <1>5, <1>6, <1>7, <1>8

\* performStateTransition leaves segments, indications and the flag of the
\* application's CLOSE alone.
<0>PerformStateTransition.
  ASSUME NEW r \in Outcome
  PROVE  LET p == performStateTransition(r)
         IN /\ p \in Outcome
            /\ p.c.fsm = Goto(r.c.fsm, r.event) /\ p.c.sendFin = r.c.sendFin
            /\ p.inds = r.inds /\ p.event = r.event
<1> USE <0>PerformStateTransition
<1> DEFINE state == Goto(r.c.fsm, r.event)
           timers == IF state = r.c.fsm THEN r.c.timers
                     ELSE stateEntered(r.c.timers, state)
           d == r.c
           y == [d EXCEPT !.fsm = state, !.timers = timers]
<1>1. d \in Connection /\ r.event \in Event
  BY DEF Outcome
<1>2. d.fsm \in Live \cup {"INIT", "LISTEN", "CLOSED"} /\ d.timers \in SUBSET Timer
  BY <1>1 DEF Connection
<1>3. state \in Live \cup {"INIT", "LISTEN", "CLOSED"}
  BY <1>1, <1>2, <0>GotoState
<1>4. timers \in SUBSET Timer
  <2>1. stateEntered(d.timers, state) \in SUBSET Timer
    <3> HIDE DEF d, state
    <3> QED
      BY <1>2 DEF stateEntered
  <2> QED
    BY <1>2, <2>1
<1>5. performStateTransition(r) = WithConnection(r, y)
  BY Zenon DEF performStateTransition, WithConnection, Outcome
<1> HIDE DEF d, state, timers
<1>6. y \in Connection /\ y.fsm = state /\ y.sendFin = d.sendFin
  BY Zenon, <1>1, <1>3, <1>4 DEF Connection
<1> HIDE DEF y
<1>7. /\ WithConnection(r, y) \in Outcome /\ WithConnection(r, y).c = y
      /\ WithConnection(r, y).inds = r.inds /\ WithConnection(r, y).event = r.event
  BY Zenon, <1>6 DEF WithConnection, Outcome
<1> QED
  BY <1>5, <1>6, <1>7 DEF d, state

(* Segments that arrive.                                                   *)

\* The answer to the segments that an active open can meet: ESTABLISHED is the
\* one indication of the SYN+ACK that opens the connection.
<0>SegmentInSynSent.
  ASSUME NEW c \in Connection, c.fsm = "SYN_SENT", NEW seg \in TCPSegment, NEW stops
  PROVE  LET r == processSegmentInSynSent(c, seg)
         IN /\ Evolves(r, c, stops) /\ r.event # "CLOSE"
            /\ \/ r.inds = <<>> /\ r.event = "IGNORE"
               \/ /\ r.inds = <<[kind |-> "CONNECTION_RESET", at |-> 0]>>
                  /\ r.event = "RCV_RST"
               \/ /\ r.inds = <<[kind |-> "ESTABLISHED", at |-> 0]>>
                  /\ r.event = "RCV_SYN_ACK"
<1> USE <0>SegmentInSynSent
<1> DEFINE wrongAck == "ACK" \in seg.flags /\ (seg.ack <= c.iss \/ seg.ack > c.nxt)
           v == seg.seq + 1
           u == seg.ack
           w == 1
           open == [c EXCEPT !.rcv = v, !.una = u, !.cwnd = w]
           sent == sendData(Result(open))
           acked == IF sent.segs = <<>> THEN sendAck(sent) ELSE sent
           told == sendIndicationToApp(acked, "ESTABLISHED")
           reset == sendIndicationToApp(Result(c), "CONNECTION_RESET")
           R == processSegmentInSynSent(c, seg)
<1>1. v \in Int /\ u \in Int /\ w \in Int
  BY DEF TCPSegment
<1>2. \/ R = sendRst(Result(c), u)
      \/ R = WithEvent(reset, "RCV_RST")
      \/ R = WithEvent(told, "RCV_SYN_ACK")
      \/ R = Result(c)
  BY DEF processSegmentInSynSent, WithEvent
<1> HIDE DEF v, u, w, R
<1>3. open \in Connection /\ open.fsm = c.fsm /\ open.sendFin = c.sendFin
  BY Zenon, <1>1 DEF Connection
<1> HIDE DEF open
<1>4. /\ Evolves(Result(open), c, stops)
      /\ Result(open).inds = <<>> /\ Result(open).event = "IGNORE"
  BY <1>3, <0>ResultEvolves
<1>5. Evolves(sent, c, stops) /\ sent.inds = <<>> /\ sent.event = "IGNORE"
  BY Zenon, <1>4, <0>SendData
<1> HIDE DEF sent
<1>6. Evolves(acked, c, stops) /\ acked.inds = <<>> /\ acked.event = "IGNORE"
  BY <1>5, <0>SendAck
<1> HIDE DEF acked
<1>7. /\ Evolves(told, c, stops) /\ told.inds = <<[kind |-> "ESTABLISHED", at |-> 0]>>
  <2>1. /\ Evolves(told, c, stops)
        /\ told.inds = Append(acked.inds, [kind |-> "ESTABLISHED", at |-> 0])
    BY <1>6, <0>SendIndication DEF Kinds, Failures
  <2> QED
    BY <1>6, <2>1
<1>8. /\ Evolves(Result(c), c, stops)
      /\ Result(c).inds = <<>> /\ Result(c).event = "IGNORE"
  BY <0>ResultEvolves
<1>9. /\ Evolves(reset, c, stops)
      /\ reset.inds = <<[kind |-> "CONNECTION_RESET", at |-> 0]>>
  <2>1. /\ Evolves(reset, c, stops)
        /\ reset.inds = Append(Result(c).inds, [kind |-> "CONNECTION_RESET", at |-> 0])
    BY <1>8, <0>SendIndication DEF Kinds, Failures
  <2> QED
    BY <1>8, <2>1
<1> HIDE DEF told, reset
<1>10. CASE R = sendRst(Result(c), u)
  <2>1. /\ Evolves(sendRst(Result(c), u), c, stops)
        /\ sendRst(Result(c), u).inds = <<>> /\ sendRst(Result(c), u).event = "IGNORE"
    BY <1>1, <1>8, <0>SendRst
  <2> QED
    BY <1>10, <2>1 DEF R
<1>11. CASE R = WithEvent(reset, "RCV_RST")
  <2>1. "RCV_RST" \in Event
    BY DEF Event
  <2>2. /\ Evolves(WithEvent(reset, "RCV_RST"), c, stops)
        /\ WithEvent(reset, "RCV_RST").inds = reset.inds
        /\ WithEvent(reset, "RCV_RST").event = "RCV_RST"
    BY <1>9, <2>1, <0>OtherEvent
  <2> QED
    BY <1>9, <1>11, <2>2 DEF R
<1>12. CASE R = WithEvent(told, "RCV_SYN_ACK")
  <2>1. "RCV_SYN_ACK" \in Event
    BY DEF Event
  <2>2. /\ Evolves(WithEvent(told, "RCV_SYN_ACK"), c, stops)
        /\ WithEvent(told, "RCV_SYN_ACK").inds = told.inds
        /\ WithEvent(told, "RCV_SYN_ACK").event = "RCV_SYN_ACK"
    BY <1>7, <2>1, <0>OtherEvent
  <2> QED
    BY <1>7, <1>12, <2>2 DEF R
<1>13. CASE R = Result(c)
  BY <1>8, <1>13 DEF R
<1> QED
  BY Zenon, <1>2, <1>10, <1>11, <1>12, <1>13

\* What a RST means to each state: CLOSED in those behind the application's CLOSE.
<0>ResetEvolves.
  ASSUME NEW c \in Connection, NEW stops
  PROVE  Evolves(ResetBy(c), c, stops)
<1> USE <0>ResetEvolves
<1> DEFINE r == WithEvent(Result(c), "RCV_RST")
<1>1. Evolves(Result(c), c, stops)
  BY <0>ResultEvolves
<1>2. Evolves(r, c, stops)
  BY <1>1, <0>OtherEvent DEF Event
<1>3. \/ ResetBy(c) = sendIndicationToApp(r, "CONNECTION_RESET")
      \/ ResetBy(c) = sendIndicationToApp(r, "CLOSED") /\ c.fsm \in Closing
      \/ ResetBy(c) = r
  BY DEF ResetBy, WithEvent, Closing
<1> HIDE DEF r
<1>4. Evolves(sendIndicationToApp(r, "CONNECTION_RESET"), c, stops)
  BY Zenon, <1>2, <0>SendIndication DEF Kinds, Failures
<1>5. c.fsm \in Closing => Evolves(sendIndicationToApp(r, "CLOSED"), c, stops)
  BY Zenon, <1>2, <0>SendIndication DEF Kinds, Failures
<1> QED
  BY Zenon, <1>2, <1>3, <1>4, <1>5

\* An ACK changes the send variables and lets data out.
<0>ProcessAck.
  ASSUME NEW c, NEW stops, NEW r, Evolves(r, c, stops), NEW ack \in Int
  PROVE  Evolves(processAckInEstabEtc(r, ack), c, stops)
<1> USE <0>ProcessAck
<1> DEFINE d == r.c
           nxt == max(d.nxt, ack)
           cwnd == d.cwnd + 1
           fin == d.finAcked \/ (d.sendFin /\ ack = d.end + 1)
           none == 0
           timers == IF ack = d.max THEN d.timers \ {"REXMIT"}
                     ELSE d.timers \cup {"REXMIT"}
           acked == [d EXCEPT !.una = ack, !.nxt = nxt, !.cwnd = cwnd,
                              !.finAcked = fin, !.rexmits = none, !.timers = timers]
<1>1. d \in Connection /\ d.fsm = c.fsm /\ d.sendFin = c.sendFin
  BY DEF Evolves, Outcome
<1>2. d.nxt \in Int /\ d.cwnd \in Int /\ d.timers \in SUBSET Timer
  BY <1>1 DEF Connection
<1>3. nxt \in Int /\ cwnd \in Int /\ fin \in BOOLEAN /\ none \in Int
  BY <1>2 DEF max
<1>4. timers \in SUBSET Timer
  BY <1>2 DEF Timer
<1>5. processAckInEstabEtc(r, ack) =
        IF ack <= d.una THEN r ELSE sendData(WithConnection(r, acked))
  BY DEF processAckInEstabEtc, WithConnection
<1> HIDE DEF d, nxt, cwnd, fin, none, timers
<1>6. acked \in Connection /\ acked.fsm = d.fsm /\ acked.sendFin = d.sendFin
  BY Zenon, <1>1, <1>3, <1>4 DEF Connection
<1> HIDE DEF acked
<1>7. Evolves(WithConnection(r, acked), c, stops)
  BY <1>1, <1>6, <0>OtherConnection
<1>8. Evolves(sendData(WithConnection(r, acked)), c, stops)
  BY <1>7, <0>SendData
<1> QED
  BY <1>5, <1>8

\* TIME_WAIT is entered from behind the application's CLOSE.
<0>TimeWaitEvolves.
  ASSUME NEW c, NEW stops, NEW r, Evolves(r, c, stops), c.fsm \in Closing,
         NEW event \in Event \ {"CLOSE"}
  PROVE  Evolves(TimeWait(r, event), c, stops)
<1> USE <0>TimeWaitEvolves
<1> DEFINE d == r.c
           timers == d.timers \cup {"2MSL"}
           y == [d EXCEPT !.timers = timers]
           q == WithConnection(WithEvent(r, event), y)
<1>1. d \in Connection /\ d.fsm = c.fsm /\ d.sendFin = c.sendFin
  BY DEF Evolves, Outcome
<1>2. timers \in SUBSET Timer
  BY <1>1 DEF Connection, Timer
<1>3. TimeWait(r, event) = sendIndicationToApp(q, "CLOSED")
  BY DEF TimeWait, WithConnection, WithEvent, Evolves, Outcome
<1> HIDE DEF d, timers
<1>4. y \in Connection /\ y.fsm = d.fsm /\ y.sendFin = d.sendFin
  BY <1>1, <1>2 DEF Connection
<1> HIDE DEF y
<1>5. Evolves(WithEvent(r, event), c, stops)
  BY <0>OtherEvent
<1>6. Evolves(q, c, stops)
  BY <1>1, <1>4, <1>5, <0>OtherConnection
<1> HIDE DEF q
<1> QED
  BY Zenon, <1>3, <1>6, <0>SendIndication DEF Kinds, Failures

\* The peer's FIN: PEER_CLOSED, and CLOSED before it where this end was closed.
<0>FinArrivesEvolves.
  ASSUME NEW c, NEW stops, NEW r, Evolves(r, c, stops)
  PROVE  Evolves(FinArrives(r), c, stops)
<1> USE <0>FinArrivesEvolves
<1> DEFINE d == r.c
           v == d.rcv + 1
           y == [d EXCEPT !.rcv = v]
           over == WithEvent(WithConnection(r, y), "RCV_FIN")
           waits == CASE r.c.fsm = "FIN_WAIT_1" /\ r.c.finAcked ->
                           TimeWait(over, "RCV_FIN_ACK")
                      [] r.c.fsm = "FIN_WAIT_2" -> TimeWait(over, "RCV_FIN")
                      [] OTHER -> over
<1>1. d \in Connection /\ d.fsm = c.fsm /\ d.sendFin = c.sendFin
  BY DEF Evolves, Outcome
<1>2. v \in Int
  BY <1>1 DEF Connection
<1>3. over = [r EXCEPT !.c.rcv = @ + 1, !.event = "RCV_FIN"]
  BY DEF WithConnection, WithEvent, Evolves, Outcome
<1>4. FinArrives(r) = sendIndicationToApp(waits, "PEER_CLOSED")
  <2> HIDE DEF over
  <2> QED
    BY <1>3 DEF FinArrives
<1>5. \/ waits = TimeWait(over, "RCV_FIN_ACK") /\ d.fsm = "FIN_WAIT_1"
      \/ waits = TimeWait(over, "RCV_FIN") /\ d.fsm = "FIN_WAIT_2"
      \/ waits = over
  <2> HIDE DEF over
  <2> QED
    OBVIOUS
<1> HIDE DEF d, v, waits
<1>6. y \in Connection /\ y.fsm = d.fsm /\ y.sendFin = d.sendFin
  BY Zenon, <1>1, <1>2 DEF Connection
<1> HIDE DEF y
<1>7. Evolves(WithConnection(r, y), c, stops)
  BY <1>1, <1>6, <0>OtherConnection
<1>8. Evolves(over, c, stops)
  BY <1>7, <0>OtherEvent DEF Event
<1> HIDE DEF over
<1>9. c.fsm \in Closing => /\ Evolves(TimeWait(over, "RCV_FIN_ACK"), c, stops)
                           /\ Evolves(TimeWait(over, "RCV_FIN"), c, stops)
  BY <1>8, <0>TimeWaitEvolves DEF Event
<1>10. Evolves(waits, c, stops)
  BY Zenon, <1>1, <1>5, <1>8, <1>9 DEF Closing
<1> QED
  BY Zenon, <1>4, <1>10, <0>SendIndication DEF Kinds, Failures

\* What an acknowledged FIN leads to.
<0>FinAcknowledgedEvolves.
  ASSUME NEW c, NEW stops, NEW r, Evolves(r, c, stops)
  PROVE  Evolves(FinAcknowledged(r), c, stops)
<1> USE <0>FinAcknowledgedEvolves
<1>1. r.c.fsm = c.fsm
  BY DEF Evolves
<1>2. \/ FinAcknowledged(r) = WithEvent(r, "RCV_ACK")
      \/ FinAcknowledged(r) = TimeWait(r, "RCV_ACK") /\ c.fsm = "CLOSING"
      \/ FinAcknowledged(r) = sendAck(r)
      \/ FinAcknowledged(r) = r
  BY <1>1 DEF FinAcknowledged, WithEvent
<1>3. Evolves(WithEvent(r, "RCV_ACK"), c, stops)
  BY <0>OtherEvent DEF Event
<1>4. c.fsm = "CLOSING" => Evolves(TimeWait(r, "RCV_ACK"), c, stops)
  BY <0>TimeWaitEvolves DEF Event, Closing
<1>5. Evolves(sendAck(r), c, stops)
  BY <0>SendAck
<1> QED
  BY Zenon, <1>2, <1>3, <1>4, <1>5

(* The receive queue.                                                      *)

\* A set of numbers that has 0 and, with a number, its successor, has them all.
<0>SetInduction.
  ASSUME NEW T, 0 \in T, \A n \in Nat : n \in T => n + 1 \in T
  PROVE  Nat \subseteq T
<1> USE <0>SetInduction
<1> DEFINE Less == OpToRel(<, Nat)
<1> SUFFICES ASSUME Nat \ T # {} PROVE FALSE
  OBVIOUS
<1>1. PICK m \in Nat \ T : \A y \in Nat \ T : ~(<<y, m>> \in Less)
  <2> HIDE DEF Less
  <2>1. IsWellFoundedOn(Less, Nat)
    BY Zenon, NatLessThanWellFounded DEF Less
  <2> QED
    BY Zenon, <2>1, WFMin
<1>2. m - 1 \in Nat /\ m - 1 \notin T
  <2>1. m # 0 /\ m \in Nat
    BY Zenon, <1>1
  <2>2. m - 1 \in Nat /\ (m - 1) + 1 = m
    BY <2>1
  <2> QED
    BY Zenon, <1>1, <2>2
<1>3. <<m - 1, m>> \in Less
  BY <1>1, <1>2 DEF OpToRel
<1> QED
  BY Zenon, <1>1, <1>2, <1>3

\* Behind a run of stored segments there is the first that is missing: rcv_nxt
\* of TCPMsgBasedRcvQueue is well defined.
<0>FirstMissing.
  ASSUME NEW a \in Int, NEW S \in SUBSET Int, IsFiniteSet(S)
  PROVE  \E n \in a .. a + Cardinality(S) : n \notin S /\ a .. n - 1 \subseteq S
<1> USE <0>FirstMissing
<1> DEFINE N == Cardinality(S)
           Less == OpToRel(<, Nat)
           missing == {k \in 0 .. N : a + k \notin S}
<1>1. N \in Nat
  BY FS_CardinalityType
<1>2. missing # {}
  <2> SUFFICES ASSUME missing = {} PROVE FALSE
    OBVIOUS
  <2>1. a .. a + N \subseteq S
    <3> SUFFICES ASSUME NEW n \in a .. a + N PROVE n \in S
      OBVIOUS
    <3> HIDE DEF N
    <3>1. n - a \in 0 .. N /\ a + (n - a) = n
      BY <1>1
    <3> QED
      BY <3>1
  <2>2. Cardinality(a .. a + N) = N + 1 /\ Cardinality(a .. a + N) <= Cardinality(S)
    <3> HIDE DEF N
    <3>1. a + N \in Int
      BY <1>1
    <3>2. Cardinality(a .. a + N) = IF a > a + N THEN 0 ELSE (a + N) - a + 1
      BY <3>1, FS_Interval
    <3> QED
      BY <1>1, <2>1, <3>2, FS_Subset
  <2> QED
    BY <1>1, <2>2
<1>3. PICK k \in missing : \A y \in missing : ~(<<y, k>> \in Less)
  <2> HIDE DEF Less, missing
  <2>1. IsWellFoundedOn(Less, Nat)
    BY Zenon, NatLessThanWellFounded DEF Less
  <2>2. missing \subseteq Nat
    BY <1>1 DEF missing
  <2> QED
    BY Zenon, <1>2, <2>1, <2>2, WFMin
<1>4. k \in 0 .. N /\ a + k \notin S
  BY Zenon, <1>3
<1>5. a .. (a + k) - 1 \subseteq S
  <2> SUFFICES ASSUME NEW n \in a .. (a + k) - 1, n \notin S PROVE FALSE
    OBVIOUS
  <2> HIDE DEF N
  <2>1. n - a \in 0 .. N /\ a + (n - a) = n /\ n - a < k /\ n - a \in Nat /\ k \in Nat
    BY <1>1, <1>4
  <2>2. <<n - a, k>> \in Less
    BY <2>1 DEF OpToRel
  <2>3. n - a \in missing
    BY <2>1
  <2> QED
    BY Zenon, <1>3, <2>2, <2>3
<1>6. a + k \in a .. a + N
  <2> HIDE DEF N
  <2> QED
    BY <1>1, <1>4
<1> QED
  BY <1>4, <1>5, <1>6

\* There is one for every part of the stream.
<0>TextExists.
  ASSUME NEW stops, NEW from \in Int, NEW k \in Nat
  PROVE  \E f : IsText(f, stops, from, from + k)
<1> USE <0>TextExists
<1> DEFINE T == {m \in Nat : \E f : IsText(f, stops, from, from + m)}
<1>1. 0 \in T
  <2> DEFINE f == [n \in from .. from + 0 |-> <<>>]
  <2>1. IsText(f, stops, from, from + 0)
    BY DEF IsText
  <2> QED
    BY <2>1
<1>2. ASSUME NEW m \in Nat, m \in T PROVE m + 1 \in T
  <2>1. PICK f : IsText(f, stops, from, from + m)
    BY <1>2
  <2> DEFINE t(n) == IF n = from THEN <<>>
                     ELSE IF n - 1 \in stops THEN Append(f[n - 1], n - 1) ELSE f[n - 1]
             g == [n \in from .. from + (m + 1) |-> t(n)]
  <2>2. \A n \in from .. from + m : g[n] = f[n]
    <3>1. f = [n \in from .. from + m |-> t(n)]
      BY Zenon, <2>1 DEF IsText
    <3> HIDE DEF t
    <3>2. \A n \in from .. from + m : f[n] = t(n)
      BY <3>1
    <3>3. \A n \in from .. from + m : n \in from .. from + (m + 1)
      OBVIOUS
    <3> QED
      BY <3>2, <3>3
  <2>3. \A n \in from .. from + (m + 1) : n # from => n - 1 \in from .. from + m
    OBVIOUS
  <2>4. \A n \in from .. from + (m + 1) : n # from => g[n - 1] = f[n - 1]
    BY Zenon, <2>2, <2>3
  <2>5. IsText(g, stops, from, from + (m + 1))
    BY Zenon, <2>4 DEF IsText
  <2> QED
    BY <2>5
<1> HIDE DEF T
<1>3. Nat \subseteq T
  BY <1>1, <1>2, <0>SetInduction
<1> QED
  BY <1>3 DEF T

\* What the receive queue hands out are ends of messages.
<0>MessagesEndingType.
  ASSUME NEW stops, NEW from \in Int, NEW to \in Int, from <= to
  PROVE  MessagesEnding(stops, from, to) \in Seq(stops \cap Int)
<1> USE <0>MessagesEndingType
<1> DEFINE k == to - from
           f == CHOOSE f : IsText(f, stops, from, to)
<1>1. k \in Nat /\ from + k = to
  OBVIOUS
<1>2. IsText(f, stops, from, to)
  <2> HIDE DEF k
  <2>1. \E g : IsText(g, stops, from, from + k)
    BY <1>1, <0>TextExists
  <2> QED
    BY <1>1, <2>1
<1>3. MessagesEnding(stops, from, to) = f[to]
  BY DEF MessagesEnding, IsText
<1> HIDE DEF f, k
<1> DEFINE T == {m \in Nat : m <= k => f[from + m] \in Seq(stops \cap Int)}
<1>4. 0 \in T
  <2>1. from \in from .. to /\ from + 0 = from
    OBVIOUS
  <2>2. f[from] = <<>>
    BY <1>2, <2>1 DEF IsText
  <2>3. <<>> \in Seq(stops \cap Int)
    OBVIOUS
  <2>4. f[from + 0] \in Seq(stops \cap Int)
    BY Zenon, <2>1, <2>2, <2>3
  <2> QED
    BY Zenon, <2>4
<1>5. ASSUME NEW m \in Nat, m \in T PROVE m + 1 \in T
  <2> SUFFICES ASSUME m + 1 <= k PROVE f[from + (m + 1)] \in Seq(stops \cap Int)
    OBVIOUS
  <2>1. f[from + m] \in Seq(stops \cap Int)
    BY <1>1, <1>5
  <2> DEFINE n == from + (m + 1)
             l == from + m
  <2>2. n \in from .. to /\ n # from /\ n - 1 = l /\ l \in Int
    BY <1>1
  <2> HIDE DEF n, l
  <2>3. f[n] = IF n - 1 \in stops THEN Append(f[n - 1], n - 1) ELSE f[n - 1]
    BY Zenon, <1>2, <2>2 DEF IsText
  <2>4. f[n] = IF l \in stops THEN Append(f[l], l) ELSE f[l]
    BY <2>2, <2>3
  <2>5. l \in stops => Append(f[l], l) \in Seq(stops \cap Int)
    BY <2>1, <2>2 DEF l
  <2> QED
    BY <2>1, <2>4, <2>5 DEF n, l
<1> HIDE DEF T
<1>6. Nat \subseteq T
  BY <1>4, <1>5, <0>SetInduction
<1>7. k \in T
  BY <1>1, <1>6
<1>8. k <= k
  BY <1>1
<1>9. f[from + k] \in Seq(stops \cap Int)
  BY <1>7, <1>8 DEF T
<1> QED
  BY <1>1, <1>3, <1>9

\* The text of a segment: messages that are complete go to the application.
<0>SegmentTextEvolves.
  ASSUME NEW c, NEW stops, NEW r, Evolves(r, c, stops), NEW seg \in TCPSegment
  PROVE  Evolves(SegmentText(r, seg, stops), c, stops)
<1> USE <0>SegmentTextEvolves
<1> DEFINE d == r.c
           stored == d.stored \cup {seg.seq}
           next == CHOOSE n \in d.rcv .. d.rcv + Cardinality(stored) :
                     n \notin stored /\ d.rcv .. n - 1 \subseteq stored
           whole == MessagesEnding(stops, d.rcv, next)
           rest == {n \in stored : n >= next}
           kept == [d EXCEPT !.stored = stored]
           y == [d EXCEPT !.rcv = next, !.stored = rest]
           more == [i \in DOMAIN whole |-> [kind |-> "DATA", at |-> whole[i]]]
           all == r.inds \o more
           taken == WithIndications(WithConnection(r, y), all)
           R == SegmentText(r, seg, stops)
<1>1. d \in Connection /\ d.fsm = c.fsm /\ d.sendFin = c.sendFin
  BY DEF Evolves, Outcome
<1>2. d.rcv \in Int /\ d.stored \in SUBSET Int /\ IsFiniteSet(d.stored) /\ seg.seq \in Int
  BY <1>1 DEF Connection, TCPSegment
<1>3. stored \in SUBSET Int /\ IsFiniteSet(stored)
  BY <1>2, FS_AddElement
<1>4. next \in d.rcv .. d.rcv + Cardinality(stored)
  <2> HIDE DEF d, stored
  <2> QED
    BY Zenon, <1>2, <1>3, <0>FirstMissing
<1>5. next \in Int /\ d.rcv <= next
  <2>1. Cardinality(stored) \in Nat
    BY <1>3, FS_CardinalityType
  <2> HIDE DEF d, stored, next
  <2> QED
    BY <1>2, <1>4, <2>1
<1>6. rest \in SUBSET Int /\ IsFiniteSet(rest)
  <2> HIDE DEF d, stored, next
  <2> QED
    BY Zenon, <1>3, FS_Subset
<1>7. \/ R = r
      \/ /\ d.fsm # "SYN_SENT"
         /\ \/ R = sendAck(WithConnection(r, kept))
            \/ R = FinArrives(taken)
            \/ R = taken
  <2>1. \/ R = r
        \/ /\ d.fsm # "SYN_SENT"
           /\ \/ R = sendAck([r EXCEPT !.c.stored = stored])
              \/ R = FinArrives([r EXCEPT !.c.rcv = next, !.c.stored = rest, !.inds = all])
              \/ R = [r EXCEPT !.c.rcv = next, !.c.stored = rest, !.inds = all]
    BY Zenon DEF SegmentText
  <2> HIDE DEF stored, next, rest, all, R
  <2>2. [r EXCEPT !.c.stored = stored] = WithConnection(r, kept)
    BY DEF WithConnection, Evolves, Outcome
  <2>3. [r EXCEPT !.c.rcv = next, !.c.stored = rest, !.inds = all] = taken
    BY Zenon DEF WithConnection, WithIndications, Evolves, Outcome
  <2> QED
    BY <2>1, <2>2, <2>3
<1>8. whole \in Seq(stops \cap Int)
  <2> HIDE DEF d, next
  <2> QED
    BY <1>2, <1>5, <0>MessagesEndingType
<1> HIDE DEF d, stored, next, rest, whole, R
<1>9. kept \in Connection /\ kept.fsm = c.fsm /\ kept.sendFin = c.sendFin
  BY <1>1, <1>3 DEF Connection
<1>10. y \in Connection /\ y.fsm = c.fsm /\ y.sendFin = c.sendFin
  BY Zenon, <1>1, <1>5, <1>6 DEF Connection
<1> HIDE DEF kept, y
<1>11. Evolves(sendAck(WithConnection(r, kept)), c, stops)
  BY <1>9, <0>OtherConnection, <0>SendAck
<1>12. ASSUME d.fsm # "SYN_SENT" PROVE Evolves(taken, c, stops)
  <2>1. Len(whole) \in Nat /\ DOMAIN whole = 1 .. Len(whole)
    BY <1>8
  <2>2. \A i \in 1 .. Len(whole) : whole[i] \in stops \cap Int
    BY <1>8
  <2>3. \A i \in 1 .. Len(whole) : [kind |-> "DATA", at |-> whole[i]] \in Indication
    BY <2>2 DEF Indication, Kinds
  <2>4. more \in Seq(Indication)
    BY <2>1, <2>3
  <2>5. \A i \in DOMAIN more : ProperIndication(more[i], c, stops)
    <3>1. DOMAIN more = 1 .. Len(whole)
      BY <2>1
    <3>2. \A i \in DOMAIN more : more[i].kind = "DATA" /\ more[i].at \in stops
      BY Zenon, <2>2, <3>1
    <3> QED
      BY Zenon, <1>1, <1>12, <3>2 DEF ProperIndication
  <2> HIDE DEF more
  <2> DEFINE q == WithConnection(r, y)
  <2>6. Evolves(q, c, stops) /\ q.inds = r.inds
    BY <1>10, <0>OtherConnection
  <2> HIDE DEF q
  <2>7. Evolves(WithIndications(q, q.inds \o more), c, stops)
    BY Zenon, <2>4, <2>5, <2>6, <0>MoreIndications
  <2> QED
    BY <2>6, <2>7 DEF q
<1> HIDE DEF taken
<1>13. ASSUME d.fsm # "SYN_SENT" PROVE Evolves(FinArrives(taken), c, stops)
  BY <1>12, <1>13, <0>FinArrivesEvolves
<1> QED
  BY Zenon, <1>7, <1>11, <1>12, <1>13 DEF R

\* The FIN bit.
<0>FinBitEvolves.
  ASSUME NEW c, NEW stops, NEW r, Evolves(r, c, stops), NEW seg \in TCPSegment
  PROVE  Evolves(FinBit(r, seg), c, stops)
<1> USE <0>FinBitEvolves
<1> DEFINE fin == seg.seq + seg.len
           d == r.c
           y == [d EXCEPT !.finSeq = fin]
<1>1. fin \in Int
  BY DEF TCPSegment
<1>2. d \in Connection /\ d.fsm = c.fsm /\ d.sendFin = c.sendFin
  BY DEF Evolves, Outcome
<1>3. \/ FinBit(r, seg) = r
      \/ FinBit(r, seg) = FinArrives(r)
      \/ FinBit(r, seg) = WithConnection(r, y)
  BY DEF FinBit, WithConnection
<1> HIDE DEF d, fin
<1>4. y \in Connection /\ y.fsm = c.fsm /\ y.sendFin = c.sendFin
  BY <1>1, <1>2 DEF Connection
<1> HIDE DEF y
<1>5. Evolves(WithConnection(r, y), c, stops)
  BY <1>4, <0>OtherConnection
<1>6. Evolves(FinArrives(r), c, stops)
  BY <0>FinArrivesEvolves
<1> QED
  BY <1>3, <1>5, <1>6

\* A CLOSE that waited is one that the application has asked for.
<0>DeferredCloseEvolves.
  ASSUME NEW c, NEW stops, NEW r, Evolves(r, c, stops), NEW old
  PROVE  Evolves(DeferredClose(r, old), c, stops)
<1> USE <0>DeferredCloseEvolves
<1>1. r.c.sendFin = c.sendFin
  BY DEF Evolves
<1>2. \/ DeferredClose(r, old) = r
      \/ DeferredClose(r, old) = WithEvent(r, "CLOSE") /\ c.sendFin
  BY <1>1 DEF DeferredClose, WithEvent
<1>3. c.sendFin => Evolves(WithEvent(r, "CLOSE"), c, stops)
  BY <0>OtherEvent DEF Event
<1> QED
  BY Zenon, <1>2, <1>3

\* The fifth to eighth step.
<0>AckedSegmentEvolves.
  ASSUME NEW c \in Connection, NEW stops, NEW seg \in TCPSegment
  PROVE  Evolves(AckedSegment(c, seg, stops), c, stops)
<1> USE <0>AckedSegmentEvolves
<1> DEFINE one == 1
           d == [c EXCEPT !.cwnd = one]
           r1 == IF c.fsm = "SYN_RCVD"
                 THEN WithEvent(sendIndicationToApp(Result(d), "ESTABLISHED"), "RCV_ACK")
                 ELSE Result(c)
           r2 == IF c.fsm \in {"LAST_ACK", "TIME_WAIT"} THEN r1
                 ELSE processAckInEstabEtc(r1, seg.ack)
           r3 == FinAcknowledged(r2)
           r4 == FinBit(SegmentText(r3, seg, stops), seg)
           r5 == IF r4.c.rcv # c.rcv THEN sendAck(r4) ELSE r4
<1>1. AckedSegment(c, seg, stops) = DeferredClose(r5, c.nxt)
  BY DEF AckedSegment, WithEvent
<1>2. Evolves(r1, c, stops)
  <2>1. one \in Int
    OBVIOUS
  <2> HIDE DEF one
  <2>2. d \in Connection /\ d.fsm = c.fsm /\ d.sendFin = c.sendFin
    BY <2>1 DEF Connection
  <2> HIDE DEF d
  <2>3. Evolves(Result(d), c, stops) /\ Evolves(Result(c), c, stops)
    BY <2>2, <0>ResultEvolves
  <2>4. c.fsm = "SYN_RCVD" =>
          Evolves(sendIndicationToApp(Result(d), "ESTABLISHED"), c, stops)
    BY Zenon, <2>3, <0>SendIndication DEF Kinds, Failures
  <2>5. c.fsm = "SYN_RCVD" =>
          Evolves(WithEvent(sendIndicationToApp(Result(d), "ESTABLISHED"), "RCV_ACK"),
                  c, stops)
    BY <2>4, <0>OtherEvent DEF Event
  <2> QED
    BY <2>3, <2>5
<1> HIDE DEF r1
<1>3. Evolves(r2, c, stops)
  <2>1. seg.ack \in Int
    BY DEF TCPSegment
  <2> QED
    BY Zenon, <1>2, <2>1, <0>ProcessAck
<1> HIDE DEF r2
<1>4. Evolves(r3, c, stops)
  BY <1>3, <0>FinAcknowledgedEvolves
<1> HIDE DEF r3
<1>5. Evolves(r4, c, stops)
  BY Zenon, <1>4, <0>SegmentTextEvolves, <0>FinBitEvolves
<1> HIDE DEF r4
<1>6. Evolves(r5, c, stops)
  BY <1>5, <0>SendAck
<1> HIDE DEF r5
<1> QED
  BY <1>1, <1>6, <0>DeferredCloseEvolves

\* All eight steps.
<0>Segment1stThru8th.
  ASSUME NEW c \in Connection, NEW stops, NEW seg \in TCPSegment
  PROVE  Evolves(processSegment1stThru8th(c, seg, stops), c, stops)
<1> USE <0>Segment1stThru8th
<1> DEFINE R == processSegment1stThru8th(c, seg, stops)
           reset == sendIndicationToApp(Result(c), "CONNECTION_RESET")
           closed == sendIndicationToApp(Result(c), "CLOSED")
<1>1. \/ R = Result(c)
      \/ R = sendAck(Result(c))
      \/ R = ResetBy(c)
      \/ R = WithEvent(reset, "RCV_UNEXP_SYN")
      \/ R = sendRst(Result(c), seg.ack)
      \/ R = WithEvent(closed, "RCV_ACK") /\ c.fsm = "LAST_ACK"
      \/ R = AckedSegment(c, seg, stops)
  BY DEF processSegment1stThru8th, WithEvent
<1> HIDE DEF R
<1>2. seg.ack \in Int
  BY DEF TCPSegment
<1>3. Evolves(Result(c), c, stops)
  BY <0>ResultEvolves
<1>4. Evolves(sendAck(Result(c)), c, stops) /\ Evolves(sendRst(Result(c), seg.ack), c, stops)
  BY <1>2, <1>3, <0>SendAck, <0>SendRst
<1>5. Evolves(reset, c, stops) /\ (c.fsm = "LAST_ACK" => Evolves(closed, c, stops))
  BY Zenon, <1>3, <0>SendIndication DEF Kinds, Failures, Closing
<1> HIDE DEF reset, closed
<1>6. /\ Evolves(WithEvent(reset, "RCV_UNEXP_SYN"), c, stops)
      /\ c.fsm = "LAST_ACK" => Evolves(WithEvent(closed, "RCV_ACK"), c, stops)
  BY <1>5, <0>OtherEvent DEF Event
<1>7. Evolves(ResetBy(c), c, stops)
  BY <0>ResetEvolves
<1>8. Evolves(AckedSegment(c, seg, stops), c, stops)
  BY Zenon, <0>AckedSegmentEvolves
<1> QED
  BY Zenon, <1>1, <1>3, <1>4, <1>6, <1>7, <1>8 DEF R

(* The entry points of a connection.                                       *)

\* The transition comes last.
<0>Transition.
  ASSUME NEW c \in Connection, c.fsm \in Live, NEW stops, NEW r, Evolves(r, c, stops),
         c.fsm = "SYN_SENT" =>
           \/ r.inds = <<>> /\ r.event \in {"IGNORE", "CLOSE", "TIMEOUT_2MSL"}
           \/ r.inds = <<Established>> /\ r.event = "RCV_SYN_ACK"
           \/ /\ r.event \in {"RCV_RST", "ABORT", "TIMEOUT_CONN_ESTAB"}
              /\ NoOpening(r)
  PROVE  After(performStateTransition(r), c, stops)
<1> USE <0>Transition
<1> DEFINE p == performStateTransition(r)
           state == Goto(c.fsm, r.event)
<1>1. r \in Outcome /\ r.c.fsm = c.fsm /\ r.event \in Event
  BY Zenon DEF Evolves, Outcome
<1>2. /\ p \in Outcome /\ p.c.fsm = state /\ p.c.sendFin = r.c.sendFin
      /\ p.inds = r.inds /\ p.event = r.event
  BY Zenon, <1>1, <0>PerformStateTransition
<1> HIDE DEF p
<1>3. /\ state \in Live \cup {"CLOSED"}
      /\ state \in Closing => c.fsm \in Closing \/ r.event = "CLOSE"
      /\ state = "SYN_SENT" => c.fsm = "SYN_SENT"
      /\ state = "SYN_RCVD" => c.fsm = "SYN_RCVD"
  <2>1. c.fsm \in Live \cup {"INIT", "LISTEN", "CLOSED"} /\ c.fsm # "INIT" /\ c.fsm # "LISTEN"
    BY DEF Live, Opened
  <2> QED
    BY Zenon, <1>1, <2>1, <0>GotoState
<1>4. /\ Goto("SYN_SENT", "IGNORE") = "SYN_SENT"
      /\ Goto("SYN_SENT", "TIMEOUT_2MSL") = "SYN_SENT"
      /\ Goto("SYN_SENT", "CLOSE") = "CLOSED"
      /\ Goto("SYN_SENT", "RCV_SYN_ACK") = "ESTABLISHED"
      /\ Goto("SYN_SENT", "RCV_RST") = "CLOSED"
      /\ Goto("SYN_SENT", "ABORT") = "CLOSED"
      /\ Goto("SYN_SENT", "TIMEOUT_CONN_ESTAB") = "CLOSED"
  BY DEF Goto
<1>5. c.fsm = "SYN_SENT" =>
        \/ r.inds = <<>> /\ state \in {"SYN_SENT", "CLOSED"}
        \/ r.inds = <<Established>> /\ state = "ESTABLISHED"
        \/ /\ state = "CLOSED"
           /\ NoOpening(r)
  BY Zenon, <1>4
<1> HIDE DEF state
<1>6. After(p, c, stops)
  <2>1. p.c.sendFin = c.sendFin /\ (p.c.fsm \in Closing => c.fsm \in Closing \/ c.sendFin)
    BY Zenon, <1>2, <1>3 DEF Evolves
  <2>2. \A i \in DOMAIN p.inds : ProperIndication(p.inds[i], c, stops)
    BY Zenon, <1>2 DEF Evolves
  <2> QED
    BY Zenon, <1>2, <1>3, <1>5, <2>1, <2>2 DEF After, NoOpening
<1> QED
  BY Zenon, <1>6 DEF p

\* Without a transition, and without an indication.
<0>NoTransition.
  ASSUME NEW c \in Connection, c.fsm \in Live, NEW stops, NEW r, Evolves(r, c, stops),
         r.inds = <<>>
  PROVE  After(r, c, stops)
<1> USE <0>NoTransition
<1>1. /\ r \in Outcome /\ r.c.fsm = c.fsm /\ r.c.sendFin = c.sendFin
      /\ \A i \in DOMAIN r.inds : ProperIndication(r.inds[i], c, stops)
  BY DEF Evolves
<1> QED
  BY Zenon, <1>1 DEF After

\* process_RCV_SEGMENT.
<0>SegmentResult.
  ASSUME NEW c \in Connection, c.fsm \in Live, NEW seg \in TCPSegment, NEW stops
  PROVE  After(processTCPSegment(c, seg, stops), c, stops)
<1> USE <0>SegmentResult
<1>1. CASE c.fsm = "SYN_SENT"
  <2> DEFINE r == processSegmentInSynSent(c, seg)
  <2>1. /\ Evolves(r, c, stops)
        /\ \/ r.inds = <<>> /\ r.event = "IGNORE"
           \/ /\ r.inds = <<[kind |-> "CONNECTION_RESET", at |-> 0]>>
              /\ r.event = "RCV_RST"
           \/ r.inds = <<Established>> /\ r.event = "RCV_SYN_ACK"
    BY Zenon, <1>1, <0>SegmentInSynSent DEF Established
  <2>3. r.inds = <<[kind |-> "CONNECTION_RESET", at |-> 0]>> =>
          NoOpening(r)
    BY DEF NoOpening
  <2>2. processTCPSegment(c, seg, stops) = performStateTransition(r)
    BY Zenon, <1>1 DEF processTCPSegment
  <2> HIDE DEF r
  <2> QED
    BY Zenon, <2>1, <2>2, <2>3, <0>Transition
<1>2. CASE c.fsm # "SYN_SENT"
  <2> DEFINE r == processSegment1stThru8th(c, seg, stops)
  <2>1. Evolves(r, c, stops)
    BY <0>Segment1stThru8th
  <2>2. processTCPSegment(c, seg, stops) = performStateTransition(r)
    BY Zenon, <1>2 DEF processTCPSegment
  <2> HIDE DEF r
  <2> QED
    BY Zenon, <1>2, <2>1, <2>2, <0>Transition
<1> QED
  BY Zenon, <1>1, <1>2

\* The indication of a timeout.
<0>TimedOut.
  ASSUME NEW c, NEW stops, NEW r, Evolves(r, c, stops), r.inds = <<>>
  PROVE  LET q == sendIndicationToApp(r, "TIMED_OUT")
         IN /\ Evolves(q, c, stops) /\ q.event = r.event
            /\ NoOpening(q)
<1> USE <0>TimedOut
<1> DEFINE kind == "TIMED_OUT"
           q == sendIndicationToApp(r, kind)
<1>1. kind \in Kinds \ {"DATA"} /\ kind # "CLOSED" /\ kind # "ESTABLISHED"
  BY Zenon DEF Kinds, Failures
<1> HIDE DEF kind
<1>2. /\ Evolves(q, c, stops) /\ q.event = r.event
      /\ q.inds = Append(r.inds, [kind |-> kind, at |-> 0])
  BY SMTT(30), <1>1, <0>SendIndication
<1>3. NoOpening(q)
  <2>1. q.inds = <<[kind |-> kind, at |-> 0]>>
    BY <1>2
  <2> QED
    BY <1>1, <2>1 DEF NoOpening
<1> QED
  BY Zenon, <1>2, <1>3 DEF kind

\* The timers of TCPConnection and TCPReno.
<0>TimerResult.
  ASSUME NEW c \in Connection, c.fsm \in Live, NEW timer \in Timer, NEW stops
  PROVE  After(processTimer(c, timer), c, stops)
<1> USE <0>TimerResult
<1> DEFINE R == processTimer(c, timer)
<1>0. /\ Evolves(Result(c), c, stops)
      /\ Result(c).inds = <<>> /\ Result(c).event = "IGNORE"
  BY Zenon, <0>ResultEvolves
<1>1. CASE timer = "CONN-ESTAB"
  <2> DEFINE r == WithEvent(Result(c), "TIMEOUT_CONN_ESTAB")
             q == IF c.active THEN sendIndicationToApp(r, "TIMED_OUT") ELSE r
  <2>0. "TIMEOUT_CONN_ESTAB" \in Event
    BY Zenon DEF Event
  <2>1. Evolves(r, c, stops) /\ r.event = "TIMEOUT_CONN_ESTAB" /\ r.inds = <<>>
    BY <1>0, <2>0, <0>OtherEvent
  <2>2. R = performStateTransition(q)
    BY Zenon, <1>1 DEF processTimer, process_TIMEOUT_CONN_ESTAB, WithEvent
  <2> HIDE DEF r, R
  <2>3. /\ Evolves(q, c, stops) /\ q.event = "TIMEOUT_CONN_ESTAB"
        /\ NoOpening(q)
    <3>1. /\ Evolves(sendIndicationToApp(r, "TIMED_OUT"), c, stops)
          /\ sendIndicationToApp(r, "TIMED_OUT").event = r.event
          /\ NoOpening(sendIndicationToApp(r, "TIMED_OUT"))
      BY Zenon, <2>1, <0>TimedOut
    <3>2. NoOpening(r)
      BY SMTT(30), <2>1 DEF NoOpening
    <3> QED
      BY Zenon, <2>1, <3>1, <3>2
  <2> HIDE DEF q
  <2> QED
    BY Zenon, <2>2, <2>3, <0>Transition DEF R
<1>2. CASE timer = "2MSL"
  <2> DEFINE r == WithEvent(Result(c), "TIMEOUT_2MSL")
  <2>0. "TIMEOUT_2MSL" \in Event
    BY DEF Event
  <2>1. Evolves(r, c, stops) /\ r.event = "TIMEOUT_2MSL" /\ r.inds = <<>>
    BY <1>0, <2>0, <0>OtherEvent
  <2>2. R = performStateTransition(r)
    BY <1>2 DEF processTimer, process_TIMEOUT_2MSL, WithEvent
  <2> HIDE DEF r, R
  <2> QED
    BY Zenon, <2>1, <2>2, <0>Transition DEF R
<1>3. CASE timer = "SYN-REXMIT"
  <2> DEFINE v == c.syns + 1
             d == [c EXCEPT !.syns = v]
             r == Result(d)
             q == WithEvent(r, "ABORT")
  <2>1. v \in Int
    BY DEF Connection
  <2>2. R = performStateTransition(q) \/ R = sendSyn(r) \/ R = sendSynAck(r)
    BY <1>3 DEF processTimer, process_TIMEOUT_SYN_REXMIT, WithEvent
  <2> HIDE DEF v, R
  <2>3. d \in Connection /\ d.fsm = c.fsm /\ d.sendFin = c.sendFin
    BY <2>1 DEF Connection
  <2> HIDE DEF d
  <2>4. Evolves(r, c, stops) /\ r.inds = <<>>
    BY Zenon, <2>3, <0>ResultEvolves
  <2> HIDE DEF r
  <2>5. /\ Evolves(q, c, stops) /\ q.event = "ABORT"
        /\ NoOpening(q)
    <3>1. "ABORT" \in Event
      BY DEF Event
    <3>2. Evolves(q, c, stops) /\ q.event = "ABORT" /\ q.inds = <<>>
      BY SMTT(30), <2>4, <3>1, <0>OtherEvent
    <3> QED
      BY <3>2 DEF NoOpening
  <2> HIDE DEF q
  <2>6. After(performStateTransition(q), c, stops)
    BY <2>5, <0>Transition
  <2>7. Evolves(sendSyn(r), c, stops) /\ sendSyn(r).inds = <<>>
    BY Zenon, <2>4, <0>SendSyn
  <2>8. Evolves(sendSynAck(r), c, stops) /\ sendSynAck(r).inds = <<>>
    BY ZenonT(30), <2>4, <0>SendSynAck
  <2>9. After(sendSyn(r), c, stops) /\ After(sendSynAck(r), c, stops)
    BY Zenon, <2>7, <2>8, <0>NoTransition
  <2> QED
    BY <2>2, <2>6, <2>9 DEF R
<1>4. CASE timer = "REXMIT"
  <2> DEFINE v == c.rexmits + 1
             one == 1
             yes == TRUE
             d == [c EXCEPT !.rexmits = v, !.cwnd = one, !.afterRto = yes]
             r == Result(d)
             q == WithEvent(sendIndicationToApp(r, "TIMED_OUT"), "ABORT")
  <2>1. v \in Int /\ one \in Int /\ yes \in BOOLEAN
    BY DEF Connection
  <2>2. R = performStateTransition(q) \/ R = retransmitOneSegment(r)
    BY <1>4 DEF processTimer, processRexmitTimer, WithEvent
  <2> HIDE DEF v, one, yes, R
  <2>3. d \in Connection /\ d.fsm = c.fsm /\ d.sendFin = c.sendFin
    BY ZenonT(30), <2>1 DEF Connection
  <2> HIDE DEF d
  <2>4. Evolves(r, c, stops) /\ r.inds = <<>>
    BY <2>3, <0>ResultEvolves
  <2> HIDE DEF r
  <2> DEFINE z == sendIndicationToApp(r, "TIMED_OUT")
  <2>5. /\ Evolves(z, c, stops) /\ z.event = r.event
        /\ NoOpening(z)
    <3>1. /\ Evolves(sendIndicationToApp(r, "TIMED_OUT"), c, stops)
          /\ sendIndicationToApp(r, "TIMED_OUT").event = r.event
          /\ NoOpening(sendIndicationToApp(r, "TIMED_OUT"))
      BY Zenon, <2>4, <0>TimedOut
    <3> QED
      BY <3>1
  <2>6. /\ Evolves(q, c, stops) /\ q.event = "ABORT"
        /\ NoOpening(q)
    <3>1. "ABORT" \in Event /\ q = WithEvent(z, "ABORT")
      BY DEF Event
    <3> HIDE DEF z, q
    <3>2. /\ Evolves(WithEvent(z, "ABORT"), c, stops)
          /\ WithEvent(z, "ABORT").event = "ABORT" /\ WithEvent(z, "ABORT").inds = z.inds
      BY SMTT(30), <2>5, <3>1, <0>OtherEvent
    <3> QED
      BY <2>5, <3>1, <3>2 DEF NoOpening
  <2> HIDE DEF q
  <2>7. After(performStateTransition(q), c, stops)
    BY <2>6, <0>Transition
  <2>8. Evolves(retransmitOneSegment(r), c, stops) /\ retransmitOneSegment(r).inds = <<>>
    BY Zenon, <2>4, <0>RetransmitOneSegment
  <2>9. After(retransmitOneSegment(r), c, stops)
    BY Zenon, <2>8, <0>NoTransition
  <2> QED
    BY Zenon, <2>2, <2>7, <2>9 DEF R
<1> QED
  BY Zenon, <1>1, <1>2, <1>3, <1>4 DEF Timer

\* A command that the connection does not refuse: no command leads to an
\* indication.
<0>SendResult.
  ASSUME NEW c \in Connection, c.fsm \in Live, NEW len \in Int, NEW stops,
         process_SEND(c, len).event # "ERROR"
  PROVE  After(process_SEND(c, len), c, stops) /\ process_SEND(c, len).inds = <<>>
<1> USE <0>SendResult
<1> DEFINE v == c.end + len
           d == [c EXCEPT !.end = v]
           r == Result(d)
           R == process_SEND(c, len)
<1>1. v \in Int
  BY DEF Connection
<1>2. R = r \/ R = sendData(r) \/ R = Refused(c)
  BY DEF process_SEND
<1>3. Refused(c).event = "ERROR"
  BY DEF Refused, Result
<1> HIDE DEF v, R
<1>4. d \in Connection /\ d.fsm = c.fsm /\ d.sendFin = c.sendFin
  BY Zenon, <1>1 DEF Connection
<1> HIDE DEF d
<1>5. Evolves(r, c, stops) /\ r.inds = <<>>
  BY <1>4, <0>ResultEvolves
<1> HIDE DEF r
<1>6. Evolves(sendData(r), c, stops) /\ sendData(r).inds = <<>>
  BY Zenon, <1>5, <0>SendData
<1>7. After(r, c, stops) /\ After(sendData(r), c, stops)
  BY Zenon, <1>5, <1>6, <0>NoTransition
<1> QED
  BY Zenon, <1>2, <1>3, <1>5, <1>6, <1>7 DEF R

\* ABORT sends a RST once the connection is synchronised, and ends it.
<0>AbortResult.
  ASSUME NEW c \in Connection, c.fsm \in Live, NEW stops
  PROVE  After(process_ABORT(c), c, stops) /\ process_ABORT(c).inds = <<>>
<1> USE <0>AbortResult
<1> DEFINE r == WithEvent(Result(c), "ABORT")
           q == sendRst(r, c.nxt)
           R == process_ABORT(c)
<1>1. c.nxt \in Int /\ c.fsm # "INIT"
  BY DEF Connection, Live, Opened
<1>2. R = performStateTransition(q) \/ R = performStateTransition(r)
  BY <1>1 DEF process_ABORT, WithEvent
<1> HIDE DEF R
<1>3. Evolves(Result(c), c, stops) /\ Result(c).inds = <<>>
  BY Zenon, <0>ResultEvolves
<1>4. Evolves(r, c, stops) /\ r.inds = <<>> /\ r.event = "ABORT"
  <2>1. "ABORT" \in Event
    BY DEF Event
  <2> QED
    BY <1>3, <2>1, <0>OtherEvent
<1> HIDE DEF r
<1>5. Evolves(q, c, stops) /\ q.inds = <<>> /\ q.event = "ABORT"
  BY SMTT(30), <1>1, <1>4, <0>SendRst
<1> HIDE DEF q
<1>6. /\ After(performStateTransition(q), c, stops)
      /\ After(performStateTransition(r), c, stops)
  <2>1. /\ NoOpening(q)
        /\ NoOpening(r)
    BY <1>4, <1>5 DEF NoOpening
  <2> QED
    BY Zenon, <1>4, <1>5, <2>1, <0>Transition
<1>7. r \in Outcome /\ q \in Outcome
  BY Zenon, <1>4, <1>5 DEF Evolves
<1>8. performStateTransition(q).inds = <<>> /\ performStateTransition(r).inds = <<>>
  BY Zenon, <1>4, <1>5, <1>7, <0>PerformStateTransition
<1> QED
  BY Zenon, <1>2, <1>6, <1>8 DEF R

\* CLOSE marks the end of the stream, and moves on at once when the FIN goes out.
<0>CloseResult.
  ASSUME NEW c \in Connection, c.fsm \in Live, process_CLOSE(c).event # "ERROR"
  PROVE  LET r == process_CLOSE(c)
         IN /\ r \in Outcome /\ r.inds = <<>>
            /\ r.c.fsm \in Live \cup {"CLOSED"}
            /\ r.c.fsm \in {"SYN_SENT", "SYN_RCVD"} => r.c.fsm = c.fsm
<1> USE <0>CloseResult
<1> DEFINE yes == TRUE
           closing == [c EXCEPT !.sendFin = yes]
           nxt == c.max + 1
           none == 0
           timers == c.timers \cup {"REXMIT"}
           finSent == [c EXCEPT !.sendFin = yes, !.nxt = nxt, !.max = nxt,
                                !.rexmits = none, !.timers = timers]
           segs == <<Segment({"FIN", "ACK"}, c.max, c.rcv, 0)>>
           R == process_CLOSE(c)
           r1 == WithEvent(Result(c), "CLOSE")
           r2 == WithEvent(WithSegments(Result(finSent), segs), "CLOSE")
<1>1. /\ yes \in BOOLEAN /\ nxt \in Int /\ none \in Int /\ timers \in SUBSET Timer
      /\ c.max \in Int /\ c.rcv \in Int
  BY DEF Connection, Timer
<1>2. segs \in Seq(TCPSegment)
  <2>1. Segment({"FIN", "ACK"}, c.max, c.rcv, 0) \in TCPSegment
    BY Zenon, <1>1, <0>SegmentType DEF Flag
  <2> QED
    BY <2>1
<1>3. \/ R = performStateTransition(r1)
      \/ R = performStateTransition(r2)
      \/ R = Result(closing)
      \/ R = Refused(c)
  <2>1. finSent = [closing EXCEPT !.nxt = c.max + 1, !.max = @ + 1, !.rexmits = 0,
                                  !.timers = @ \cup {"REXMIT"}]
    BY DEF Connection
  <2> HIDE DEF finSent
  <2> QED
    BY <2>1 DEF process_CLOSE, WithEvent, WithSegments
<1>4. Refused(c).event = "ERROR"
  BY DEF Refused, Result
<1> HIDE DEF yes, nxt, none, timers, segs, R
<1>5. closing \in Connection /\ closing.fsm = c.fsm
  BY <1>1 DEF Connection
<1>6. finSent \in Connection /\ finSent.fsm = c.fsm
  BY Zenon, <1>1 DEF Connection
<1> HIDE DEF closing, finSent
<1>7. \A x \in Connection : /\ Result(x) \in Outcome /\ Result(x).c = x
                            /\ Result(x).inds = <<>>
  BY DEF Result, Outcome, Event
<1>8. r1 \in Outcome /\ r1.c.fsm = c.fsm /\ r1.inds = <<>>
  <2>1. Result(c) \in Outcome /\ Result(c).c = c /\ Result(c).inds = <<>>
    BY <1>7
  <2> DEFINE q == Result(c)
  <2> HIDE DEF q
  <2>2. /\ WithEvent(q, "CLOSE") \in Outcome /\ WithEvent(q, "CLOSE").c = q.c
        /\ WithEvent(q, "CLOSE").inds = q.inds
    BY Zenon, <2>1 DEF WithEvent, Outcome, Event, q
  <2> QED
    BY Zenon, <2>1, <2>2 DEF q
<1>9. r2 \in Outcome /\ r2.c.fsm = c.fsm /\ r2.inds = <<>>
  <2>1. Result(finSent) \in Outcome /\ Result(finSent).c = finSent
        /\ Result(finSent).inds = <<>>
    BY <1>6, <1>7
  <2> DEFINE q == Result(finSent)
  <2> HIDE DEF q
  <2> DEFINE z == WithSegments(q, segs)
  <2>2. z \in Outcome /\ z.c = q.c /\ z.inds = q.inds
    BY Zenon, <1>2, <2>1 DEF WithSegments, Outcome, q
  <2> HIDE DEF z
  <2>3. /\ WithEvent(z, "CLOSE") \in Outcome /\ WithEvent(z, "CLOSE").c = z.c
        /\ WithEvent(z, "CLOSE").inds = z.inds
    BY <2>2 DEF WithEvent, Outcome, Event
  <2> QED
    BY Zenon, <1>6, <2>1, <2>2, <2>3 DEF q, z
<1> HIDE DEF r1, r2
<1>10. ASSUME NEW r \in Outcome, r.c.fsm = c.fsm, r.inds = <<>>
       PROVE  LET p == performStateTransition(r)
              IN /\ p \in Outcome /\ p.inds = <<>>
                 /\ p.c.fsm \in Live \cup {"CLOSED"}
                 /\ p.c.fsm \in {"SYN_SENT", "SYN_RCVD"} => p.c.fsm = c.fsm
  <2>1. r.event \in Event
    BY DEF Outcome
  <2>2. c.fsm \in Live \cup {"INIT", "LISTEN", "CLOSED"} /\ c.fsm # "INIT" /\ c.fsm # "LISTEN"
    BY DEF Live, Opened
  <2>3. /\ Goto(c.fsm, r.event) \in Live \cup {"CLOSED"}
        /\ Goto(c.fsm, r.event) \in {"SYN_SENT", "SYN_RCVD"} => Goto(c.fsm, r.event) = c.fsm
    BY Zenon, <2>1, <2>2, <0>GotoState
  <2>4. LET p == performStateTransition(r)
        IN p \in Outcome /\ p.c.fsm = Goto(r.c.fsm, r.event) /\ p.inds = r.inds
    BY Zenon, <0>PerformStateTransition
  <2> QED
    BY <1>10, <2>3, <2>4
<1>11. CASE R = performStateTransition(r1)
  BY Zenon, <1>8, <1>10, <1>11 DEF R
<1>12. CASE R = performStateTransition(r2)
  BY Zenon, <1>9, <1>10, <1>12 DEF R
<1>13. CASE R = Result(closing)
  BY Zenon, <1>5, <1>7, <1>13 DEF R
<1> QED
  BY Zenon, <1>3, <1>4, <1>11, <1>12, <1>13 DEF R

\* A new connection is a connection.
<0>NewConnectionType.
  ASSUME NEW active \in BOOLEAN, NEW iss \in Int
  PROVE  /\ NewConnection(active, iss) \in Connection
         /\ NewConnection(active, iss).fsm = "INIT"
         /\ NewConnection(active, iss).sendFin = FALSE
<1> USE <0>NewConnectionType
<1>1. IsFiniteSet({})
  BY FS_EmptySet
<1> QED
  BY <1>1 DEF NewConnection, Connection, Timer

\* A command for a connection that TCP does not know meets one in state INIT.
<0>Unopened.
  /\ NewConnection(TRUE, 0) \in Connection
  /\ NewConnection(TRUE, 0).fsm = "INIT" /\ NewConnection(TRUE, 0).sendFin = FALSE
<1> DEFINE active == TRUE
           iss == 0
<1>1. active \in BOOLEAN /\ iss \in Int
  OBVIOUS
<1> HIDE DEF active, iss
<1>2. /\ NewConnection(active, iss) \in Connection
      /\ NewConnection(active, iss).fsm = "INIT"
      /\ NewConnection(active, iss).sendFin = FALSE
  BY Zenon, <1>1, <0>NewConnectionType
<1> QED
  BY Zenon, <1>2 DEF active, iss

\* An active open.
<0>OpenResult.
  LET r == process_OPEN_ACTIVE(NewConnection(TRUE, 0))
  IN /\ r \in Outcome /\ r.inds = <<>> /\ r.event # "ERROR"
     /\ r.c.fsm = "SYN_SENT" /\ r.c.sendFin = FALSE
<1> DEFINE c == NewConnection(TRUE, 0)
           timers == {"CONN-ESTAB", "SYN-REXMIT"}
           d == [c EXCEPT !.timers = timers]
           r == Result(d)
           q == WithEvent(sendSyn(r), "OPEN_ACTIVE")
<1>1. c \in Connection /\ c.fsm = "INIT" /\ c.sendFin = FALSE
  BY Zenon, <0>Unopened
<1>2. timers \in SUBSET Timer
  BY DEF Timer
<1>3. process_OPEN_ACTIVE(c) = performStateTransition(q)
  BY DEF process_OPEN_ACTIVE, WithEvent
<1> HIDE DEF c, timers
<1>4. d \in Connection /\ d.fsm = c.fsm /\ d.sendFin = c.sendFin
  BY Zenon, <1>1, <1>2 DEF Connection
<1> HIDE DEF d
<1>5. Evolves(r, d, {}) /\ r.inds = <<>>
  BY Zenon, <1>4, <0>ResultEvolves
<1> HIDE DEF r
<1>6. Evolves(sendSyn(r), d, {}) /\ sendSyn(r).inds = <<>>
  BY Zenon, <1>5, <0>SendSyn
<1>7. Evolves(q, d, {}) /\ q.inds = <<>> /\ q.event = "OPEN_ACTIVE"
  <2>1. "OPEN_ACTIVE" \in Event /\ "OPEN_ACTIVE" # "CLOSE"
    BY Zenon DEF Event
  <2> QED
    BY <1>6, <2>1, <0>OtherEvent
<1> HIDE DEF q
<1>8. q \in Outcome /\ q.c.fsm = "INIT" /\ q.c.sendFin = FALSE
  BY <1>1, <1>4, <1>7 DEF Evolves
<1>9. Goto("INIT", "OPEN_ACTIVE") = "SYN_SENT"
  BY Zenon DEF Goto
<1>10. LET p == performStateTransition(q)
       IN /\ p \in Outcome /\ p.inds = <<>> /\ p.event = "OPEN_ACTIVE"
          /\ p.c.fsm = "SYN_SENT" /\ p.c.sendFin = FALSE
  BY Zenon, <1>7, <1>8, <1>9, <0>PerformStateTransition
<1> QED
  BY Zenon, <1>3, <1>10 DEF c

\* A worker that the listener forks off waits for the ACK of its SYN.
<0>ForkedResult.
  ASSUME NEW seg \in TCPSegment, NEW iss \in Int
  PROVE  Forked(seg, iss) \in Outcome /\ Forked(seg, iss).c.fsm = "SYN_RCVD"
<1> USE <0>ForkedResult
<1> DEFINE c == NewConnection(FALSE, iss)
           listen == "LISTEN"
           v == seg.seq + 1
           timers == {"CONN-ESTAB", "SYN-REXMIT"}
           d == [c EXCEPT !.fsm = listen, !.rcv = v, !.timers = timers]
           r == Result(d)
           q == WithEvent(sendSynAck(r), "RCV_SYN")
<1>1. c \in Connection
  BY Zenon, <0>NewConnectionType
<1>2. timers \in SUBSET Timer /\ v \in Int
      /\ listen \in Live \cup {"INIT", "LISTEN", "CLOSED"}
  BY DEF Timer, TCPSegment
<1>3. Forked(seg, iss) = performStateTransition(q)
  BY DEF Forked, WithEvent
<1> HIDE DEF c, timers, v, listen
<1>4. d \in Connection /\ d.fsm = listen
  BY Zenon, <1>1, <1>2 DEF Connection
<1> HIDE DEF d
<1>5. Evolves(r, d, {})
  BY Zenon, <1>4, <0>ResultEvolves
<1> HIDE DEF r
<1>6. Evolves(sendSynAck(r), d, {})
  BY <1>5, <0>SendSynAck
<1>7. Evolves(q, d, {}) /\ q.event = "RCV_SYN"
  <2>1. "RCV_SYN" \in Event /\ "RCV_SYN" # "CLOSE"
    BY DEF Event
  <2> QED
    BY <1>6, <2>1, <0>OtherEvent
<1> HIDE DEF q
<1>8. q \in Outcome /\ q.c.fsm = "LISTEN"
  BY <1>4, <1>7 DEF Evolves, listen
<1>9. Goto("LISTEN", "RCV_SYN") = "SYN_RCVD"
  BY Zenon DEF Goto
<1>10. LET p == performStateTransition(q)
       IN p \in Outcome /\ p.c.fsm = "SYN_RCVD"
  BY Zenon, <1>7, <1>8, <1>9, <0>PerformStateTransition
<1> QED
  BY <1>3, <1>10

\* An unknown connection is in state INIT, and refuses every other command.
<0>UnknownRefuses.
  LET c == NewConnection(TRUE, 0)
  IN /\ \A len \in Int : process_SEND(c, len).event = "ERROR"
     /\ process_CLOSE(c).event = "ERROR"
     /\ process_ABORT(c).event = "ERROR"
<1> DEFINE c == NewConnection(TRUE, 0)
<1>1. c.fsm = "INIT"
  BY Zenon, <0>Unopened
<1>2. Refused(c).event = "ERROR"
  BY DEF Refused, Result
<1> HIDE DEF c
<1>3. \A len \in Int : process_SEND(c, len) = Refused(c)
  BY <1>1 DEF process_SEND
<1>4. process_CLOSE(c) = Refused(c)
  BY <1>1 DEF process_CLOSE
<1>5. process_ABORT(c) = Refused(c)
  BY <1>1 DEF process_ABORT
<1> QED
  BY Zenon, <1>2, <1>3, <1>4, <1>5 DEF c

\* The answer to a segment for which there is no connection.
<0>WhileClosed.
  ASSUME NEW seg \in TCPSegment
  PROVE  segmentArrivalWhileClosed(seg) \in Seq(TCPSegment)
<1> USE <0>WhileClosed
<1>1. seg.ack \in Int /\ seg.seq + seg.len \in Int
  BY DEF TCPSegment
<1>2. /\ Segment({"RST"}, seg.ack, 0, 0) \in TCPSegment
      /\ Segment({"RST", "ACK"}, 0, seg.seq + seg.len, 0) \in TCPSegment
  BY <1>1, <0>SegmentType DEF Flag
<1>3. /\ <<Segment({"RST"}, seg.ack, 0, 0)>> \in Seq(TCPSegment)
      /\ <<Segment({"RST", "ACK"}, 0, seg.seq + seg.len, 0)>> \in Seq(TCPSegment)
      /\ <<>> \in Seq(TCPSegment)
  BY <1>2
<1> QED
  BY <1>3 DEF segmentArrivalWhileClosed

\* The promises, one by one.
<0>1. SegmentPromise
  BY <0>SegmentResult DEF SegmentPromise
<0>2. TimerPromise
  BY <0>TimerResult DEF TimerPromise
<0>3. CommandPromise
  BY Zenon, <0>SendResult, <0>AbortResult DEF CommandPromise
<0>4. ClosePromise
  BY <0>CloseResult DEF ClosePromise
<0>5. OpenPromise
  BY Zenon, <0>OpenResult, <0>UnknownRefuses DEF OpenPromise
<0>6. ListenPromise
  BY <0>ForkedResult, <0>WhileClosed DEF ListenPromise
<0> QED
  BY <0>1, <0>2, <0>3, <0>4, <0>5, <0>6 DEF Contract

-----------------------------------------------------------------------------
(* The theorems.                                                           *)

\* The facts about finite sets that the steps use.
LEMMA Cardinalities == CardinalityFacts
<1> SUFFICES ASSUME NEW S, IsFiniteSet(S)
             PROVE  /\ Cardinality(S) \in Nat
                    /\ \A T \in SUBSET S : IsFiniteSet(T) /\ Cardinality(T) <= Cardinality(S)
                    /\ \A x : x \notin S =>
                         IsFiniteSet(S \cup {x}) /\ Cardinality(S \cup {x}) = Cardinality(S) + 1
                    /\ \A x \in S :
                         IsFiniteSet(S \ {x}) /\ Cardinality(S \ {x}) = Cardinality(S) - 1
  BY Zenon DEF CardinalityFacts
<1>1. Cardinality(S) \in Nat
  BY FS_CardinalityType
<1>2. \A T \in SUBSET S : IsFiniteSet(T) /\ Cardinality(T) <= Cardinality(S)
  BY Zenon, FS_Subset
<1>3. \A x : x \notin S =>
        IsFiniteSet(S \cup {x}) /\ Cardinality(S \cup {x}) = Cardinality(S) + 1
  BY Zenon, FS_AddElement
<1>4. \A x \in S : IsFiniteSet(S \ {x}) /\ Cardinality(S \ {x}) = Cardinality(S) - 1
  BY Zenon, FS_RemoveElement
<1> QED
  BY Zenon, <1>1, <1>2, <1>3, <1>4

\* Init establishes the invariant.
LEMMA InitInv == Init => Inv
<1> SUFFICES ASSUME Init PROVE Inv
  OBVIOUS
<1>1. /\ \A s \in Sessions : /\ client[s].state = "IDLE" /\ client[s].timer = FALSE
                             /\ client[s].sent = 0 /\ client[s].rcvd = 0
      /\ client \in [Sessions -> ClientThread]
  BY DEF Init, ClientThread
<1>2. /\ conn \in [Sides -> [Sessions -> Kept]]
      /\ \A side \in Sides, s \in Sessions : conn[side][s] = None
  BY DEF Init, Kept
<1>3. now = <<>> /\ now \in Seq(Message) /\ Elems(now) = {}
  BY DEF Init, Elems
<1>4. net \in [Sides -> [Sessions -> Seq(TCPSegment)]]
  BY DEF Init
<1>5. /\ forks \in [Sessions -> Nat] /\ requests \in [Sessions -> Seq(Request)]
      /\ ends \in [Sessions -> SUBSET Int] /\ gaveUp \subseteq Sessions
      /\ lost \in 0 .. MaxLost
  BY ApplicationAssumption DEF Init
<1>6. "client" \in Sides /\ "server" \in Sides
  BY DEF Sides
<1>7. DataInv
  BY Zenon, <1>1, <1>2, <1>3, <1>4, <1>5, <1>6 DEF DataInv
<1>8. ThreadInv
  <2>1. DOMAIN threads = {} /\ threads \in [{} -> ServerThread]
    BY DEF Init
  <2>2. IsFiniteSet({}) /\ Cardinality({}) = 0
    BY FS_EmptySet
  <2> QED
    BY <2>1, <2>2, ApplicationAssumption DEF ThreadInv
<1>9. CountInv
  <2>1. {s \in Sessions : conn["server"][s] # None} = {}
    BY Zenon, <1>2, <1>6
  <2>2. Cardinality({}) = 0 /\ count = 0
    BY Zenon, FS_EmptySet DEF Init
  <2> QED
    BY <2>1, <2>2, ApplicationAssumption DEF CountInv
<1>10. SessionInv
  <2>1. \A s \in Sessions : ThreadState(client[s])
    BY <1>1 DEF ThreadState
  <2>2. \A s \in Sessions : Reflects(s, client[s], conn["client"][s], now)
    BY <1>2, <1>6 DEF Reflects
  <2> QED
    BY Zenon, <1>3, <2>1, <2>2 DEF SessionInv
<1> QED
  BY <1>7, <1>8, <1>9, <1>10 DEF Inv

\* The invariant holds throughout.
LEMMA InvHolds == Spec => []Inv
<1>1. Inv /\ [Next]_vars => Inv'
  BY ConnectionContract, Cardinalities, NextInv
<1> QED
  BY <1>1, InitInv, PTL DEF Spec

\* TCP_hack counts exactly its worker connections, and there are never more
\* than maxThreadCount: acceptAnotherConnection lets one in only while there is
\* room, and canceledHalfOpenConnection takes one off for every connection that
\* ends, however it ends.
THEOREM ConnectionsSafety == Spec => []ConnectionsCounted
<1>1. Inv => ConnectionsCounted
  <2> SUFFICES ASSUME Inv PROVE ConnectionsCounted
    OBVIOUS
  <2>0. DataInv /\ ThreadInv /\ CountInv
    BY DEF Inv
  <2>1. \A side \in Sides, s \in Sessions :
          conn[side][s] # None => conn[side][s].fsm \in {"SYN_SENT"} \cup Opened
    <3>1. \A side \in Sides, s \in Sessions : conn[side][s] \in Kept
      BY <2>0 DEF DataInv
    <3> QED
      BY <3>1, NotNone DEF Live
  <2>2. count \in Nat
    <3> DEFINE W == {s \in Sessions : conn["server"][s] # None}
    <3>1. IsFiniteSet(W) /\ count = Cardinality(W)
      BY <2>0, ApplicationAssumption, FS_Subset DEF CountInv
    <3> HIDE DEF W
    <3> QED
      BY <3>1, FS_CardinalityType
  <2>3. \A id \in DOMAIN threads : id[1] \in Sessions /\ id[2] \in 1 .. forks[id[1]]
    BY <2>0 DEF ThreadInv
  <2>4. TypeOK
    BY Zenon, <2>0, <2>1, <2>2, <2>3 DEF TypeOK, DataInv, ClientThread
  <2> QED
    BY <2>0, <2>4 DEF ConnectionsCounted, CountInv, Present
<1> QED
  BY <1>1, InvHolds, PTL

\* A session that the client reports as done, and not as failed, has sent all
\* its requests and has a reply to each: timerExpired closes the socket only in
\* state DISCONNECTED, after the reply to the last request set the timer, and
\* socketClosed is called only for a socket that was closed.
THEOREM AnsweredSafety == Spec => []RequestsAnswered
<1>1. Inv => RequestsAnswered
  BY Zenon DEF Inv, SessionInv, ThreadState, MayClose, RequestsAnswered
<1> QED
  BY <1>1, InvHolds, PTL

\* The server application never has more threads than maxThreadCount.
ThreadsWithinLimit ==
  IsFiniteSet(DOMAIN threads) /\ Cardinality(DOMAIN threads) <= MaxThreads

\* handleMessage opens a thread only while there are fewer than maxThreadCount,
\* whatever connections come, fail and are aborted in between.
THEOREM ThreadsSafety == Spec => []ThreadsWithinLimit
<1>1. Inv => ThreadsWithinLimit
  BY DEF Inv, ThreadInv, ThreadsWithinLimit
<1> QED
  BY <1>1, InvHolds, PTL

\* A client connection that sends or has sent its FIN, or is still to send it,
\* belongs to a session with no request unsent or unanswered.
ClosesAnswered ==
  \A s \in Sessions :
    LET c == conn["client"][s] IN
    c # None /\ (c.sendFin \/ c.fsm \in Closing) =>
      client[s].rcvd >= client[s].sent /\ client[s].toSend <= 0

\* No client closes its half of a connection while the server still owes it a
\* reply: the CLOSE that process_CLOSE turns into a FIN comes from a thread in
\* state DISCONNECTED, and neither a FIN nor a timeout of the other end makes a
\* connection send one.
THEOREM ClosesSafety == Spec => []ClosesAnswered
<1>1. Inv => ClosesAnswered
  BY Zenon DEF Inv, SessionInv, Reflects, MayClose, ClosesAnswered
<1> QED
  BY <1>1, InvHolds, PTL

=============================================================================
