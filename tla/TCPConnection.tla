--------------------------- MODULE TCPConnection ---------------------------
(***************************************************************************)
(* One TCP connection of a ReaSE host: INET's TCPConnection with the state  *)
(* machine of TCPConnection_hack on top.  A connection is a record and each *)
(* entry point of the class (a segment, an application command, a timer) is *)
(* an operator from the connection to a result: the connection afterwards,  *)
(* the segments it hands to IP and the indications it hands to the          *)
(* application, both in the order of the calls.                             *)
(*                                                                          *)
(* Sequence numbers count segments of the maximum size (SMSS) instead of    *)
(* bytes: iss is the SYN, iss+1 .. end-1 are the data that the application  *)
(* has queued, end is the FIN.  Only the window of 14 segments decides what *)
(* is acceptable, so the initial number of a later connection, which INET   *)
(* takes from the clock, only has to be far away.  The settings are those   *)
(* of TCP_hack.ned: TCPReno, message based queues, neither SACK nor delayed *)
(* ACKs.  The streams that are modelled have a few segments: the window     *)
(* never fills, cwnd has opened before slow start ends, and three duplicate *)
(* ACKs, which would resend before the timer does, do not come together.    *)
(***************************************************************************)
EXTENDS Integers, FiniteSets, Sequences

CONSTANTS
  MaxSynRexmit,   \* MAX_SYN_REXMIT_COUNT
  MaxRexmit       \* MAX_REXMIT_COUNT

ASSUME TCPAssumption == MaxSynRexmit \in Nat /\ MaxRexmit \in Nat

\* The advertised window, in segments.
Window == 14

min(a, b) == IF a <= b THEN a ELSE b
max(a, b) == IF a >= b THEN a ELSE b

\* The indications that end a connection without a CLOSE.
Failures == {"CONNECTION_REFUSED", "CONNECTION_RESET", "TIMED_OUT"}

----------------------------------------------------------------------------
Segment(flags, seq, ack, len) ==
  [flags |-> flags, seq |-> seq, ack |-> ack, len |-> len]

\* The constructor, initConnection and selectInitialSeqNum: state INIT.
NewConnection(active, iss) ==
  [fsm |-> "INIT", active |-> active, timers |-> {}, iss |-> iss,
   una |-> iss, nxt |-> iss, max |-> iss, end |-> iss + 1,
   rcv |-> 0, stored |-> {},
   sendFin |-> FALSE, finAcked |-> FALSE, finSeq |-> 0,
   cwnd |-> 1, afterRto |-> FALSE, rexmits |-> 0, syns |-> 0]

Result(c) == [c |-> c, segs |-> <<>>, inds |-> <<>>, event |-> "IGNORE"]

\* A command the connection refuses with opp_error, which ends the simulation.
Refused(c) == [Result(c) EXCEPT !.event = "ERROR"]

sendToIP(r, seg) == [r EXCEPT !.segs = Append(@, seg)]

sendIndicationToApp(r, kind) ==
  [r EXCEPT !.inds = Append(@, [kind |-> kind, at |-> 0])]

\* Out goes the initial sequence number; snd_nxt and snd_max are behind it.
SynSent(r) == [r EXCEPT !.c.nxt = r.c.iss + 1, !.c.max = r.c.iss + 1]

sendSyn(r) == sendToIP(SynSent(r), Segment({"SYN"}, r.c.iss, 0, 0))

sendSynAck(r) ==
  sendToIP(SynSent(r), Segment({"SYN", "ACK"}, r.c.iss, r.c.rcv, 0))

sendRst(r, seq) == sendToIP(r, Segment({"RST"}, seq, 0, 0))

sendAck(r) == sendToIP(r, Segment({"ACK"}, r.c.nxt, r.c.rcv, 0))

\* The data segments from..to-1; the last of the stream carries the FIN.
Segments(c, from, to) ==
  [i \in 1 .. to - from |->
     Segment(IF c.sendFin /\ from + i = c.end THEN {"ACK", "FIN"} ELSE {"ACK"},
             from + i - 1, c.rcv, 1)]

\* snd_nxt after sendSegment: the FIN that went along counts as one.
Past(c, to) == IF c.sendFin /\ to = c.end THEN to + 1 ELSE to

\* TCPBaseAlg::dataSent and startRexmitTimer.
dataSent(c) ==
  IF "REXMIT" \in c.timers THEN c
  ELSE [c EXCEPT !.timers = @ \cup {"REXMIT"}, !.rexmits = 0]

\* What the congestion window lets out of the send queue.
sendData(r) ==
  LET c    == r.c
      from == IF c.afterRto THEN c.nxt ELSE c.max
      room == c.cwnd - (from - c.una)
      to   == min(c.end, from + room)
  IN IF from >= c.end \/ room <= 0
     THEN [r EXCEPT !.c.nxt = from]
     ELSE [r EXCEPT
             !.segs = @ \o Segments(c, from, to),
             !.c = dataSent([c EXCEPT !.nxt = Past(c, to),
                                      !.max = max(@, Past(c, to)),
                                      !.afterRto = @ /\ to < c.max])]

\* The segment at snd_una again; what is left there may be the FIN alone.
retransmitOneSegment(r) ==
  LET c  == r.c
      to == min(c.una + 1, c.end)
  IN [r EXCEPT !.segs = @ \o (IF c.una < c.end THEN Segments(c, c.una, to)
                              ELSE <<Segment({"ACK", "FIN"}, c.una, c.rcv, 0)>>),
               !.c.nxt = Past(c, to),
               !.c.afterRto = @ /\ to < c.max]

----------------------------------------------------------------------------
(* The state machine.                                                      *)

Opened == {"SYN_RCVD", "ESTABLISHED", "CLOSE_WAIT", "LAST_ACK", "FIN_WAIT_1",
           "FIN_WAIT_2", "CLOSING", "TIME_WAIT"}

\* TCPConnection_hack::performStateTransition; a forked connection in
\* SYN_RCVD is a worker thread, and dies where INET's would listen again.
\* The events of the first line only arise in states that they close.
Goto(state, event) ==
  CASE event \in {"ABORT", "RCV_UNEXP_SYN", "RCV_RST", "TIMEOUT_CONN_ESTAB"}
                                                              -> "CLOSED"
    [] state = "INIT"        /\ event = "OPEN_ACTIVE"         -> "SYN_SENT"
    [] state = "LISTEN"      /\ event = "RCV_SYN"             -> "SYN_RCVD"
    [] state = "SYN_SENT"    /\ event = "RCV_SYN_ACK"         -> "ESTABLISHED"
    [] state = "SYN_SENT"    /\ event = "CLOSE"               -> "CLOSED"
    [] state = "SYN_RCVD"    /\ event = "RCV_ACK"             -> "ESTABLISHED"
    [] state \in {"SYN_RCVD", "ESTABLISHED"} /\ event = "CLOSE"   -> "FIN_WAIT_1"
    [] state \in {"SYN_RCVD", "ESTABLISHED"} /\ event = "RCV_FIN" -> "CLOSE_WAIT"
    [] state = "CLOSE_WAIT"  /\ event = "CLOSE"               -> "LAST_ACK"
    [] state = "LAST_ACK"    /\ event = "RCV_ACK"             -> "CLOSED"
    [] state = "FIN_WAIT_1"  /\ event = "RCV_FIN"             -> "CLOSING"
    [] state = "FIN_WAIT_1"  /\ event = "RCV_ACK"             -> "FIN_WAIT_2"
    [] state = "FIN_WAIT_1"  /\ event = "RCV_FIN_ACK"         -> "TIME_WAIT"
    [] state = "FIN_WAIT_2"  /\ event = "RCV_FIN"             -> "TIME_WAIT"
    [] state = "CLOSING"     /\ event = "RCV_ACK"             -> "TIME_WAIT"
    [] state = "TIME_WAIT"   /\ event = "TIMEOUT_2MSL"        -> "CLOSED"
    [] OTHER                                                  -> state

\* The timers that stateEntered leaves running.
stateEntered(timers, state) ==
  CASE state = "CLOSED"   -> {}
    [] state \in Opened \ {"SYN_RCVD"} -> timers \ {"CONN-ESTAB", "SYN-REXMIT"}
    [] OTHER -> timers

performStateTransition(r) ==
  LET state == Goto(r.c.fsm, r.event) IN
  [r EXCEPT !.c.fsm = state,
            !.c.timers = IF state = r.c.fsm THEN @ ELSE stateEntered(@, state)]

----------------------------------------------------------------------------
(* Segments that arrive.                                                   *)

segmentArrivalWhileClosed(seg) ==
  CASE "RST" \in seg.flags -> <<>>
    [] seg.flags \cap {"RST", "ACK"} = {} ->
         <<Segment({"RST", "ACK"}, 0, seg.seq + seg.len, 0)>>
    [] OTHER -> <<Segment({"RST"}, seg.ack, 0, 0)>>

\* The connection that TCPConnection_hack forks off its listener for a SYN:
\* processSegmentInListen answers with SYN+ACK and starts both timers.
Forked(seg, iss) ==
  LET c == [NewConnection(FALSE, iss) EXCEPT
              !.fsm = "LISTEN", !.rcv = seg.seq + 1,
              !.timers = {"CONN-ESTAB", "SYN-REXMIT"}]
  IN performStateTransition([sendSynAck(Result(c)) EXCEPT !.event = "RCV_SYN"])

\* The answer to a SYN+ACK; the server sends no SYN of its own, so the
\* simultaneous open does not arise.
processSegmentInSynSent(c, seg) ==
  LET wrongAck == "ACK" \in seg.flags /\ (seg.ack <= c.iss \/ seg.ack > c.nxt)
      open == [c EXCEPT !.rcv = seg.seq + 1, !.una = seg.ack, !.cwnd = 1]
      sent == sendData(Result(open))
  IN CASE wrongAck -> sendRst(Result(c), seg.ack)
       [] ~wrongAck /\ {"RST", "ACK"} \subseteq seg.flags ->
            [sendIndicationToApp(Result(c), "CONNECTION_RESET")
               EXCEPT !.event = "RCV_RST"]
       [] ~wrongAck /\ {"SYN", "ACK"} \subseteq seg.flags ->
            [sendIndicationToApp(IF sent.segs = <<>> THEN sendAck(sent) ELSE sent,
                                 "ESTABLISHED") EXCEPT !.event = "RCV_SYN_ACK"]
       [] OTHER -> Result(c)

isSegmentAcceptable(c, seg) == seg.seq \in c.rcv .. c.rcv + Window - 1

\* Second check: the RST bit.
ResetBy(c) ==
  LET r == [Result(c) EXCEPT !.event = "RCV_RST"]
  IN CASE c.fsm \in {"ESTABLISHED", "FIN_WAIT_1", "FIN_WAIT_2", "CLOSE_WAIT"} ->
            sendIndicationToApp(r, "CONNECTION_RESET")
       [] c.fsm \in {"CLOSING", "LAST_ACK"} -> sendIndicationToApp(r, "CLOSED")
       [] OTHER -> r

\* An ACK for something that is outstanding; it may let more data out.
processAckInEstabEtc(r, ack) ==
  LET c == r.c
      acked == [c EXCEPT
        !.una = ack, !.nxt = max(@, ack), !.cwnd = @ + 1,
        !.finAcked = @ \/ (c.sendFin /\ ack = c.end + 1),
        !.rexmits = 0,
        !.timers = IF ack = c.max THEN @ \ {"REXMIT"} ELSE @ \cup {"REXMIT"}]
  IN IF ack <= c.una THEN r ELSE sendData([r EXCEPT !.c = acked])

\* Entering TIME_WAIT: the application hears CLOSED.
TimeWait(r, event) ==
  sendIndicationToApp([r EXCEPT !.event = event, !.c.timers = @ \cup {"2MSL"}],
                      "CLOSED")

\* rcv_nxt advances over the FIN, and PEER_CLOSED follows.
FinArrives(r) ==
  LET over == [r EXCEPT !.c.rcv = @ + 1, !.event = "RCV_FIN"]
      waits == CASE r.c.fsm = "FIN_WAIT_1" /\ r.c.finAcked ->
                      TimeWait(over, "RCV_FIN_ACK")
                 [] r.c.fsm = "FIN_WAIT_2" -> TimeWait(over, "RCV_FIN")
                 [] OTHER -> over
  IN sendIndicationToApp(waits, "PEER_CLOSED")

\* Fifth check, after the ACK itself: what an acknowledged FIN leads to.
FinAcknowledged(r) ==
  CASE r.c.fsm = "FIN_WAIT_1" /\ r.c.finAcked -> [r EXCEPT !.event = "RCV_ACK"]
    [] r.c.fsm = "CLOSING" /\ r.c.finAcked    -> TimeWait(r, "RCV_ACK")
    [] r.c.fsm = "TIME_WAIT"                  -> sendAck(r)
    [] OTHER                                  -> r

\* What the receive queue can hand out of the stream from .. to-1: the messages
\* that end there, in order.
MessagesEnding(ends, from, to) ==
  LET until[n \in from .. to] ==
        IF n = from THEN <<>>
        ELSE IF n - 1 \in ends THEN Append(until[n - 1], n - 1) ELSE until[n - 1]
  IN until[to]

\* Seventh: the segment text.  ends holds the sequence numbers at which the
\* messages of the peer's stream end: there they go to the application.
SegmentText(r, seg, ends) ==
  LET c == r.c
      stored == c.stored \cup {seg.seq}
      next == CHOOSE n \in c.rcv .. c.rcv + Cardinality(stored) :
                 n \notin stored /\ c.rcv .. n - 1 \subseteq stored
      whole == MessagesEnding(ends, c.rcv, next)
      taken == [r EXCEPT
        !.c.rcv = next,
        !.c.stored = {n \in stored : n >= next},
        !.inds = @ \o [i \in DOMAIN whole |-> [kind |-> "DATA", at |-> whole[i]]]]
  IN CASE seg.len = 0 \/ c.fsm \notin {"SYN_RCVD", "ESTABLISHED", "FIN_WAIT_1",
                                       "FIN_WAIT_2"} -> r
       [] OTHER -> IF next = c.rcv THEN sendAck([r EXCEPT !.c.stored = stored])
                   ELSE IF c.finSeq = next THEN FinArrives(taken)
                   ELSE taken

\* Eighth: the FIN bit; a FIN above sequence is remembered.
FinBit(r, seg) ==
  LET fin == seg.seq + seg.len
  IN CASE "FIN" \notin seg.flags -> r
       [] OTHER -> IF r.c.rcv = fin THEN FinArrives(r)
                   ELSE [r EXCEPT !.c.finSeq = fin]

\* Mutant: a deferred CLOSE is forgotten.
DeferredClose_Never(r, oldNxt) == r

\* A CLOSE that waited for the data in front of it: the FIN is out now.
DeferredClose(r, oldNxt) ==
  LET c == r.c
      out == c.sendFin /\ c.nxt = c.end + 1
  IN IF \/ c.fsm \in {"ESTABLISHED", "SYN_RCVD"} /\ out
        \/ c.fsm = "CLOSE_WAIT" /\ out /\ oldNxt # c.nxt
     THEN [r EXCEPT !.event = "CLOSE"] ELSE r

\* The fifth to eighth step for a segment that carries an ACK.
AckedSegment(c, seg, ends) ==
  LET r1 == IF c.fsm = "SYN_RCVD"
            THEN [sendIndicationToApp(Result([c EXCEPT !.cwnd = 1]), "ESTABLISHED")
                    EXCEPT !.event = "RCV_ACK"]
            ELSE Result(c)
      r2 == IF c.fsm \in {"LAST_ACK", "TIME_WAIT"} THEN r1
            ELSE processAckInEstabEtc(r1, seg.ack)
      r3 == FinAcknowledged(r2)
      r4 == FinBit(SegmentText(r3, seg, ends), seg)
      r5 == IF r4.c.rcv # c.rcv THEN sendAck(r4) ELSE r4
  IN DeferredClose(r5, c.nxt)

processSegment1stThru8th(c, seg, ends) ==
  CASE ~isSegmentAcceptable(c, seg) ->
         IF "RST" \in seg.flags THEN Result(c) ELSE sendAck(Result(c))
    [] OTHER ->
  CASE "RST" \in seg.flags -> ResetBy(c)
    [] "SYN" \in seg.flags ->
         [sendIndicationToApp(Result(c), "CONNECTION_RESET")
            EXCEPT !.event = "RCV_UNEXP_SYN"]
    [] "ACK" \notin seg.flags -> Result(c)
    [] OTHER ->
  CASE c.fsm = "SYN_RCVD" /\ seg.ack \notin c.una .. c.nxt ->
         sendRst(Result(c), seg.ack)
    [] c.fsm = "LAST_ACK" /\ seg.ack = c.end + 1 ->
         [sendIndicationToApp(Result(c), "CLOSED") EXCEPT !.event = "RCV_ACK"]
    [] c.fsm \notin {"SYN_RCVD", "LAST_ACK", "TIME_WAIT"} /\ seg.ack > c.max ->
         sendAck(Result(c))
    [] OTHER -> AckedSegment(c, seg, ends)

processTCPSegment(c, seg, ends) ==
  performStateTransition(IF c.fsm = "SYN_SENT" THEN processSegmentInSynSent(c, seg)
                         ELSE processSegment1stThru8th(c, seg, ends))

----------------------------------------------------------------------------
(* Commands of the application.                                            *)

process_OPEN_ACTIVE(c) ==
  performStateTransition(
    [sendSyn(Result([c EXCEPT !.timers = {"CONN-ESTAB", "SYN-REXMIT"}]))
       EXCEPT !.event = "OPEN_ACTIVE"])

process_SEND(c, len) ==
  LET queued == Result([c EXCEPT !.end = @ + len])
  IN CASE c.fsm \in {"SYN_SENT", "SYN_RCVD"}      -> queued
       [] c.fsm \in {"ESTABLISHED", "CLOSE_WAIT"} -> sendData(queued)
       [] OTHER                                   -> Refused(c)

\* The FIN goes out at once, or is left to DeferredClose behind queued data.
process_CLOSE(c) ==
  LET closing == [c EXCEPT !.sendFin = TRUE]
      finSent == [closing EXCEPT !.nxt = c.max + 1, !.max = @ + 1, !.rexmits = 0,
                                 !.timers = @ \cup {"REXMIT"}]
  IN CASE c.fsm = "SYN_SENT" ->
            performStateTransition([Result(c) EXCEPT !.event = "CLOSE"])
       [] c.fsm \in {"SYN_RCVD", "ESTABLISHED", "CLOSE_WAIT"} ->
            IF c.max = c.end
            THEN performStateTransition(
                   [Result(finSent) EXCEPT
                      !.segs = <<Segment({"FIN", "ACK"}, c.max, c.rcv, 0)>>,
                      !.event = "CLOSE"])
            ELSE Result(closing)
       [] OTHER -> Refused(c)

process_ABORT(c) ==
  LET r == [Result(c) EXCEPT !.event = "ABORT"]
  IN CASE c.fsm = "INIT" -> Refused(c)
       [] c.fsm \in {"SYN_RCVD", "ESTABLISHED", "FIN_WAIT_1", "FIN_WAIT_2",
                     "CLOSE_WAIT"} -> performStateTransition(sendRst(r, c.nxt))
       [] OTHER -> performStateTransition(r)

----------------------------------------------------------------------------
(* Timers.                                                                 *)

process_TIMEOUT_CONN_ESTAB(c) ==
  LET r == [Result(c) EXCEPT !.event = "TIMEOUT_CONN_ESTAB"]
  IN performStateTransition(IF c.active THEN sendIndicationToApp(r, "TIMED_OUT")
                            ELSE r)

process_TIMEOUT_2MSL(c) ==
  performStateTransition([Result(c) EXCEPT !.event = "TIMEOUT_2MSL"])

process_TIMEOUT_SYN_REXMIT(c) ==
  LET r == Result([c EXCEPT !.syns = @ + 1])
  IN CASE c.syns >= MaxSynRexmit ->
            performStateTransition([r EXCEPT !.event = "ABORT"])
       [] OTHER -> IF c.fsm = "SYN_SENT" THEN sendSyn(r) ELSE sendSynAck(r)

\* TCPReno: after the last attempt the connection goes without a segment.
processRexmitTimer(c) ==
  LET r == Result([c EXCEPT !.rexmits = @ + 1, !.cwnd = 1, !.afterRto = TRUE])
  IN IF c.rexmits >= MaxRexmit
     THEN performStateTransition([sendIndicationToApp(r, "TIMED_OUT")
                                    EXCEPT !.event = "ABORT"])
     ELSE retransmitOneSegment(r)

processTimer(c, timer) ==
  CASE timer = "CONN-ESTAB" -> process_TIMEOUT_CONN_ESTAB(c)
    [] timer = "SYN-REXMIT" -> process_TIMEOUT_SYN_REXMIT(c)
    [] timer = "2MSL"       -> process_TIMEOUT_2MSL(c)
    [] timer = "REXMIT"     -> processRexmitTimer(c)

============================================================================
