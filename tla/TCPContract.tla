---------------------------- MODULE TCPContract -----------------------------
(***************************************************************************)
(* What a connection promises to its TCP module: the types of connections, *)
(* segments and indications, and what a segment, a timer or a command      *)
(* makes of a connection.                                                  *)
(***************************************************************************)
EXTENDS TCPConnection

\* The states of a connection that a TCP module keeps.
Live == {"SYN_SENT"} \cup Opened

\* The states that a connection reaches only after its application closed it.
Closing == {"FIN_WAIT_1", "FIN_WAIT_2", "CLOSING", "LAST_ACK", "TIME_WAIT"}

Flag == {"SYN", "ACK", "FIN", "RST"}

TCPSegment == [flags : SUBSET Flag, seq : Int, ack : Int, len : Int]

Timer == {"CONN-ESTAB", "SYN-REXMIT", "REXMIT", "2MSL"}

Connection ==
  [fsm : Live \cup {"INIT", "LISTEN", "CLOSED"}, active : BOOLEAN,
   timers : SUBSET Timer, iss : Int, una : Int, nxt : Int, max : Int, end : Int,
   rcv : Int, stored : {S \in SUBSET Int : IsFiniteSet(S)},
   sendFin : BOOLEAN, finAcked : BOOLEAN, finSeq : Int, cwnd : Int,
   afterRto : BOOLEAN, rexmits : Int, syns : Int]

Kinds == {"ESTABLISHED", "DATA", "PEER_CLOSED", "CLOSED"} \cup Failures

Indication == [kind : Kinds, at : Int]

Event == {"IGNORE", "ERROR", "ABORT", "CLOSE", "OPEN_ACTIVE", "RCV_SYN",
          "RCV_SYN_ACK", "RCV_ACK", "RCV_FIN", "RCV_FIN_ACK", "RCV_RST",
          "RCV_UNEXP_SYN", "TIMEOUT_CONN_ESTAB", "TIMEOUT_2MSL"}

Outcome == [c : Connection, segs : Seq(TCPSegment), inds : Seq(Indication),
            event : Event]

\* Each indication of a connection has its reason.
ProperIndication(ind, c, stops) ==
  /\ ind.kind = "DATA" => ind.at \in stops /\ c.fsm # "SYN_SENT"
  /\ ind.kind = "CLOSED" => c.fsm \in Closing
  /\ ind.kind = "ESTABLISHED" => c.fsm \in {"SYN_SENT", "SYN_RCVD"}

Established == [kind |-> "ESTABLISHED", at |-> 0]

\* No indication of r says that the connection is open.
NoOpening(r) == \A i \in DOMAIN r.inds : r.inds[i].kind # "ESTABLISHED"

\* What a segment, a timer or a command other than CLOSE makes of a connection.
After(r, c, stops) ==
  /\ r \in Outcome
  /\ r.c.fsm \in Live \cup {"CLOSED"} /\ r.c.sendFin = c.sendFin
  /\ r.c.fsm \in {"SYN_SENT", "SYN_RCVD"} => r.c.fsm = c.fsm
  /\ r.c.fsm \in Closing => c.fsm \in Closing \/ c.sendFin
  /\ \A i \in DOMAIN r.inds : ProperIndication(r.inds[i], c, stops)
  /\ c.fsm = "SYN_SENT" =>
       \/ r.inds = <<>> /\ r.c.fsm \in {"SYN_SENT", "CLOSED"}
       \/ r.inds = <<Established>> /\ r.c.fsm = "ESTABLISHED"
       \/ /\ r.c.fsm = "CLOSED"
          /\ NoOpening(r)

-----------------------------------------------------------------------------
(* The promises.                                                           *)

SegmentPromise ==
  \A c \in Connection, seg \in TCPSegment : \A stops :
    c.fsm \in Live => After(processTCPSegment(c, seg, stops), c, stops)

TimerPromise ==
  \A c \in Connection, timer \in Timer : \A stops :
    c.fsm \in Live => After(processTimer(c, timer), c, stops)

\* A command other than CLOSE indicates nothing.
CommandPromise ==
  /\ \A c \in Connection, len \in Int : \A stops :
       c.fsm \in Live /\ process_SEND(c, len).event # "ERROR" =>
         After(process_SEND(c, len), c, stops) /\ process_SEND(c, len).inds = <<>>
  /\ \A c \in Connection : \A stops :
       c.fsm \in Live =>
         After(process_ABORT(c), c, stops) /\ process_ABORT(c).inds = <<>>

ClosePromise ==
  \A c \in Connection :
    LET r == process_CLOSE(c)
    IN  c.fsm \in Live /\ r.event # "ERROR" =>
          /\ r \in Outcome /\ r.inds = <<>>
          /\ r.c.fsm \in Live \cup {"CLOSED"}
          /\ r.c.fsm \in {"SYN_SENT", "SYN_RCVD"} => r.c.fsm = c.fsm

\* A new connection accepts the active open and no other command.
OpenPromise ==
  LET c == NewConnection(TRUE, 0)
      r == process_OPEN_ACTIVE(c)
  IN  /\ r \in Outcome /\ r.inds = <<>> /\ r.event # "ERROR"
      /\ r.c.fsm = "SYN_SENT" /\ r.c.sendFin = FALSE
      /\ \A len \in Int : process_SEND(c, len).event = "ERROR"
      /\ process_CLOSE(c).event = "ERROR"
      /\ process_ABORT(c).event = "ERROR"

\* What the listener makes of a segment: a worker, or an answer to a stray one.
ListenPromise ==
  /\ \A seg \in TCPSegment, iss \in Int :
       Forked(seg, iss) \in Outcome /\ Forked(seg, iss).c.fsm = "SYN_RCVD"
  /\ \A seg \in TCPSegment : segmentArrivalWhileClosed(seg) \in Seq(TCPSegment)

Contract ==
  SegmentPromise /\ TimerPromise /\ CommandPromise /\ ClosePromise
    /\ OpenPromise /\ ListenPromise

=============================================================================
