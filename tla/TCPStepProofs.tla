--------------------------- MODULE TCPStepProofs ---------------------------
(***************************************************************************)
(* The steps of the TCP modules and of the network of                      *)
(* GenericTCPApplication keep the invariant of TCPThreadProofs, if every   *)
(* connection keeps the promises of TCPContract.                           *)
(***************************************************************************)
EXTENDS TCPThreadProofs

\* No connection is not a connection.
LEMMA NotNone ==
  ASSUME NEW c \in Kept, c # None
  PROVE  c \in Connection /\ c.fsm \in Live
  BY DEF Kept

\* A connection that lives is one.
LEMMA LiveNotNone ==
  ASSUME NEW c, c.fsm \in Live
  PROVE  c # None
  BY DEF None, Live, Opened

\* The message of an indication.
Indicated(side, s, k, ind) ==
  [to |-> "app", side |-> side, s |-> s, k |-> k, kind |-> ind.kind, at |-> ind.at]

\* The connection of side for session s becomes that of the result r.
Becomes(side, s, r) ==
  /\ conn' \in [Sides -> [Sessions -> Kept]]
  /\ \A sd \in Sides, x \in Sessions :
       conn'[sd][x] = IF sd = side /\ x = s
                      THEN IF r.c.fsm = "CLOSED" THEN None ELSE r.c
                      ELSE conn[sd][x]

\* The worker of r becomes the connection of session s.
Forks(s, r) ==
  /\ conn' = [conn EXCEPT !["server"][s] = r.c]
  /\ forks' = [forks EXCEPT ![s] = @ + 1]
  /\ ends' = [ends EXCEPT ![s] = {}]
  /\ count' = count + 1

-----------------------------------------------------------------------------
\* A TCP module keeps the invariant when it carries out a command, when a segment
\* arrives or gets lost, and when a timer of a connection expires.
LEMMA TCPSteps ==
  ASSUME Contract, CardinalityFacts
  PROVE  /\ Inv /\ processAppCommand => Inv'
         /\ \A s \in Sessions :
              Inv /\ (SegmentToNobody(s) \/ processSegmentInListen(s)) => Inv'
         /\ \A side \in Sides, s \in Sessions :
              /\ Inv /\ (SegmentArrives(side, s) \/ TimerExpires(side, s)) => Inv'
              /\ Inv /\ Lose(side, s) => Inv'
(* What TCP makes of the result of a connection.                           *)

\* Results: the connections, the network and the queue afterwards.
<0>ResultsData.
  ASSUME DataInv, NEW side \in Sides, NEW s \in Sessions, NEW r \in Outcome,
         r.c.fsm \in Live \cup {"CLOSED"}, NEW q \in Seq(Message),
         NEW onTheWay \in [Sides -> [Sessions -> Seq(TCPSegment)]],
         forks' = forks, Results(side, s, r, q, onTheWay)
  PROVE  /\ Becomes(side, s, r)
         /\ net' \in [Sides -> [Sessions -> Seq(TCPSegment)]]
         /\ now' \in Seq(Message)
         /\ \A m \in Elems(now') :
              \/ m \in Elems(q)
              \/ \E i \in DOMAIN r.inds :
                   m = Indicated(side, s, IF side = "client" THEN 0 ELSE forks[s],
                                 r.inds[i])
         /\ r.inds = <<>> => now' = q
<1> USE <0>ResultsData
<1> DEFINE k == IF side = "client" THEN 0 ELSE forks[s]
           new == IF r.c.fsm = "CLOSED" THEN None ELSE r.c
           told == [i \in DOMAIN r.inds |-> Indicated(side, s, k, r.inds[i])]
<1>1. /\ r.c \in Connection /\ r.segs \in Seq(TCPSegment) /\ r.inds \in Seq(Indication)
  BY DEF Outcome
<1>2. new \in Kept
  BY <1>1 DEF Kept
<1>3. conn' = [conn EXCEPT ![side][s] = new]
  BY DEF Results
<1>4. conn \in [Sides -> [Sessions -> Kept]]
  BY DEF DataInv
<1>5. net' = [onTheWay EXCEPT ![Peer(side)][s] = onTheWay[Peer(side)][s] \o r.segs]
  BY DEF Results, sendToNet
<1>6. now' = q \o told
  BY DEF Results, Indicated
<1>7. k \in Nat
  BY DEF DataInv
<1>8. Peer(side) \in Sides
  BY DEF Peer, Sides
<1> HIDE DEF new
<1>9. /\ conn' \in [Sides -> [Sessions -> Kept]]
      /\ \A sd \in Sides, x \in Sessions :
           conn'[sd][x] = IF sd = side /\ x = s THEN new ELSE conn[sd][x]
  BY <1>2, <1>3, <1>4
<1>10. net' \in [Sides -> [Sessions -> Seq(TCPSegment)]]
  <2> DEFINE t == onTheWay[Peer(side)][s] \o r.segs
  <2>1. onTheWay[Peer(side)][s] \in Seq(TCPSegment)
    BY <1>8
  <2>2. t \in Seq(TCPSegment)
    BY <1>1, <2>1
  <2> HIDE DEF t
  <2> QED
    BY <1>5, <1>8, <2>2 DEF t
<1>11. told \in Seq(Message) /\ DOMAIN told = DOMAIN r.inds
  <2>1. DOMAIN r.inds = 1 .. Len(r.inds) /\ Len(r.inds) \in Nat
    BY <1>1
  <2>2. \A i \in 1 .. Len(r.inds) : r.inds[i] \in Indication
    BY <1>1
  <2> HIDE DEF k
  <2>3. \A i \in 1 .. Len(r.inds) : Indicated(side, s, k, r.inds[i]) \in Message
    <3> SUFFICES ASSUME NEW i \in 1 .. Len(r.inds)
                 PROVE  Indicated(side, s, k, r.inds[i]) \in Message
      OBVIOUS
    <3>1. r.inds[i].kind \in Kinds /\ r.inds[i].at \in Int
      BY <2>2 DEF Indication
    <3> QED
      BY <1>7, <3>1 DEF Indicated, Message
  <2> QED
    BY <2>1, <2>3
<1>12. \A m \in Elems(told) : \E i \in DOMAIN r.inds : m = Indicated(side, s, k, r.inds[i])
  BY Zenon, <1>11 DEF Elems
<1>13. r.inds = <<>> => told = <<>>
  <2>1. r.inds = <<>> => DOMAIN told = {}
    BY <1>11
  <2> QED
    BY <1>11, <2>1
<1> HIDE DEF told, k
<1>14. now' \in Seq(Message) /\ Elems(now') \subseteq Elems(q) \cup Elems(told)
  BY <1>6, <1>11, ElemsOfConcat
<1>15. r.inds = <<>> => now' = q
  BY <1>6, <1>13
<1> QED
  BY <1>9, <1>10, <1>12, <1>14, <1>15 DEF new, k, Becomes

\* Results: currentConnectionCount follows the worker that ends.
<0>ResultsCount.
  ASSUME DataInv, CountInv, NEW side \in Sides, NEW s \in Sessions, NEW r,
         NEW q, NEW onTheWay, Results(side, s, r, q, onTheWay),
         Becomes(side, s, r),
         side = "server" => conn["server"][s] # None,
         r.c.fsm \in Live \cup {"CLOSED"}
  PROVE  /\ count' = Cardinality({x \in Sessions : conn'["server"][x] # None})
         /\ count' <= MaxConnections
<1> USE <0>ResultsCount
<1> DEFINE W == {x \in Sessions : conn["server"][x] # None}
           V == {x \in Sessions : conn'["server"][x] # None}
<1>0. "server" \in Sides
  BY DEF Sides
<1>1. IsFiniteSet(W) /\ count = Cardinality(W) /\ count <= MaxConnections
  BY ApplicationAssumption DEF CountInv, CardinalityFacts
<1>2. CASE side = "server" /\ r.c.fsm = "CLOSED"
  <2>1. V = W \ {s} /\ s \in W
    BY <1>0, <1>2 DEF Becomes
  <2>2. count' = IF count <= 0 THEN count ELSE count - 1
    BY <1>2 DEF Results, canceledHalfOpenConnection
  <2> HIDE DEF V, W
  <2>3. IsFiniteSet(V) /\ Cardinality(V) = Cardinality(W) - 1
    BY <1>1, <2>1 DEF CardinalityFacts
  <2>4. Cardinality(V) \in Nat /\ Cardinality(W) \in Nat
    BY <1>1, <2>3 DEF CardinalityFacts
  <2>5. count' = Cardinality(V) /\ count' <= MaxConnections
    BY <1>1, <2>2, <2>3, <2>4, ApplicationAssumption
  <2> QED
    BY <2>5 DEF V
<1>3. CASE ~(side = "server" /\ r.c.fsm = "CLOSED")
  <2>1. r.c.fsm \in Live => r.c # None
    BY LiveNotNone
  <2>2. V = W
    BY <1>0, <1>3, <2>1 DEF Becomes
  <2>3. count' = count
    BY <1>3 DEF Results
  <2> QED
    BY <1>1, <2>2, <2>3
<1> QED
  BY <1>2, <1>3

\* An event of a connection: a segment or a timer.
<0>ConnectionEvent.
  ASSUME Inv, Quiet, NEW side \in Sides, NEW s \in Sessions, conn[side][s] # None,
         NEW r, After(r, conn[side][s], MessageEnds(side, s)),
         NEW onTheWay \in [Sides -> [Sessions -> Seq(TCPSegment)]],
         forks' = forks, Results(side, s, r, <<>>, onTheWay),
         UNCHANGED <<app, requests, ends, lost>>, gaveUp' \subseteq Sessions
  PROVE  Inv'
<1> USE <0>ConnectionEvent
<1> DEFINE c == conn[side][s]
           k == IF side = "client" THEN 0 ELSE forks[s]
           stops == MessageEnds(side, s)
<1> USE DEF Inv
<1>1. c \in Connection /\ c.fsm \in Live
  BY NotNone DEF DataInv
<1>2. /\ r \in Outcome /\ r.c.fsm \in Live \cup {"CLOSED"}
      /\ r.c.fsm \in {"SYN_SENT", "SYN_RCVD"} => r.c.fsm = c.fsm
      /\ r.c.sendFin = c.sendFin
      /\ r.c.fsm \in Closing => c.fsm \in Closing \/ c.sendFin
      /\ \A i \in DOMAIN r.inds : ProperIndication(r.inds[i], c, stops)
      /\ c.fsm = "SYN_SENT" =>
           \/ r.inds = <<>> /\ r.c.fsm \in {"SYN_SENT", "CLOSED"}
           \/ r.inds = <<Established>> /\ r.c.fsm = "ESTABLISHED"
           \/ /\ r.c.fsm = "CLOSED"
              /\ NoOpening(r)
  BY DEF After
<1>3. <<>> \in Seq(Message) /\ Elems(<<>>) = {}
  BY DEF Elems
<1>4. /\ Becomes(side, s, r)
      /\ net' \in [Sides -> [Sessions -> Seq(TCPSegment)]]
      /\ now' \in Seq(Message)
      /\ \A m \in Elems(now') : \E i \in DOMAIN r.inds :
            m = Indicated(side, s, k, r.inds[i])
      /\ r.inds = <<>> => now' = <<>>
  <2> HIDE DEF Inv
  <2>1. DataInv
    BY DEF Inv
  <2> DEFINE q == <<>>
  <2>2. q \in Seq(Message) /\ Elems(q) = {} /\ Results(side, s, r, q, onTheWay)
    BY <1>3
  <2> HIDE DEF q
  <2>3. /\ Becomes(side, s, r)
        /\ net' \in [Sides -> [Sessions -> Seq(TCPSegment)]]
        /\ now' \in Seq(Message)
        /\ \A m \in Elems(now') :
             \/ m \in Elems(q)
             \/ \E i \in DOMAIN r.inds : m = Indicated(side, s, k, r.inds[i])
        /\ r.inds = <<>> => now' = q
    BY Zenon, <1>2, <2>1, <2>2, <0>ResultsData
  <2> QED
    BY Zenon, <2>2, <2>3 DEF q
<1> HIDE DEF Inv
<1>5. CountInv'
  <2> DEFINE q == <<>>
  <2>1. Results(side, s, r, q, onTheWay)
    OBVIOUS
  <2>2. DataInv /\ CountInv /\ (side = "server" => conn["server"][s] # None)
    BY DEF Inv
  <2>3. r.c.fsm \in Live \cup {"CLOSED"}
    BY <1>2
  <2>4. /\ Becomes(side, s, r)
    BY <1>4
  <2> HIDE DEF q, c, k, stops
  <2>5. /\ count' = Cardinality({x \in Sessions : conn'["server"][x] # None})
        /\ count' <= MaxConnections
    BY Zenon, <2>1, <2>2, <2>3, <2>4, <0>ResultsCount
  <2> QED
    BY <2>5 DEF CountInv
<1>6. ThreadInv'
  BY DEF Inv, ThreadInv, app
<1>7. /\ client' = client /\ requests' = requests /\ ends' = ends
      /\ lost' = lost /\ threads' = threads /\ now = <<>>
  BY DEF app, Quiet
<1>8. \A m \in Elems(now') :
         /\ m.to = "app" /\ m.side = side /\ m.s = s /\ m.k = k /\ m.kind \in Kinds
         /\ \E i \in DOMAIN r.inds : /\ m = Indicated(side, s, k, r.inds[i])
                                     /\ m.kind = r.inds[i].kind /\ m.at = r.inds[i].at
  <2>1. \A i \in DOMAIN r.inds : r.inds[i] \in Indication
    <3>1. r.inds \in Seq(Indication)
      BY <1>2 DEF Outcome
    <3> QED
      BY <3>1
  <2>2. \A i \in DOMAIN r.inds : r.inds[i].kind \in Kinds
    BY <2>1 DEF Indication
  <2> HIDE DEF c, k, stops
  <2> SUFFICES ASSUME NEW m \in Elems(now')
               PROVE  /\ m.to = "app" /\ m.side = side /\ m.s = s /\ m.k = k
                      /\ m.kind \in Kinds
                      /\ \E i \in DOMAIN r.inds : /\ m = Indicated(side, s, k, r.inds[i])
                                                  /\ m.kind = r.inds[i].kind
                                                  /\ m.at = r.inds[i].at
    OBVIOUS
  <2>3. PICK i \in DOMAIN r.inds : m = Indicated(side, s, k, r.inds[i])
    BY <1>4
  <2>4. /\ m.to = "app" /\ m.side = side /\ m.s = s /\ m.k = k
        /\ m.kind = r.inds[i].kind /\ m.at = r.inds[i].at
    BY <2>3 DEF Indicated
  <2> QED
    BY <2>2, <2>3, <2>4
<1>9. \A m \in Elems(now') : /\ m.kind = "DATA" => m.at \in stops /\ c.fsm # "SYN_SENT"
                             /\ m.kind = "CLOSED" => c.fsm \in Closing
                             /\ m.kind = "ESTABLISHED" => c.fsm \in {"SYN_SENT", "SYN_RCVD"}
  <2> HIDE DEF c, k, stops
  <2> QED
    BY <1>2, <1>8 DEF ProperIndication
<1>10. side = "server" => k \in 1 .. forks[s] /\ stops = DOMAIN requests[s]
  <2>1. side = "server" => forks[s] \in Nat /\ forks[s] >= 1
    BY Zenon DEF Inv, DataInv
  <2> QED
    BY <2>1 DEF MessageEnds
<1>11. DataInv'
  <2>1. \A m \in Elems(now') : ProperMessage(m, forks', requests')
    <3> HIDE DEF c, k, stops
    <3>1. \A m \in Elems(now') : /\ m.kind \in Kinds => m.kind \notin {"ABORT", "OPEN_ACTIVE"}
      BY DEF Kinds, Failures
    <3> QED
      BY <1>7, <1>8, <1>9, <1>10, <3>1 DEF ProperMessage
  <2>2. \A x \in Sessions :
          /\ conn'["client"][x] # None => conn'["client"][x].fsm # "SYN_RCVD"
          /\ conn'["server"][x] # None => forks'[x] >= 1
    <3>1. \A x \in Sessions :
            /\ conn["client"][x] # None => conn["client"][x].fsm # "SYN_RCVD"
            /\ conn["server"][x] # None => forks[x] >= 1
      BY DEF Inv, DataInv
    <3> QED
      BY ZenonT(30), <1>2, <1>4, <3>1 DEF Sides, Becomes
  <2>3. /\ client \in [Sessions -> ClientThread] /\ forks \in [Sessions -> Nat]
        /\ requests \in [Sessions -> Seq(Request)] /\ ends \in [Sessions -> SUBSET Int]
        /\ lost \in 0 .. MaxLost
    BY DEF Inv, DataInv
  <2> QED
    BY Zenon, <1>4, <1>7, <2>1, <2>2, <2>3 DEF DataInv, Becomes
<1>12. CASE side = "server"
  <2>1. \A x \in Sessions : conn'["client"][x] = conn["client"][x]
    BY <1>4, <1>12 DEF Sides, Becomes
  <2>2. \A x \in Sessions : /\ ThreadState(client[x])
                            /\ Reflects(x, client[x], conn["client"][x], <<>>)
    BY <1>7 DEF Inv, SessionInv
  <2>3. \A x \in Sessions : Reflects(x, client[x], conn["client"][x], now')
    <3>1. \A x : <<>> # <<Opening(x)>>
      BY Zenon
    <3> QED
      BY <2>2, <3>1 DEF Reflects
  <2>4. \A m \in Elems(now') : /\ Told(m, client'[m.s], conn'["client"][m.s])
                               /\ Alone(m, now')
    BY Zenon, <1>8, <1>12 DEF Told, Alone
  <2>5. SessionInv'
    BY Zenon, <1>7, <2>1, <2>2, <2>3, <2>4 DEF SessionInv
  <2> QED
    BY <1>5, <1>6, <1>11, <2>5 DEF Inv
<1>13. CASE side = "client"
  <2> DEFINE t == client[s]
             d == IF r.c.fsm = "CLOSED" THEN None ELSE r.c
  <2>1. /\ \A x \in Sessions : x # s => conn'["client"][x] = conn["client"][x]
        /\ conn'["client"][s] = d
    BY <1>4, <1>13 DEF Sides, Becomes
  <2>2. \A x \in Sessions : /\ ThreadState(client[x])
                            /\ Reflects(x, client[x], conn["client"][x], <<>>)
    BY <1>7 DEF Inv, SessionInv
  <2>3. \A x : <<>> # <<Opening(x)>>
    OBVIOUS
  <2>4. /\ Reflects(s, t, c, <<>>) /\ c # None /\ c.fsm # "SYN_RCVD"
    BY <1>13, <2>2 DEF Inv, DataInv
  <2>5. \A x \in Sessions : x # s => Reflects(x, client[x], conn'["client"][x], now')
    BY Zenon, <2>1, <2>2, <2>3 DEF Reflects
  <2>6. r.inds = <<Established>> => now' = <<Opening(s)>>
    <3> SUFFICES ASSUME r.inds = <<Established>> PROVE now' = <<Opening(s)>>
      OBVIOUS
    <3>1. now' = <<>> \o [i \in DOMAIN r.inds |-> Indicated(side, s, k, r.inds[i])]
      BY DEF Results, Indicated
    <3>2. DOMAIN r.inds = {1} /\ r.inds[1] = Established
      OBVIOUS
    <3>3. k = 0 /\ Indicated(side, s, k, Established) = Opening(s)
      BY <1>13 DEF Indicated, Established, Opening
    <3> DEFINE told == [i \in DOMAIN r.inds |-> Indicated(side, s, k, r.inds[i])]
    <3>4. told = <<Opening(s)>>
      <4> DEFINE o == Opening(s)
      <4>1. told = [i \in {1} |-> o]
        BY <3>2, <3>3
      <4> HIDE DEF told, o
      <4>2. told = <<o>>
        BY <4>1
      <4> QED
        BY <4>2 DEF o
    <3> HIDE DEF told
    <3> QED
      BY <3>1, <3>4 DEF told
  <2> HIDE DEF c, k, stops
  <2>7. /\ c.sendFin \/ c.fsm \in Closing => MayClose(t)
        /\ c.fsm = "SYN_SENT" => t.state = "WAITING" /\ ~t.timer
        /\ c.fsm # "SYN_SENT" => t.state \notin {"IDLE", "WAITING"}
        /\ ~(t.state = "WAITING" /\ t.timer)
    BY <2>3, <2>4 DEF Reflects
  <2> HIDE DEF t
  <2>8. Reflects(s, t, d, now')
    <3>1. CASE r.c.fsm = "CLOSED"
      BY <2>7, <3>1 DEF Reflects
    <3>2. CASE r.c.fsm # "CLOSED"
      <4>1. d = r.c /\ (r.c.sendFin \/ r.c.fsm \in Closing => MayClose(t))
        BY Zenon, <1>2, <2>7, <3>2
      <4>2. r.c.fsm = "SYN_SENT" => t.state = "WAITING" /\ ~t.timer
        BY Zenon, <1>2, <2>7
      <4>3. r.c.fsm # "SYN_SENT" =>
              t.state \notin {"IDLE", "WAITING"} \/ now' = <<Opening(s)>>
        BY Zenon, <1>2, <2>6, <2>7, <3>2
      <4> QED
        BY Zenon, <2>7, <4>1, <4>2, <4>3 DEF Reflects
    <3> QED
      BY <3>1, <3>2
  <2>9. \A m \in Elems(now') : Told(m, t, d) /\ Alone(m, now')
    <3> SUFFICES ASSUME NEW m \in Elems(now') PROVE Told(m, t, d) /\ Alone(m, now')
      OBVIOUS
    <3>0. m.kind # "CLOSE" /\ m.kind # "OPEN_ACTIVE" /\ r.inds # <<>>
      <4>1. m.kind \in Kinds
        BY <1>8
      <4> QED
        BY <1>8, <4>1 DEF Kinds, Failures
    <3>1. m.kind = "CLOSED" => MayClose(t)
      BY <1>9, <2>7
    <3>2. m.kind = "DATA" => t.state \notin {"IDLE", "WAITING"}
      BY Zenon, <1>9, <2>7
    <3>3. m.kind \in Failures => ~(d # None /\ d.fsm = "SYN_SENT")
      <4> SUFFICES ASSUME d # None, d.fsm = "SYN_SENT", m.kind \in Failures PROVE FALSE
        BY Zenon
      <4>1. r.c.fsm = "SYN_SENT" /\ c.fsm = "SYN_SENT"
        BY Zenon, <1>2
      <4> QED
        BY <1>2, <3>0, <4>1
    <3>4. m.kind = "ESTABLISHED" =>
            /\ t.state = "WAITING" /\ ~t.timer
            /\ d # None /\ d.fsm = "ESTABLISHED" /\ ~d.sendFin
            /\ now' = <<m>>
      <4> SUFFICES ASSUME m.kind = "ESTABLISHED"
                   PROVE  /\ t.state = "WAITING" /\ ~t.timer
                          /\ d # None /\ d.fsm = "ESTABLISHED" /\ ~d.sendFin
                          /\ now' = <<m>>
        OBVIOUS
      <4>1. c.fsm = "SYN_SENT"
        BY <1>9, <2>4
      <4>2. ~MayClose(t) /\ t.state = "WAITING" /\ ~t.timer
        BY Zenon, <2>7, <4>1 DEF MayClose
      <4>3. r.inds = <<Established>> /\ r.c.fsm = "ESTABLISHED"
        BY <1>2, <1>8, <3>0, <4>1 DEF NoOpening
      <4>4. now' = <<Opening(s)>> /\ m = Opening(s)
        <5>1. now' = <<Opening(s)>>
          BY <2>6, <4>3
        <5> QED
          BY <5>1 DEF Elems
      <4>5. d # None
        BY Zenon, <4>3, LiveNotNone DEF Live, Opened
      <4>6. d.fsm = "ESTABLISHED" /\ ~d.sendFin
        BY SMTT(30), <1>2, <2>7, <4>2, <4>3
      <4> QED
        BY Zenon, <4>2, <4>4, <4>5, <4>6
    <3> QED
      BY Zenon, <3>0, <3>1, <3>2, <3>3, <3>4 DEF Told, Alone
  <2>10. SessionInv'
    <3>1. client' = client
      BY <1>7
    <3>2. \A x \in Sessions : /\ ThreadState(client[x])
                              /\ Reflects(x, client[x], conn'["client"][x], now')
      BY ZenonT(30), <2>1, <2>2, <2>5, <2>8 DEF t
    <3>3. \A m \in Elems(now') : m.s = s
      BY <1>8
    <3>4. \A m \in Elems(now') : /\ Told(m, client[m.s], conn'["client"][m.s])
                                 /\ Alone(m, now')
      BY ZenonT(30), <2>1, <2>9, <3>3 DEF t
    <3> QED
      BY Zenon, <3>1, <3>2, <3>4 DEF SessionInv
  <2> QED
    BY <1>5, <1>6, <1>11, <2>10 DEF Inv
<1> QED
  BY <1>12, <1>13 DEF Sides

(* Commands.                                                               *)

\* A command that TCP carries out: it leads to no indication.
<0>CommandStep.
  ASSUME Inv, now # <<>>, Head(now).to = "tcp",
         NEW side \in Sides, NEW s \in Sessions, NEW r \in Outcome,
         r.inds = <<>>, r.c.fsm \in Live \cup {"CLOSED"},
         side = "server" => conn["server"][s] # None,
         side = "client" =>
           /\ r.c.fsm # "SYN_RCVD"
           /\ Reflects(s, client[s], IF r.c.fsm = "CLOSED" THEN None ELSE r.c, Tail(now))
           /\ r.c.fsm = "SYN_SENT" =>
                \/ Tail(now) = <<>>
                \/ conn["client"][s] # None /\ conn["client"][s].fsm = "SYN_SENT",
         forks' = forks, Results(side, s, r, Tail(now), net),
         UNCHANGED <<app, requests, lost, gaveUp>>,
         ends' \in [Sessions -> SUBSET Int]
  PROVE  Inv'
<1> USE <0>CommandStep
<1> DEFINE q == Tail(now)
           d == IF r.c.fsm = "CLOSED" THEN None ELSE r.c
<1>0. /\ DataInv /\ ThreadInv /\ CountInv /\ SessionInv
  BY Zenon DEF Inv
<1>1. q \in Seq(Message) /\ Elems(q) \subseteq Elems(now)
  BY <1>0, ElemsOfTail DEF DataInv
<1>2. /\ client' = client /\ requests' = requests /\ threads' = threads
      /\ lost' = lost /\ gaveUp' = gaveUp
  BY Zenon DEF app
<1>3. net \in [Sides -> [Sessions -> Seq(TCPSegment)]]
  BY <1>0 DEF DataInv
<1>4. Results(side, s, r, q, net)
  BY Zenon
<1> HIDE DEF q
<1>5. /\ Becomes(side, s, r)
      /\ net' \in [Sides -> [Sessions -> Seq(TCPSegment)]]
      /\ now' = q
  BY Zenon, <1>0, <1>1, <1>3, <1>4, <0>ResultsData
<1>6. CountInv'
  <2>1. /\ count' = Cardinality({x \in Sessions : conn'["server"][x] # None})
        /\ count' <= MaxConnections
    BY Zenon, <1>0, <1>4, <1>5, <0>ResultsCount
  <2> QED
    BY <2>1 DEF CountInv
<1>7. ThreadInv'
  BY <1>0, <1>2 DEF ThreadInv
<1>8. DataInv'
  <2>1. \A m \in Elems(now') : ProperMessage(m, forks', requests')
    BY Zenon, <1>0, <1>1, <1>2, <1>5 DEF DataInv
  <2>2. \A x \in Sessions :
          /\ conn'["client"][x] # None => conn'["client"][x].fsm # "SYN_RCVD"
          /\ conn'["server"][x] # None => forks'[x] >= 1
    <3>1. \A x \in Sessions :
            /\ conn["client"][x] # None => conn["client"][x].fsm # "SYN_RCVD"
            /\ conn["server"][x] # None => forks[x] >= 1
      BY Zenon, <1>0 DEF DataInv
    <3> QED
      BY ZenonT(30), <1>5, <3>1 DEF Sides, Becomes
  <2>3. /\ client \in [Sessions -> ClientThread] /\ forks \in [Sessions -> Nat]
        /\ requests \in [Sessions -> Seq(Request)] /\ gaveUp \subseteq Sessions
        /\ lost \in 0 .. MaxLost
    BY Zenon, <1>0 DEF DataInv
  <2> QED
    BY Zenon, <1>1, <1>2, <1>5, <2>1, <2>2, <2>3 DEF DataInv, Becomes
<1>9. \A x \in Sessions : now # <<Opening(x)>>
  <2>1. \A x \in Sessions : now = <<Opening(x)>> => Head(now) = Opening(x)
    OBVIOUS
  <2>2. \A x \in Sessions : Opening(x).to # "tcp"
    BY Zenon DEF Opening
  <2> QED
    BY Zenon, <2>1, <2>2
<1>10. \A x \in Sessions : /\ ThreadState(client[x])
                           /\ Reflects(x, client[x], conn["client"][x], q)
  <2>1. \A x \in Sessions : /\ ThreadState(client[x])
                            /\ Reflects(x, client[x], conn["client"][x], now)
    BY <1>0 DEF SessionInv
  <2> QED
    BY Zenon, <1>9, <2>1, ReflectsAlways
<1>11. \A m \in Elems(q) : /\ m \in Message
                           /\ Told(m, client[m.s], conn["client"][m.s])
                           /\ ~(m.side = "client" /\ m.kind \in {"OPEN_ACTIVE", "ESTABLISHED"})
  BY Zenon, <1>0, <1>1, Behind DEF SessionInv, q
<1>12. \A x \in Sessions : \/ conn'["client"][x] = conn["client"][x]
                           \/ side = "client" /\ x = s /\ conn'["client"][x] = d
  BY Zenon, <1>5 DEF Becomes, Sides
<1>13. side = "client" => Reflects(s, client[s], d, q)
  BY Zenon DEF q
<1>14. side = "client" /\ d # None /\ d.fsm = "SYN_SENT" =>
         \/ q = <<>>
         \/ conn["client"][s] # None /\ conn["client"][s].fsm = "SYN_SENT"
  BY Zenon DEF q
<1> HIDE DEF d
<1>15. \A x \in Sessions : Reflects(x, client[x], conn'["client"][x], q)
  BY <1>10, <1>12, <1>13
<1>16. \A m \in Elems(q) : Told(m, client[m.s], conn'["client"][m.s]) /\ Alone(m, q)
  <2> SUFFICES ASSUME NEW m \in Elems(q)
               PROVE  Told(m, client[m.s], conn'["client"][m.s]) /\ Alone(m, q)
    BY Zenon
  <2>1. m.s \in Sessions /\ q # <<>>
    BY SMTT(30), <1>11 DEF Message, Elems
  <2>2. CASE conn'["client"][m.s] = conn["client"][m.s]
    BY <1>11, <2>2 DEF Alone
  <2>3. CASE side = "client" /\ m.s = s /\ conn'["client"][m.s] = d
    BY Zenon, <1>11, <1>14, <2>1, <2>3 DEF Told, Alone
  <2> QED
    BY ZenonT(30), <1>12, <2>1, <2>2, <2>3
<1>17. SessionInv'
  BY ZenonT(30), <1>2, <1>5, <1>10, <1>15, <1>16 DEF SessionInv
<1> QED
  BY Zenon, <1>6, <1>7, <1>8, <1>17 DEF Inv

(* The steps of the TCP modules.                                           *)

\* What a client reflects of its connection after a command other than OPEN.
<0>ReflectsCommand.
  ASSUME NEW s, NEW t, NEW c \in Connection, c.fsm \in Live, NEW q, NEW p, NEW r,
         Reflects(s, t, c, q), q # <<Opening(s)>>, r.inds = <<>>,
         \/ \E stops : After(r, c, stops)
         \/ MayClose(t) /\ (r.c.fsm \in {"SYN_SENT", "SYN_RCVD"} => r.c.fsm = c.fsm)
  PROVE  Reflects(s, t, IF r.c.fsm = "CLOSED" THEN None ELSE r.c, p)
<1> USE <0>ReflectsCommand
<1>0. c # None
  BY LiveNotNone
<1>1. /\ c.sendFin \/ c.fsm \in Closing => MayClose(t)
      /\ c.fsm = "SYN_SENT" => t.state = "WAITING" /\ ~t.timer
      /\ c.fsm # "SYN_SENT" => t.state \notin {"IDLE", "WAITING"}
      /\ ~(t.state = "WAITING" /\ t.timer)
  BY Zenon, <1>0 DEF Reflects
<1>2. CASE r.c.fsm = "CLOSED"
  BY Zenon, <1>1, <1>2 DEF Reflects
<1>3. CASE r.c.fsm # "CLOSED" /\ \E stops : After(r, c, stops)
  <2>1. PICK stops : After(r, c, stops)
    BY Zenon, <1>3
  <2>2. /\ r.c.sendFin = c.sendFin /\ (r.c.fsm \in Closing => c.fsm \in Closing \/ c.sendFin)
        /\ r.c.fsm = "SYN_SENT" => c.fsm = "SYN_SENT"
        /\ c.fsm = "SYN_SENT" => r.c.fsm = "SYN_SENT"
    <3>1. r.inds # <<Established>>
      BY SMTT(30)
    <3> QED
      BY <1>3, <2>1, <3>1 DEF After
  <2> QED
    BY Zenon, <1>1, <1>3, <2>2 DEF Reflects
<1>4. CASE /\ r.c.fsm # "CLOSED" /\ MayClose(t)
           /\ r.c.fsm \in {"SYN_SENT", "SYN_RCVD"} => r.c.fsm = c.fsm
  <2>1. t.state \notin {"IDLE", "WAITING"}
    BY <1>4 DEF MayClose
  <2> QED
    BY <1>1, <1>4, <2>1 DEF Reflects
<1> QED
  BY <1>2, <1>3, <1>4

\* processAppCommand, when TCP carries the command out on connection c.
<0>CommandCarriedOut.
  ASSUME Inv, now # <<>>, NEW m, m = Head(now), m.to = "tcp", NEW r \in Outcome,
         r.inds = <<>>, r.c.fsm \in Live \cup {"CLOSED"}, Known(m),
         r.c.fsm \in {"SYN_SENT", "SYN_RCVD"} => r.c.fsm = conn[m.side][m.s].fsm,
         \/ \E stops : After(r, conn[m.side][m.s], stops)
         \/ m.kind = "CLOSE",
         forks' = forks, Results(m.side, m.s, r, Tail(now), net),
         ends' = IF m.side = "server" /\ m.kind = "SEND"
                 THEN [ends EXCEPT ![m.s] = @ \cup {r.c.end - 1}] ELSE ends,
         UNCHANGED <<app, requests, lost, gaveUp>>
  PROVE  Inv'
<1> USE <0>CommandCarriedOut
<1> DEFINE side == m.side
           s == m.s
           c == conn[side][s]
           d == IF r.c.fsm = "CLOSED" THEN None ELSE r.c
<1>0. DataInv /\ SessionInv
  BY SMTT(30) DEF Inv
<1>1. m \in Message /\ Told(m, client[m.s], conn["client"][m.s])
  BY ZenonT(30), <1>0, First
<1>2. side \in Sides /\ s \in Sessions
  BY ZenonT(30), <1>1 DEF Message
<1>3. c # None
  BY DEF Known
<1>4. c \in Connection /\ c.fsm \in Live
  BY Zenon, <1>0, <1>2, <1>3, NotNone DEF DataInv
<1>5. ends' \in [Sessions -> SUBSET Int]
  <2>1. r.c.end - 1 \in Int
    BY SMTT(30) DEF Outcome, Connection
  <2>2. ends \in [Sessions -> SUBSET Int]
    BY Zenon, <1>0 DEF DataInv
  <2> QED
    BY ZenonT(30), <1>2, <2>1, <2>2
<1>6. side = "client" =>
        /\ r.c.fsm # "SYN_RCVD"
        /\ Reflects(s, client[s], d, Tail(now))
        /\ r.c.fsm = "SYN_SENT" => conn["client"][s].fsm = "SYN_SENT"
  <2> SUFFICES ASSUME side = "client"
               PROVE  /\ r.c.fsm # "SYN_RCVD"
                      /\ Reflects(s, client[s], d, Tail(now))
                      /\ r.c.fsm = "SYN_SENT" => conn["client"][s].fsm = "SYN_SENT"
    BY ZenonT(30)
  <2>1. c = conn["client"][s]
    OBVIOUS
  <2>2. c.fsm # "SYN_RCVD" /\ Reflects(s, client[s], c, now)
    BY ZenonT(30), <1>0, <1>2, <1>3 DEF DataInv, SessionInv
  <2>3. now # <<Opening(s)>>
    <3>1. \A o : now = <<o>> => Head(now) = o
      BY SMTT(30)
    <3>2. Opening(s).to = "app"
      BY DEF Opening
    <3> HIDE DEF s
    <3> QED
      BY Zenon, <3>1, <3>2
  <2>4. m.kind = "CLOSE" => MayClose(client[s])
    BY Zenon, <1>1 DEF Told
  <2>5. \/ \E stops : After(r, c, stops)
        \/ /\ MayClose(client[s])
           /\ r.c.fsm \in {"SYN_SENT", "SYN_RCVD"} => r.c.fsm = c.fsm
    BY Zenon, <2>4
  <2> DEFINE t == client[s]
             p == Tail(now)
  <2> HIDE DEF c, s, side, d, p, t
  <2>6. Reflects(s, t, IF r.c.fsm = "CLOSED" THEN None ELSE r.c, p)
    BY ZenonT(30), <1>4, <2>2, <2>3, <2>5, <0>ReflectsCommand DEF t
  <2> QED
    BY Zenon, <2>1, <2>2, <2>6 DEF c, side, s, d, t, p
<1>7. side = "server" => conn["server"][s] # None
  BY Zenon, <1>3
<1>8. Results(side, s, r, Tail(now), net) /\ Head(now).to = "tcp"
  BY Zenon
<1>9. side = "client" => conn["client"][s] # None
  BY <1>3
<1> HIDE DEF side, s
<1> QED
  BY ZenonT(30), <1>2, <1>5, <1>6, <1>7, <1>8, <1>9, <0>CommandStep

(* Segments and timers.                                                    *)

\* The network without the next segment of side for session s.
<0>TakenType.
  ASSUME DataInv, NEW side \in Sides, NEW s \in Sessions, net[side][s] # <<>>
  PROVE  /\ Head(net[side][s]) \in TCPSegment
         /\ Taken(side, s) \in [Sides -> [Sessions -> Seq(TCPSegment)]]
<1> USE <0>TakenType
<1> DEFINE q == net[side][s]
           t == Tail(q)
<1>1. net \in [Sides -> [Sessions -> Seq(TCPSegment)]]
  BY DEF DataInv
<1>2. q \in Seq(TCPSegment)
  BY <1>1
<1>3. Head(q) \in TCPSegment /\ t \in Seq(TCPSegment)
  BY <1>2
<1>4. Taken(side, s) = [net EXCEPT ![side][s] = t]
  BY DEF Taken
<1> HIDE DEF t
<1> QED
  BY <1>1, <1>3, <1>4

\* The network with the segments that side sends for session s.
<0>SentType.
  ASSUME NEW onTheWay \in [Sides -> [Sessions -> Seq(TCPSegment)]],
         NEW side \in Sides, NEW s \in Sessions, NEW segs \in Seq(TCPSegment)
  PROVE  sendToNet(onTheWay, side, s, segs) \in [Sides -> [Sessions -> Seq(TCPSegment)]]
<1> USE <0>SentType
<1> DEFINE p == Peer(side)
           q == onTheWay[p][s]
           t == q \o segs
<1>1. p \in Sides
  BY DEF Peer, Sides
<1>2. q \in Seq(TCPSegment)
  BY <1>1
<1>3. t \in Seq(TCPSegment)
  BY <1>2
<1>4. sendToNet(onTheWay, side, s, segs) = [onTheWay EXCEPT ![p][s] = t]
  BY DEF sendToNet
<1> HIDE DEF p, t
<1> QED
  BY <1>1, <1>3, <1>4

\* A step that only the network sees.
<0>NetworkStep.
  ASSUME Inv, net' \in [Sides -> [Sessions -> Seq(TCPSegment)]], lost' \in 0 .. MaxLost,
         UNCHANGED <<client, threads, conn, count, forks, requests, ends, now, gaveUp>>
  PROVE  Inv'
  BY <0>NetworkStep DEF Inv, DataInv, ThreadInv, CountInv, SessionInv

\* A lost segment keeps the invariant.
<0>LoseKeeps.
  ASSUME Inv, NEW side \in Sides, NEW s \in Sessions, Lose(side, s)
  PROVE  Inv'
<1> USE <0>LoseKeeps
<1>0. DataInv
  BY Zenon DEF Inv
<1>1. /\ net[side][s] # <<>> /\ net' = Taken(side, s)
      /\ UNCHANGED <<client, threads, conn, count, forks, requests, ends, now, gaveUp>>
      /\ lost' = lost + 1 /\ lost < MaxLost
  BY DEF Lose, app
<1>2. net' \in [Sides -> [Sessions -> Seq(TCPSegment)]]
  BY <1>0, <1>1, <0>TakenType
<1>3. lost' \in 0 .. MaxLost
  BY <1>0, <1>1, ApplicationAssumption DEF DataInv
<1> QED
  BY Zenon, <1>1, <1>2, <1>3, <0>NetworkStep

\* One connection is set.
<0>ConnectionSet.
  ASSUME NEW f \in [Sides -> [Sessions -> Kept]], NEW side \in Sides,
         NEW s \in Sessions, NEW w \in Kept
  PROVE  LET g == [f EXCEPT ![side][s] = w]
         IN /\ g \in [Sides -> [Sessions -> Kept]] /\ g[side][s] = w
            /\ \A x \in Sessions : x # s => g[side][x] = f[side][x]
            /\ \A sd \in Sides : sd # side => g[sd] = f[sd]
  OBVIOUS

\* The listener forks a worker off: there was none, and there is room.
<0>ForkKeeps.
  ASSUME Inv, Quiet, NEW s \in Sessions, conn["server"][s] = None,
         NEW r \in Outcome, r.c.fsm = "SYN_RCVD", MaxConnections > count,
         Forks(s, r), net' \in [Sides -> [Sessions -> Seq(TCPSegment)]],
         UNCHANGED <<client, threads, requests, now, lost, gaveUp>>
  PROVE  Inv'
<1> USE <0>ForkKeeps
<1> DEFINE side == "server"
           w == r.c
<1>0. /\ DataInv /\ ThreadInv /\ CountInv /\ SessionInv
      /\ side \in Sides /\ "client" \in Sides /\ side # "client"
  BY DEF Inv, Sides
<1>1. w \in Kept /\ w # None
  <2>1. w \in Connection /\ w.fsm \in Live
    BY DEF Outcome, Live, Opened
  <2> QED
    BY <2>1, LiveNotNone DEF Kept
<1>2. conn \in [Sides -> [Sessions -> Kept]] /\ conn' = [conn EXCEPT ![side][s] = w]
  BY ZenonT(30), <1>0 DEF DataInv, Forks
<1> HIDE DEF w, side
<1>3. /\ conn' \in [Sides -> [Sessions -> Kept]]
      /\ conn'[side][s] = w
      /\ \A x \in Sessions : /\ conn'["client"][x] = conn["client"][x]
                             /\ x # s => conn'[side][x] = conn[side][x]
  BY <1>0, <1>1, <1>2, <0>ConnectionSet
<1>4. forks \in [Sessions -> Nat]
  BY Zenon, <1>0 DEF DataInv
<1>5. /\ forks' \in [Sessions -> Nat]
      /\ \A x \in Sessions : forks'[x] >= forks[x] /\ (x = s => forks'[x] >= 1)
  BY <1>4 DEF Forks
<1>6. now = <<>> /\ now' = <<>> /\ Elems(<<>>) = {}
  BY DEF Quiet, Elems
<1>7. DataInv'
  <2>1. \A x \in Sessions :
          /\ conn'["client"][x] # None => conn'["client"][x].fsm # "SYN_RCVD"
          /\ conn'["server"][x] # None => forks'[x] >= 1
    <3>1. \A x \in Sessions :
            /\ conn["client"][x] # None => conn["client"][x].fsm # "SYN_RCVD"
            /\ conn["server"][x] # None => forks[x] >= 1
      BY Zenon, <1>0 DEF DataInv
    <3>2. \A x \in Sessions : conn'["client"][x] # None => conn'["client"][x].fsm # "SYN_RCVD"
      BY Zenon, <1>3, <3>1
    <3>3. \A x \in Sessions : conn'[side][x] # None => forks'[x] >= 1
      <4> TAKE x \in Sessions
      <4>1. x # s => conn'[side][x] = conn[side][x]
        BY Zenon, <1>3
      <4>2. conn[side][x] # None => forks[x] >= 1
        BY Zenon, <3>1 DEF side
      <4>3. forks'[x] \in Nat /\ forks[x] \in Nat /\ forks'[x] >= forks[x]
            /\ (x = s => forks'[x] >= 1)
        BY <1>4, <1>5
      <4> QED
        BY <4>1, <4>2, <4>3
    <3> QED
      BY Zenon, <3>2, <3>3 DEF side
  <2>2. ends' \in [Sessions -> SUBSET Int]
    BY Zenon, <1>0 DEF DataInv, Forks
  <2>3. \A m \in Elems(now') : ProperMessage(m, forks', requests')
    BY <1>6
  <2> QED
    BY Zenon, <1>0, <1>3, <1>5, <2>1, <2>2, <2>3 DEF DataInv
<1>8. ThreadInv'
  <2>1. \A id \in DOMAIN threads : /\ id \in Sessions \X Nat
                                  /\ id[2] \in 1 .. forks[id[1]]
    BY <1>0 DEF ThreadInv
  <2>2. \A id \in DOMAIN threads : id[1] \in Sessions /\ id[2] \in 1 .. forks'[id[1]]
    BY <1>4, <1>5, <2>1
  <2> QED
    BY <1>0, <2>1, <2>2 DEF ThreadInv
<1>9. CountInv'
  <2> DEFINE W == {x \in Sessions : conn[side][x] # None}
             V == {x \in Sessions : conn'[side][x] # None}
  <2>1. IsFiniteSet(W) /\ count = Cardinality(W) /\ s \notin W
    BY Zenon, <1>0, ApplicationAssumption DEF CountInv, side, CardinalityFacts
  <2>2. V = W \cup {s}
    BY <1>1, <1>3
  <2> HIDE DEF V, W
  <2>3. Cardinality(V) = Cardinality(W) + 1
    BY ZenonT(30), <2>1, <2>2 DEF CardinalityFacts
  <2>4. count \in Nat
    BY Zenon, <2>1 DEF CardinalityFacts
  <2>5. count' = Cardinality(V) /\ count' <= MaxConnections
    BY <2>1, <2>3, <2>4, ApplicationAssumption DEF Forks
  <2> QED
    BY Zenon, <2>5 DEF CountInv, V, side
<1>10. SessionInv'
  <2>1. \A x \in Sessions : /\ ThreadState(client[x])
                            /\ Reflects(x, client[x], conn["client"][x], now)
    BY Zenon, <1>0 DEF SessionInv
  <2> QED
    BY Zenon, <1>3, <1>6, <2>1 DEF SessionInv
<1> QED
  BY <1>7, <1>8, <1>9, <1>10 DEF Inv

\* processAppCommand keeps the invariant.
<0>CommandKeeps.
  ASSUME Inv, processAppCommand
  PROVE  Inv'
<1> USE <0>CommandKeeps
<1> DEFINE m == Head(now)
           new == NewConnection(TRUE, 0)
           c == IF Known(m) THEN conn[m.side][m.s] ELSE new
           r == CASE m.kind = "OPEN_ACTIVE" -> process_OPEN_ACTIVE(c)
                  [] m.kind = "SEND"        -> process_SEND(c, m.at)
                  [] m.kind = "CLOSE"       -> process_CLOSE(c)
                  [] m.kind = "ABORT"       -> process_ABORT(c)
<1>0. DataInv /\ SessionInv
  BY DEF Inv
<1>1. /\ now # <<>> /\ m.to = "tcp" /\ forks' = forks
      /\ UNCHANGED <<app, requests, lost, gaveUp>>
      /\ IF r.event = "ERROR" THEN UNCHANGED <<conn, count, ends, now, net>>
         ELSE /\ Results(m.side, m.s, r, Tail(now), net)
              /\ ends' = IF m.side = "server" /\ m.kind = "SEND"
                         THEN [ends EXCEPT ![m.s] = @ \cup {r.c.end - 1}] ELSE ends
  BY ZenonT(30) DEF processAppCommand
<1>2. CASE r.event = "ERROR"
  <2>1. /\ client' = client /\ threads' = threads /\ conn' = conn /\ count' = count
        /\ forks' = forks /\ requests' = requests /\ ends' = ends /\ now' = now
        /\ net' = net /\ lost' = lost /\ gaveUp' = gaveUp
    BY Zenon, <1>1, <1>2 DEF app
  <2> QED
    BY <2>1 DEF Inv, DataInv, ThreadInv, CountInv, SessionInv
<1>3. CASE r.event # "ERROR"
  <2>1. /\ m \in Message /\ Told(m, client[m.s], conn["client"][m.s])
        /\ ProperMessage(m, forks, requests) /\ Alone(m, now)
    BY Zenon, <1>0, <1>1, First
  <2>2. /\ m.side \in Sides /\ m.s \in Sessions /\ m.at \in Int
        /\ m.kind \in {"OPEN_ACTIVE", "SEND", "CLOSE", "ABORT"}
    BY Zenon, <1>1, <2>1 DEF Message, ProperMessage
  <2>3. CASE m.kind = "OPEN_ACTIVE"
    <3>1. m.side = "client" /\ now = <<m>>
      BY Zenon, <2>1, <2>2, <2>3 DEF ProperMessage, Alone, Sides
    <3>2. /\ conn["client"][m.s] = None
          /\ client[m.s].state = "WAITING" /\ ~client[m.s].timer
      BY Zenon, <2>1, <2>3, <3>1 DEF Told
    <3>3. c = new
      BY Zenon, <3>1, <3>2 DEF Known
    <3>4. r = process_OPEN_ACTIVE(new)
      BY Zenon, <2>3, <3>3
    <3> DEFINE R == process_OPEN_ACTIVE(new)
    <3>5. /\ R \in Outcome /\ R.inds = <<>>
          /\ R.c.fsm = "SYN_SENT" /\ R.c.sendFin = FALSE
      BY Zenon DEF Contract, OpenPromise
    <3>6. Results("client", m.s, R, Tail(now), net) /\ ends' = ends
      BY Zenon, <1>1, <1>3, <2>3, <3>1, <3>4
    <3>7. Tail(now) = <<>>
      <4>1. \A o : now = <<o>> => Tail(now) = <<>>
        OBVIOUS
      <4> HIDE DEF m
      <4> QED
        BY <3>1, <4>1
    <3>8. ends' \in [Sessions -> SUBSET Int]
      BY <1>0, <3>6 DEF DataInv
    <3>9. R.c.fsm \in Live /\ R.c.fsm \notin Closing
      BY Zenon, <3>5 DEF Live, Opened, Closing
    <3> HIDE DEF R, r
    <3>10. Reflects(m.s, client[m.s], R.c, Tail(now))
      BY Zenon, <3>2, <3>5, <3>9 DEF Reflects
    <3> DEFINE side == "client"
               s == m.s
               d == IF R.c.fsm = "CLOSED" THEN None ELSE R.c
    <3>11. Reflects(m.s, client[m.s], d, Tail(now))
      BY <3>5, <3>10
    <3>12. side \in Sides /\ s \in Sessions /\ Results(side, s, R, Tail(now), net)
      BY <2>2, <3>6 DEF Sides
    <3>13. side # "server"
      OBVIOUS
    <3> HIDE DEF side, s
    <3>14. /\ R.c.fsm # "SYN_RCVD"
           /\ Reflects(s, client[s], d, Tail(now))
      BY <3>5, <3>11 DEF s
    <3> QED
      BY ZenonT(30), <1>1, <3>5, <3>7, <3>8, <3>9, <3>12, <3>13, <3>14,
         <0>CommandStep
  <2>4. CASE m.kind # "OPEN_ACTIVE"
    <3>1. Known(m)
      <4> SUFFICES ASSUME ~Known(m) PROVE FALSE
        OBVIOUS
      <4>1. c = new
        OBVIOUS
      <4> HIDE DEF new, c
      <4>2. r \in {process_SEND(new, m.at), process_CLOSE(new), process_ABORT(new)}
        BY <2>2, <2>4, <4>1
      <4> HIDE DEF m, r
      <4> QED
        BY Zenon, <1>3, <2>2, <4>2 DEF new, Contract, OpenPromise
    <3> DEFINE d == conn[m.side][m.s]
    <3>2. c = d /\ d # None
      BY Zenon, <3>1 DEF Known
    <3>3. d \in Connection /\ d.fsm \in Live
      BY Zenon, <1>0, <2>2, <3>2, NotNone DEF DataInv
    <3> HIDE DEF d, c, new
    <3>4. \/ m.kind = "SEND" /\ r = process_SEND(d, m.at)
          \/ m.kind = "CLOSE" /\ r = process_CLOSE(d)
          \/ m.kind = "ABORT" /\ r = process_ABORT(d)
      BY <2>2, <2>4, <3>2
    <3> HIDE DEF r, m
    <3>5. /\ r \in Outcome /\ r.inds = <<>> /\ r.c.fsm \in Live \cup {"CLOSED"}
          /\ r.c.fsm \in {"SYN_SENT", "SYN_RCVD"} => r.c.fsm = d.fsm
          /\ (\E stops : After(r, d, stops)) \/ m.kind = "CLOSE"
      <4>1. CASE m.kind = "SEND" /\ r = process_SEND(d, m.at)
        <5>1. After(r, d, {}) /\ r.inds = <<>>
          BY Zenon, <1>3, <2>2, <3>3, <4>1 DEF Contract, CommandPromise
        <5> QED
          BY Zenon, <5>1 DEF After
      <4>2. CASE m.kind = "CLOSE" /\ r = process_CLOSE(d)
        BY Zenon, <1>3, <3>3, <4>2 DEF Contract, ClosePromise
      <4>3. CASE m.kind = "ABORT" /\ r = process_ABORT(d)
        <5>1. After(r, d, {}) /\ r.inds = <<>>
          BY <3>3, <4>3 DEF Contract, CommandPromise
        <5> QED
          BY Zenon, <5>1 DEF After
      <4> QED
        BY Zenon, <3>4, <4>1, <4>2, <4>3
    <3>6. m = Head(now)
      BY Zenon DEF m
    <3>7. /\ Results(m.side, m.s, r, Tail(now), net)
          /\ ends' = IF m.side = "server" /\ m.kind = "SEND"
                     THEN [ends EXCEPT ![m.s] = @ \cup {r.c.end - 1}] ELSE ends
      BY <1>1, <1>3
    <3> QED
      BY Zenon, <1>1, <3>1, <3>5, <3>6, <3>7, <0>CommandCarriedOut DEF d
  <2> QED
    BY <2>3, <2>4
<1> QED
  BY Zenon, <1>2, <1>3

\* SegmentArrives keeps the invariant.
<0>SegmentKeeps.
  ASSUME Inv, NEW side \in Sides, NEW s \in Sessions, SegmentArrives(side, s)
  PROVE  Inv'
<1> USE <0>SegmentKeeps
<1> DEFINE c == conn[side][s]
           seg == Head(net[side][s])
           stops == MessageEnds(side, s)
           r == processTCPSegment(c, seg, stops)
           onTheWay == Taken(side, s)
<1>0. DataInv
  BY DEF Inv
<1>1. /\ Quiet /\ c # None /\ net[side][s] # <<>> /\ forks' = forks
      /\ Results(side, s, r, <<>>, onTheWay)
      /\ UNCHANGED <<app, requests, ends, lost, gaveUp>>
  BY Zenon DEF SegmentArrives
<1>2. c \in Connection /\ c.fsm \in Live
  BY SMTT(30), <1>0, <1>1, NotNone DEF DataInv
<1>3. seg \in TCPSegment /\ onTheWay \in [Sides -> [Sessions -> Seq(TCPSegment)]]
  BY Zenon, <1>0, <1>1, <0>TakenType
<1>5. gaveUp' \subseteq Sessions
  BY <1>0, <1>1 DEF DataInv
<1> HIDE DEF seg, stops, c, onTheWay
<1>6. After(r, c, stops)
  BY <1>2, <1>3 DEF Contract, SegmentPromise
<1> HIDE DEF r
<1> QED
  BY ZenonT(30), <1>1, <1>3, <1>5, <1>6, <0>ConnectionEvent DEF c, stops

\* TimerExpires keeps the invariant.
<0>TimerKeeps.
  ASSUME Inv, NEW side \in Sides, NEW s \in Sessions, TimerExpires(side, s)
  PROVE  Inv'
<1> USE <0>TimerKeeps
<1> DEFINE c == conn[side][s]
           stops == MessageEnds(side, s)
<1>0. DataInv
  BY DEF Inv
<1>1. PICK timer \in c.timers :
        /\ forks' = forks /\ Results(side, s, processTimer(c, timer), <<>>, net)
        /\ gaveUp' = IF timer = "REXMIT" /\ c.rexmits >= MaxRexmit
                     THEN gaveUp \cup {s} ELSE gaveUp
  BY ZenonT(30) DEF TimerExpires
<1>2. Quiet /\ c # None /\ UNCHANGED <<app, requests, ends, lost>>
  BY DEF TimerExpires
<1>3. c \in Connection /\ c.fsm \in Live
  BY Zenon, <1>0, <1>2, NotNone DEF DataInv
<1>4. net \in [Sides -> [Sessions -> Seq(TCPSegment)]]
  BY Zenon, <1>0 DEF DataInv
<1>5. gaveUp' \subseteq Sessions
  BY Zenon, <1>0, <1>1 DEF DataInv
<1> DEFINE r == processTimer(c, timer)
<1> HIDE DEF stops, c
<1>6. After(r, c, stops)
  <2>1. timer \in Timer
    BY <1>1, <1>3 DEF Connection
  <2> QED
    BY Zenon, <1>3, <2>1 DEF Contract, TimerPromise
<1>7. Results(side, s, r, <<>>, net)
  BY ZenonT(30), <1>1
<1> HIDE DEF r
<1> QED
  BY Zenon, <1>1, <1>2, <1>4, <1>5, <1>6, <1>7, <0>ConnectionEvent DEF c, stops

\* SegmentToNobody keeps the invariant.
<0>NobodyKeeps.
  ASSUME Inv, NEW s \in Sessions, SegmentToNobody(s)
  PROVE  Inv'
<1> USE <0>NobodyKeeps
<1> DEFINE side == "client"
           seg == Head(net[side][s])
           segs == segmentArrivalWhileClosed(seg)
           onTheWay == Taken(side, s)
<1>0. DataInv /\ side \in Sides
  BY Zenon DEF Inv, Sides
<1>1. /\ net[side][s] # <<>> /\ net' = sendToNet(onTheWay, side, s, segs)
      /\ UNCHANGED <<client, threads, conn, count, forks, requests, ends, now, gaveUp>>
      /\ lost' = lost
  <2>1. net[side][s] # <<>> /\ net' = sendToNet(onTheWay, side, s, segs)
    BY Zenon DEF SegmentToNobody
  <2>2. UNCHANGED <<app, conn, count, forks, requests, ends, now, lost, gaveUp>>
    BY Zenon DEF SegmentToNobody
  <2> QED
    BY <2>1, <2>2 DEF app
<1>2. seg \in TCPSegment /\ onTheWay \in [Sides -> [Sessions -> Seq(TCPSegment)]]
  <2> HIDE DEF side
  <2> QED
    BY Zenon, <1>0, <1>1, <0>TakenType
<1> HIDE DEF seg, onTheWay, side
<1>3. segs \in Seq(TCPSegment)
  BY <1>2 DEF Contract, ListenPromise
<1> HIDE DEF segs
<1>4. net' \in [Sides -> [Sessions -> Seq(TCPSegment)]]
  BY Zenon, <1>0, <1>1, <1>2, <1>3, <0>SentType
<1>5. lost' \in 0 .. MaxLost
  BY Zenon, <1>0, <1>1 DEF DataInv
<1> QED
  BY Zenon, <1>1, <1>4, <1>5, <0>NetworkStep

\* processSegmentInListen keeps the invariant.
<0>ListenKeeps.
  ASSUME Inv, NEW s \in Sessions, processSegmentInListen(s)
  PROVE  Inv'
<1> USE <0>ListenKeeps
<1> DEFINE side == "server"
           seg == Head(net[side][s])
           iss == Iss(forks[s] + 1)
           r == Forked(seg, iss)
           onTheWay == Taken(side, s)
           segs == IF "ACK" \in seg.flags THEN segmentArrivalWhileClosed(seg) ELSE <<>>
<1>0. DataInv /\ side \in Sides
  BY DEF Inv, Sides
<1>1. /\ Quiet /\ conn["server"][s] = None /\ net[side][s] # <<>>
      /\ UNCHANGED <<client, threads, requests, now, lost, gaveUp>>
      /\ \/ /\ MaxConnections > count
            /\ Forks(s, r)
            /\ net' = sendToNet(onTheWay, side, s, r.segs)
         \/ /\ net' = sendToNet(onTheWay, side, s, segs)
            /\ UNCHANGED <<conn, count, forks, ends>>
  BY DEF processSegmentInListen, acceptAnotherConnection, Forks, app
<1>2. seg \in TCPSegment /\ onTheWay \in [Sides -> [Sessions -> Seq(TCPSegment)]]
  <2> HIDE DEF side
  <2> QED
    BY Zenon, <1>0, <1>1, <0>TakenType
<1>3. iss \in Int
  BY <1>0 DEF DataInv, Iss
<1> HIDE DEF seg, onTheWay, iss
<1>4. segs \in Seq(TCPSegment)
  <2>1. segmentArrivalWhileClosed(seg) \in Seq(TCPSegment)
    BY Zenon, <1>2 DEF Contract, ListenPromise
  <2> QED
    BY <2>1
<1>5. r \in Outcome /\ r.c.fsm = "SYN_RCVD"
  BY <1>2, <1>3 DEF Contract, ListenPromise
<1>6. r.segs \in Seq(TCPSegment)
  BY <1>5 DEF Outcome
<1> HIDE DEF r, segs
<1>7. /\ sendToNet(onTheWay, side, s, segs) \in [Sides -> [Sessions -> Seq(TCPSegment)]]
      /\ sendToNet(onTheWay, side, s, r.segs) \in [Sides -> [Sessions -> Seq(TCPSegment)]]
  <2> HIDE DEF side
  <2> QED
    BY Zenon, <1>0, <1>2, <1>4, <1>6, <0>SentType
<1>8. lost' \in 0 .. MaxLost
  BY <1>0, <1>1 DEF DataInv
<1>9. CASE conn' = conn /\ net' = sendToNet(onTheWay, side, s, segs)
           /\ UNCHANGED <<conn, count, forks, ends>>
  <2>1. net' \in [Sides -> [Sessions -> Seq(TCPSegment)]]
    BY SMTT(30), <1>7, <1>9
  <2> QED
    BY Zenon, <1>1, <1>8, <1>9, <2>1, <0>NetworkStep
<1>10. CASE /\ MaxConnections > count
            /\ Forks(s, r)
            /\ net' = sendToNet(onTheWay, side, s, r.segs)
  <2>1. net' \in [Sides -> [Sessions -> Seq(TCPSegment)]]
    BY <1>7, <1>10
  <2> HIDE DEF side
  <2> QED
    BY ZenonT(30), <1>1, <1>5, <1>10, <2>1, <0>ForkKeeps
<1> QED
  BY Zenon, <1>1, <1>9, <1>10

<0> QED
  BY <0>CommandKeeps, <0>NobodyKeeps, <0>ListenKeeps, <0>SegmentKeeps,
     <0>TimerKeeps,
     <0>LoseKeeps

-----------------------------------------------------------------------------
\* Every step of the system keeps the invariant.
LEMMA NextInv ==
  ASSUME Contract, CardinalityFacts
  PROVE  Inv /\ [Next]_vars => Inv'
<1> SUFFICES ASSUME Inv, [Next]_vars PROVE Inv'
  OBVIOUS
<1>1. CASE UNCHANGED vars
  BY Zenon, <1>1, NothingChanges DEF vars
<1>2. ASSUME NEW s \in Sessions, Step(s) PROVE Inv'
  <2>1. CASE handleMessage
    <3>1. /\ now # <<>> /\ Head(now).to = "app"
          /\ UNCHANGED <<conn, count, forks, ends, net, lost, gaveUp>>
          /\ IF Head(now).side = "client" THEN ClientHears(Head(now), Tail(now))
             ELSE ServerHears(Head(now), Tail(now))
      BY Zenon, <2>1 DEF handleMessage
    <3>2. Head(now).side \in {"client", "server"}
      BY <3>1, First DEF Inv, Message, Sides
    <3> QED
      BY <3>1, <3>2, ClientSteps, ServerSteps DEF MessageTo
  <2>2. CASE processAppCommand
    BY <2>2, TCPSteps
  <2>3. CASE ClientTimer(s)
    BY <2>3, ClientSteps
  <2>4. CASE \E id \in DOMAIN threads : id[1] = s /\ ServerTimer(id)
    BY <2>4, ServerSteps
  <2>5. CASE SegmentToNobody(s)
    BY <2>5, TCPSteps
  <2>6. CASE processSegmentInListen(s)
    BY <2>6, TCPSteps
  <2>7. CASE \E side \in Sides : SegmentArrives(side, s) \/ TimerExpires(side, s)
    BY <2>7, TCPSteps
  <2> QED
    BY Zenon, <1>2, <2>1, <2>2, <2>3, <2>4, <2>5, <2>6, <2>7 DEF Step
<1>3. ASSUME NEW s \in Sessions, transmissionStart(s) PROVE Inv'
  BY <1>3, ClientSteps
<1>4. ASSUME NEW s \in Sessions, NEW side \in Sides, Lose(side, s) PROVE Inv'
  BY <1>4, TCPSteps
<1>5. CASE Over
  BY <1>1, <1>5 DEF Over
<1> QED
  BY <1>1, <1>2, <1>3, <1>4, <1>5 DEF Next

=============================================================================
