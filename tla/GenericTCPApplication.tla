----------------------- MODULE GenericTCPApplication -----------------------
(***************************************************************************)
(* TCP sessions between ReaSE's traffic clients and one server: the client  *)
(* and server threads of GenericTCPApplication with their TCPSockets, the   *)
(* TCP module of both ends (TCP_hack and its TCPConnections), and an IP     *)
(* network that may lose segments; one route leads from host to host, so it *)
(* does not reorder them.                                                   *)
(*                                                                          *)
(* Application and TCP exchange commands and indications as messages with   *)
(* zero delay, which the simulation handles in the order they were sent     *)
(* before its clock moves: they are the queue now, and whatever takes time  *)
(* (a segment, a timer) waits until it is empty.  A session stands for one  *)
(* pair of addresses and ports, so for one client thread; the k-th worker   *)
(* connection that the server forks for it has the connection id <<s, k>>.  *)
(* An opp_error ends the simulation: error holds the command or callback    *)
(* that raised it.                                                          *)
(***************************************************************************)
EXTENDS TCPConnection

CONSTANTS
  Sessions,        \* the transmissions of all clients
  RequestCounts,   \* values of requestsPerSession
  ReplyLengths,    \* lengths of a reply, in segments
  RespondTimes,    \* 0: reply at once, 1: after timeToRespond
  MaxThreads,      \* maxThreadCount of the server application (noThreads)
  MaxConnections,  \* maxThreadCount of the server's TCP_hack
  MaxLost,         \* bound: segments the network loses
  SynTries,        \* bound: SYN retransmissions before CONN-ESTAB ends them
  EarlyRexmits     \* bound: retransmissions with segments still on the way

ASSUME ApplicationAssumption ==
  /\ IsFiniteSet(Sessions)
  /\ ReplyLengths \subseteq Nat /\ RespondTimes \subseteq {0, 1}
  /\ RequestCounts \subseteq Nat
  /\ {MaxThreads, MaxConnections} \subseteq Nat \ {0}
  /\ {MaxLost, SynTries, EarlyRexmits} \subseteq Nat
  /\ SynTries <= MaxSynRexmit

VARIABLES
  client,    \* client threads, by session
  threads,   \* threadList of the server, by connection id
  conn,      \* connections of both TCP modules, by side and session
  count,     \* currentConnectionCount of the server's TCP_hack
  forks,     \* worker connections so far, by session
  requests,  \* what the requests of the session ask for, in order
  ends,      \* sequence numbers at which the replies of the session end
  now,       \* messages between application and TCP at this instant
  net,       \* segments on the way, by receiving side and session
  lost,      \* segments lost so far
  gaveUp,    \* history: sessions of which one end ran out of retransmissions
  error      \* what stopped the simulation

vars == <<client, threads, conn, count, forks, requests, ends, now, net, lost,
          gaveUp, error>>

app  == <<client, threads>>
tcp  == <<conn, count, forks, requests, ends, net>>

\* No connection.
None == [fsm |-> "NONE"]

Sides == {"client", "server"}
Peer(side) == IF side = "client" THEN "server" ELSE "client"

Fine  == error = "none"
Quiet == Fine /\ now = <<>>

\* Initial sequence numbers of successive workers lie far apart.
Iss(k) == 100 * k

Command(side, s, k, kind, len) ==
  [to |-> "tcp", side |-> side, s |-> s, k |-> k, kind |-> kind, at |-> len]

Init ==
  /\ client = [s \in Sessions |->
       [state |-> "IDLE", toSend |-> 0, sock |-> "BOUND", timer |-> FALSE,
        sent |-> 0, rcvd |-> 0, failed |-> FALSE]]
  /\ threads = [id \in {} |-> {}]
  /\ conn = [side \in Sides |-> [s \in Sessions |-> None]]
  /\ count = 0
  /\ forks = [s \in Sessions |-> 0]
  /\ requests = [s \in Sessions |-> <<>>]
  /\ ends = [s \in Sessions |-> {}]
  /\ net = [side \in Sides |-> [s \in Sessions |-> <<>>]]
  /\ now = <<>> /\ lost = 0 /\ gaveUp = {}
  /\ error = "none"

----------------------------------------------------------------------------
(* TCPSocket.                                                              *)

Usable(sock) == sock \in {"CONNECTED", "CONNECTING", "PEER_CLOSED"}
Closed(sock) == IF sock = "CONNECTED" THEN "LOCALLY_CLOSED" ELSE "CLOSED"
PeerClosed(sock) == IF sock = "CONNECTED" THEN "PEER_CLOSED" ELSE "CLOSED"

----------------------------------------------------------------------------
(* The client thread.  q is what is left of the queue now.                 *)

\* opp_error: the simulation stops.
Stop(what) == error' = what /\ UNCHANGED <<app, requests, now>>

transmissionStart(s) ==
  /\ Quiet /\ client[s].state = "IDLE"
  /\ \E n \in RequestCounts :
       client' = [client EXCEPT ![s].state = "WAITING", ![s].toSend = n,
                                ![s].timer = TRUE]
  /\ UNCHANGED <<threads, tcp, now, lost, gaveUp, error>>

\* Mutant: the session ends one request early.
IsLast_OneEarly(t) == t.toSend <= 2

\* The request about to be sent is the last one of the session.
IsLast(t) == t.toSend <= 1

\* t is the thread at the call.
sendRequest(s, t, q) ==
  LET last == IsLast(t) IN
  IF ~Usable(t.sock) THEN Stop("send")
  ELSE /\ client' = [client EXCEPT ![s] =
            [t EXCEPT !.toSend = @ - 1, !.sent = @ + 1,
                      !.state = IF last THEN "DISCONNECTED" ELSE @]]
       /\ \E reply \in ReplyLengths, time \in RespondTimes :
            requests' = [requests EXCEPT ![s] =
              Append(@, [last |-> last, reply |-> reply, time |-> time])]
       /\ now' = Append(q, Command("client", s, 0, "SEND", 1))
       /\ UNCHANGED <<threads, error>>

\* Mutant: the thread does not go to FINISH.
socketClosed_StateKept(t) == [t EXCEPT !.timer = TRUE]

\* The timer is set anew, whatever it was set for.
socketClosed(t) == [t EXCEPT !.timer = TRUE, !.state = "FINISH"]

\* timerExpired, by the state of the thread.
ClientTimer(s) ==
  LET t == [client[s] EXCEPT !.timer = FALSE]
      Becomes(u, msgs) == /\ client' = [client EXCEPT ![s] = u]
                          /\ now' = msgs
                          /\ UNCHANGED <<threads, requests, error>>
  IN /\ Quiet /\ client[s].timer
     /\ CASE t.state = "WAITING" ->
               Becomes([t EXCEPT !.sock = "CONNECTING"],
                       <<Command("client", s, 0, "OPEN_ACTIVE", 0)>>)
          [] t.state = "CONNECTED" -> sendRequest(s, t, <<>>)
          [] t.state = "DISCONNECTED" ->
               CASE t.sock = "LOCALLY_CLOSED" -> Becomes(t, <<>>)
                 [] Usable(t.sock) ->
                      Becomes([t EXCEPT !.sock = Closed(@)],
                              <<Command("client", s, 0, "CLOSE", 0)>>)
                 [] OTHER -> Stop("close")
          [] t.state = "FINISH" -> Becomes([t EXCEPT !.state = "REMOVED"], <<>>)
     /\ UNCHANGED <<conn, count, forks, ends, net, lost, gaveUp>>

\* processMessage and the callback it leads to; a message for a socket that
\* is gone is an error of the client.
ClientHears(m, q) ==
  LET s == m.s
      t == client[s]
      Becomes(u) == /\ client' = [client EXCEPT ![s] = u]
                    /\ now' = q
                    /\ UNCHANGED <<threads, requests, error>>
  IN CASE t.state \in {"IDLE", "REMOVED"} -> Stop("unknown socket")
       [] OTHER ->
     CASE m.kind = "DATA" ->
            IF t.timer THEN Stop("timer")
            ELSE Becomes([t EXCEPT !.rcvd = @ + 1, !.timer = TRUE])
       [] m.kind = "ESTABLISHED" ->
            sendRequest(s, [t EXCEPT !.sock = "CONNECTED", !.state = "CONNECTED",
                                     !.toSend = max(@, 1)], q)
       [] m.kind = "PEER_CLOSED" -> Becomes([t EXCEPT !.sock = PeerClosed(@)])
       [] m.kind = "CLOSED" ->
            Becomes(socketClosed([t EXCEPT !.sock = "CLOSED"]))
       [] m.kind \in Failures ->
            Becomes([t EXCEPT !.sock = "SOCKERROR", !.timer = FALSE,
                              !.state = "REMOVED", !.failed = TRUE])

----------------------------------------------------------------------------
(* The server: its threads, and handleMessage in front of them.            *)

NewThread == [sock |-> "CONNECTED", doClose |-> FALSE, replies |-> <<>>,
              timer |-> FALSE]

\* Thread id becomes t.
Keeps(id, t) ==
  threads' = [i \in DOMAIN threads \cup {id} |-> IF i = id THEN t ELSE threads[i]]

removeThread(id) == threads' = [i \in DOMAIN threads \ {id} |-> threads[i]]

\* The reply goes out, and after the last one the socket is closed.
Respond(id, t, reply, q) ==
  LET closes == t.doClose /\ t.sock # "LOCALLY_CLOSED"
      Tell(kind, len) == Command("server", id[1], id[2], kind, len)
  IN IF (reply # <<>> \/ closes) /\ ~Usable(t.sock) THEN Stop("send")
     ELSE /\ Keeps(id, IF closes THEN [t EXCEPT !.sock = Closed(@)] ELSE t)
          /\ now' = q \o [i \in DOMAIN reply |-> Tell("SEND", reply[i])]
                      \o (IF closes THEN <<Tell("CLOSE", 0)>> ELSE <<>>)
          /\ UNCHANGED <<client, requests, error>>

\* timerExpired of a server thread.
ServerTimer(id) ==
  LET t == threads[id]
      n == min(1, Len(t.replies))
  IN /\ Quiet /\ t.timer
     /\ Respond(id, [t EXCEPT !.timer = FALSE,
                              !.replies = SubSeq(@, n + 1, Len(@))],
                SubSeq(t.replies, 1, n), <<>>)
     /\ UNCHANGED <<conn, count, forks, ends, net, lost, gaveUp>>

\* The callbacks of a server thread t with connection id.
ServerCallback(id, t, m, q) ==
  LET Becomes(u) == /\ Keeps(id, u)
                    /\ now' = q
                    /\ UNCHANGED <<client, requests, error>>
      request == requests[m.s][m.at]
      told == [t EXCEPT !.doClose = request.last]
  IN CASE m.kind = "ESTABLISHED" -> Becomes([t EXCEPT !.sock = "CONNECTED"])
       [] m.kind = "DATA" ->
            CASE request.reply = 0 -> Becomes(told)
              [] request.reply # 0 /\ request.time > 0 ->
                   IF t.timer THEN Stop("timer")
                   ELSE Becomes([told EXCEPT !.timer = TRUE,
                                   !.replies = Append(@, request.reply)])
              [] OTHER -> Respond(id, told, <<request.reply>>, q)
       [] m.kind = "PEER_CLOSED" ->
            Becomes([t EXCEPT !.sock = PeerClosed(@), !.doClose = TRUE])
       [] m.kind \in Failures \cup {"CLOSED"} ->
            /\ removeThread(id)
            /\ now' = q
            /\ UNCHANGED <<client, requests, error>>

\* handleMessage: a message of an unknown connection opens a thread, or
\* aborts the connection when there are too many.
ServerHears(m, q) ==
  LET id == <<m.s, m.k>> IN
  CASE id \in DOMAIN threads -> ServerCallback(id, threads[id], m, q)
    [] id \notin DOMAIN threads /\ Cardinality(DOMAIN threads) >= MaxThreads ->
         /\ now' = Append(q, Command("server", m.s, m.k, "ABORT", 0))
         /\ UNCHANGED <<app, requests, error>>
    [] OTHER -> ServerCallback(id, NewThread, m, q)

handleMessage ==
  /\ Fine /\ now # <<>> /\ Head(now).to = "app"
  /\ IF Head(now).side = "client" THEN ClientHears(Head(now), Tail(now))
     ELSE ServerHears(Head(now), Tail(now))
  /\ UNCHANGED <<conn, count, forks, ends, net, lost, gaveUp>>

----------------------------------------------------------------------------
(* The TCP modules.                                                        *)

\* Mutant: a connection that ends is still counted.
canceledHalfOpenConnection_Never == count' = count

\* canceledHalfOpenConnection, called by the destructor of a connection.
canceledHalfOpenConnection == count' = IF count <= 0 THEN count ELSE count - 1

\* onTheWay with the segments that side hands to IP for session s.
sendToNet(onTheWay, side, s, segs) ==
  [onTheWay EXCEPT ![Peer(side)][s] = @ \o segs]

\* The result r of a connection: the segments and indications go out, and a
\* connection in state CLOSED is removed (removeConnection).
Results(side, s, r, q, onTheWay) ==
  LET k == IF side = "client" THEN 0 ELSE forks'[s] IN
  /\ conn' = [conn EXCEPT ![side][s] = IF r.c.fsm = "CLOSED" THEN None ELSE r.c]
  /\ net' = sendToNet(onTheWay, side, s, r.segs)
  /\ now' = q \o [i \in DOMAIN r.inds |->
                  [to |-> "app", side |-> side, s |-> s, k |-> k,
                   kind |-> r.inds[i].kind, at |-> r.inds[i].at]]
  /\ IF side = "server" /\ r.c.fsm = "CLOSED" THEN canceledHalfOpenConnection
     ELSE count' = count

\* findConnForApp: only the newest worker of a session can still be there.
Known(m) == /\ conn[m.side][m.s] # None
            /\ m.side = "server" => m.k = forks[m.s]

\* A command of the application.  One for an unknown connection gets a new
\* connection, which is in state INIT and can only open.
processAppCommand ==
  LET m == Head(now)
      c == IF Known(m) THEN conn[m.side][m.s] ELSE NewConnection(TRUE, 0)
      r == CASE m.kind = "OPEN_ACTIVE" -> process_OPEN_ACTIVE(c)
             [] m.kind = "SEND"        -> process_SEND(c, m.at)
             [] m.kind = "CLOSE"       -> process_CLOSE(c)
             [] m.kind = "ABORT"       -> process_ABORT(c)
  IN /\ Fine /\ now # <<>> /\ m.to = "tcp"
     /\ forks' = forks
     /\ IF r.event = "ERROR"
        THEN error' = m.kind /\ UNCHANGED <<conn, count, ends, now, net>>
        ELSE /\ Results(m.side, m.s, r, Tail(now), net)
             /\ ends' = IF m.side = "server" /\ m.kind = "SEND"
                        THEN [ends EXCEPT ![m.s] = @ \cup {r.c.end - 1}] ELSE ends
             /\ error' = error
     /\ UNCHANGED <<app, requests, lost, gaveUp>>

\* Where the messages that side receives end; a request is one segment.
MessageEnds(side, s) ==
  IF side = "client" THEN ends[s] ELSE DOMAIN requests[s]

\* The network without the next segment for side.
Taken(side, s) == [net EXCEPT ![side][s] = Tail(@)]

\* A segment for a connection.
SegmentArrives(side, s) ==
  LET c == conn[side][s] IN
  /\ Quiet /\ c # None /\ net[side][s] # <<>>
  /\ forks' = forks
  /\ Results(side, s,
             processTCPSegment(c, Head(net[side][s]), MessageEnds(side, s)),
             <<>>, Taken(side, s))
  /\ UNCHANGED <<app, requests, ends, lost, gaveUp, error>>

\* A segment for a client port without a connection.
SegmentToNobody(s) ==
  /\ Quiet /\ conn.client[s] = None /\ net.client[s] # <<>>
  /\ net' = sendToNet(Taken("client", s), "client", s,
                      segmentArrivalWhileClosed(Head(net.client[s])))
  /\ UNCHANGED <<app, conn, count, forks, requests, ends, now, lost, gaveUp, error>>

acceptAnotherConnection == MaxConnections > count

\* processSegmentInListen: a SYN forks a worker off the listening connection
\* while there is room, and is ignored otherwise; an ACK is answered with the
\* same RST as without a connection.
processSegmentInListen(s) ==
  LET seg == Head(net.server[s]) IN
  /\ Quiet /\ conn.server[s] = None /\ net.server[s] # <<>>
  /\ IF seg.flags = {"SYN"} /\ acceptAnotherConnection
     THEN LET r == Forked(seg, Iss(forks[s] + 1)) IN
          /\ conn' = [conn EXCEPT !.server[s] = r.c]
          /\ forks' = [forks EXCEPT ![s] = @ + 1]
          /\ ends' = [ends EXCEPT ![s] = {}]
          /\ count' = count + 1
          /\ net' = sendToNet(Taken("server", s), "server", s, r.segs)
     ELSE /\ net' = sendToNet(Taken("server", s), "server", s,
                             IF "ACK" \in seg.flags
                             THEN segmentArrivalWhileClosed(seg) ELSE <<>>)
          /\ UNCHANGED <<conn, count, forks, ends>>
  /\ UNCHANGED <<app, requests, now, lost, gaveUp, error>>

\* A timer of a connection.  Of the lengths of the timers this much is kept:
\* a retransmission comes when nothing is on the way, or early at most
\* EarlyRexmits times in a row; CONN-ESTAB comes after SynTries of them, and
\* first at the client, where it was started first; no segment outlives 2MSL.
Expires(side, s, c, timer) ==
  LET idle == \A to \in Sides : net[to][s] = <<>>
      opening == conn.client[s] # None /\ conn.client[s].fsm = "SYN_SENT"
  IN CASE timer = "SYN-REXMIT" ->
            c.syns < SynTries /\ (idle \/ c.syns < EarlyRexmits)
       [] timer = "CONN-ESTAB" ->
            c.syns = SynTries /\ idle /\ (side = "server" => ~opening)
       [] timer = "REXMIT" -> idle \/ c.rexmits < EarlyRexmits
       [] timer = "2MSL"   -> idle

TimerExpires(side, s) ==
  LET c == conn[side][s] IN
  /\ Quiet /\ c # None
  /\ \E timer \in c.timers :
       /\ Expires(side, s, c, timer)
       /\ forks' = forks
       /\ Results(side, s, processTimer(c, timer), <<>>, net)
       /\ gaveUp' = IF timer = "REXMIT" /\ c.rexmits >= MaxRexmit
                    THEN gaveUp \cup {s} ELSE gaveUp
  /\ UNCHANGED <<app, requests, ends, lost, error>>

\* A full queue on the route drops a segment.
Lose(side, s) ==
  /\ Quiet /\ lost < MaxLost /\ net[side][s] # <<>>
  /\ lost' = lost + 1
  /\ net' = Taken(side, s)
  /\ UNCHANGED <<app, conn, count, forks, requests, ends, now, gaveUp, error>>

----------------------------------------------------------------------------
\* Every session has ended on both sides, or the simulation has stopped.
Over ==
  /\ \/ ~Fine
     \/ /\ Quiet
        /\ \A s \in Sessions : client[s].state # "IDLE" /\ ~client[s].timer
        /\ \A id \in DOMAIN threads : ~threads[id].timer
        /\ \A side \in Sides, s \in Sessions :
             /\ net[side][s] = <<>>
             /\ conn[side][s] # None => conn[side][s].timers = {}
  /\ UNCHANGED vars

\* What the event queue holds for session s and will be handled some time.
Step(s) ==
  \/ now # <<>> /\ Head(now).s = s /\ (handleMessage \/ processAppCommand)
  \/ ClientTimer(s)
  \/ \E id \in DOMAIN threads : id[1] = s /\ ServerTimer(id)
  \/ SegmentToNobody(s) \/ processSegmentInListen(s)
  \/ \E side \in Sides : SegmentArrives(side, s) \/ TimerExpires(side, s)

Next ==
  \/ \E s \in Sessions : Step(s) \/ transmissionStart(s)
  \/ \E s \in Sessions, side \in Sides : Lose(side, s)
  \/ Over

\* The event queue holds something for session s: Step(s) is enabled.
Pending(s) ==
  /\ Fine
  /\ \/ now # <<>> /\ Head(now).s = s
     \/ /\ now = <<>>
        /\ \/ client[s].timer
           \/ \E id \in DOMAIN threads : id[1] = s /\ threads[id].timer
           \/ \E side \in Sides :
                \/ net[side][s] # <<>>
                \/ /\ conn[side][s] # None
                   /\ \E timer \in conn[side][s].timers :
                        Expires(side, s, conn[side][s], timer)

\* Every event has a time, and the clock reaches it: WF_vars(Step(s)), with
\* Pending(s) written out for ENABLED.
Fairness == \A s \in Sessions : []<>~Pending(s) \/ []<><<Step(s)>>_vars

Spec == Init /\ [][Next]_vars /\ Fairness

----------------------------------------------------------------------------
(* Properties.                                                             *)

\* The variables keep their types.
TypeOK ==
  /\ client \in [Sessions ->
       [state : {"IDLE", "WAITING", "CONNECTED", "DISCONNECTED", "FINISH", "REMOVED"},
        toSend : Int, timer : BOOLEAN, sent : Nat, rcvd : Nat, failed : BOOLEAN,
        sock : {"BOUND", "CONNECTING", "CONNECTED", "PEER_CLOSED",
                "LOCALLY_CLOSED", "CLOSED", "SOCKERROR"}]]
  /\ \A id \in DOMAIN threads : id[1] \in Sessions /\ id[2] \in 1 .. forks[id[1]]
  /\ \A side \in Sides, s \in Sessions :
       conn[side][s] # None => conn[side][s].fsm \in {"SYN_SENT"} \cup Opened
  /\ count \in Nat /\ forks \in [Sessions -> Nat]
  /\ lost \in 0 .. MaxLost /\ gaveUp \subseteq Sessions

Present(side, s) == conn[side][s] # None

\* The server's TCP_hack counts exactly its worker connections, and never has
\* more of them than maxThreadCount: acceptAnotherConnection adds one for each
\* fork, and each way a worker can end (a FIN exchange, a reset, a timeout, an
\* ABORT of the application) takes one off, once.
ConnectionsCounted ==
  /\ TypeOK
  /\ count <= MaxConnections
  /\ Fine => count = Cardinality({s \in Sessions : Present("server", s)})

\* In whatever order indications, timers and losses come, no callback of a
\* client or server thread uses a socket in a state that TCPSocket or TCP
\* refuses with an error, schedules its timer twice or hears of a connection
\* it no longer has.  The one exception is a server that refuses a client for
\* its thread limit and has to do so twice, for ESTABLISHED and for DATA of
\* the same segment: the second ABORT finds no connection.
OnlyOverloadStops == error \in {"none", "ABORT"}

\* A session that the client reports to its user as done (and not as failed)
\* has sent all its requests, and none of them is left without a reply.
RequestsAnswered ==
  \A s \in Sessions :
    client[s].state \in {"FINISH", "REMOVED"} /\ ~client[s].failed =>
      client[s].rcvd >= client[s].sent /\ client[s].toSend <= 0

\* Such a session has got one reply to each of its requests, although both
\* ends close as soon as they can and segments are lost; no session ever gets
\* more replies than it has sent requests.
SessionComplete ==
  /\ RequestsAnswered
  /\ \A s \in Sessions : client[s].rcvd <= client[s].sent

\* Every session that was started ends at the client, and both its connections
\* are removed, unless one end ran out of retransmissions: that end goes
\* without telling the other, which then may wait in ESTABLISHED or
\* FIN_WAIT_2 for ever (keepalive is not implemented and the FIN_WAIT_2 timer
\* is never started).
SessionsEnd ==
  <>[](Fine => \A s \in Sessions \ gaveUp :
                 /\ client[s].state \in {"IDLE", "REMOVED"}
                 /\ \A side \in Sides : ~Present(side, s))

\* A server thread ends with its connection, as the comments of removeThread
\* ("called whenever a TCP communication has finished") and of the thread's
\* socketClosed say.
ThreadsHaveConnections ==
  Quiet => \A id \in DOMAIN threads :
              Present("server", id[1]) /\ forks[id[1]] = id[2]

============================================================================
