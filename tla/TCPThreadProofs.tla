-------------------------- MODULE TCPThreadProofs ---------------------------
(***************************************************************************)
(* The inductive invariant of GenericTCPApplication, for any sessions,     *)
(* requests, replies, limits and losses, and the steps of the client and   *)
(* server threads, which keep it.                                          *)
(***************************************************************************)
EXTENDS GenericTCPApplication, TCPContract, TLAPS

-----------------------------------------------------------------------------
(* The invariant.                                                          *)

ClientThread ==
  [state : {"IDLE", "WAITING", "CONNECTED", "DISCONNECTED", "FINISH", "REMOVED"},
   toSend : Int, timer : BOOLEAN, sent : Nat, rcvd : Nat, failed : BOOLEAN,
   sock : {"BOUND", "CONNECTING", "CONNECTED", "PEER_CLOSED", "LOCALLY_CLOSED",
           "CLOSED", "SOCKERROR"}]

ServerThread ==
  [sock : {"CONNECTED", "PEER_CLOSED", "LOCALLY_CLOSED", "CLOSED"},
   doClose : BOOLEAN, replies : Seq(Nat), timer : BOOLEAN]

Request == [last : BOOLEAN, reply : Nat, time : {0, 1}]

Message == [to : {"tcp", "app"}, side : Sides, s : Sessions, k : Nat,
            kind : Kinds \cup {"OPEN_ACTIVE", "SEND", "CLOSE", "ABORT"}, at : Int]

\* What a TCP module keeps for a session.
Kept == {c \in Connection : c.fsm \in Live} \cup {None}

Elems(q) == {q[i] : i \in DOMAIN q}

\* A message of the current instant: commands go to TCP and indications to the
\* application; a worker has an id that was given to it, and what the server
\* hears of is a request that was sent.  f and rqs are forks and requests.
ProperMessage(m, f, rqs) ==
  /\ m.to = "app" => m.kind \in Kinds
  /\ m.to = "tcp" => m.kind \in {"OPEN_ACTIVE", "SEND", "CLOSE", "ABORT"}
  /\ m.side = "client" => m.kind # "ABORT"
  /\ m.side = "server" => /\ m.kind # "OPEN_ACTIVE"
                          /\ m.k \in 1 .. f[m.s]
                          /\ m.kind = "DATA" => m.at \in DOMAIN rqs[m.s]

\* The variables have their types, a client never waits for the ACK of a SYN
\* of its own, and a worker that is there was forked.
DataInv ==
  /\ client \in [Sessions -> ClientThread]
  /\ conn \in [Sides -> [Sessions -> Kept]]
  /\ forks \in [Sessions -> Nat]
  /\ net \in [Sides -> [Sessions -> Seq(TCPSegment)]]
  /\ requests \in [Sessions -> Seq(Request)]
  /\ ends \in [Sessions -> SUBSET Int]
  /\ now \in Seq(Message)
  /\ lost \in 0 .. MaxLost /\ gaveUp \subseteq Sessions
  /\ \A m \in Elems(now) : ProperMessage(m, forks, requests)
  /\ \A s \in Sessions :
       /\ conn["client"][s] # None => conn["client"][s].fsm # "SYN_RCVD"
       /\ conn["server"][s] # None => forks[s] >= 1

\* The server's threads belong to workers, and are no more than noThreads.
ThreadInv ==
  /\ threads \in [DOMAIN threads -> ServerThread]
  /\ \A id \in DOMAIN threads : /\ id \in Sessions \X Nat
                                /\ id[2] \in 1 .. forks[id[1]]
  /\ IsFiniteSet(DOMAIN threads)
  /\ Cardinality(DOMAIN threads) <= MaxThreads

\* currentConnectionCount counts the workers that are there.
CountInv ==
  /\ count = Cardinality({s \in Sessions : conn["server"][s] # None})
  /\ count <= MaxConnections

\* The client thread t may close: no request is left, and none unanswered.
MayClose(t) ==
  /\ t.rcvd >= t.sent /\ t.toSend <= 0
  /\ t.state \in {"DISCONNECTED", "FINISH", "REMOVED"}

\* A client thread has at most one request unanswered, none when its timer is
\* set for the next step, and reports itself done when it might close.
ThreadState(t) ==
  /\ t.timer => t.state \notin {"IDLE", "REMOVED"}
  /\ t.sent <= t.rcvd + 1
  /\ t.timer /\ t.state \in {"CONNECTED", "DISCONNECTED"} => t.sent <= t.rcvd
  /\ t.state \in {"IDLE", "WAITING"} => t.sent = 0 /\ t.rcvd = 0
  /\ t.state = "DISCONNECTED" => t.toSend <= 0
  /\ t.state \in {"FINISH", "REMOVED"} /\ ~t.failed => MayClose(t)

\* The indication that connection s is open.
Opening(s) == [to |-> "app", side |-> "client", s |-> s, k |-> 0,
               kind |-> "ESTABLISHED", at |-> 0]

\* Connection c of the client is where thread t of session s believes it to be;
\* q are the messages that are still to be heard.
Reflects(s, t, c, q) ==
  /\ t.state = "WAITING" /\ t.timer => c = None
  /\ c # None =>
       /\ c.sendFin \/ c.fsm \in Closing => MayClose(t)
       /\ c.fsm = "SYN_SENT" => t.state = "WAITING" /\ ~t.timer
       /\ c.fsm # "SYN_SENT" =>
            t.state \notin {"IDLE", "WAITING"} \/ q = <<Opening(s)>>

\* What message m of a client tells about its thread t and connection c.
Told(m, t, c) ==
  m.side = "client" =>
    /\ m.kind \in {"CLOSE", "CLOSED"} => MayClose(t)
    /\ m.kind = "DATA" => t.state \notin {"IDLE", "WAITING"}
    /\ m.kind \in Failures => ~(c # None /\ c.fsm = "SYN_SENT")
    /\ m.kind = "OPEN_ACTIVE" => t.state = "WAITING" /\ ~t.timer /\ c = None
    /\ m.kind = "ESTABLISHED" =>
         /\ t.state = "WAITING" /\ ~t.timer
         /\ c # None /\ c.fsm = "ESTABLISHED" /\ ~c.sendFin

\* The messages of an opening come alone.
Alone(m, q) ==
  m.side = "client" /\ m.kind \in {"OPEN_ACTIVE", "ESTABLISHED"} => q = <<m>>

SessionInv ==
  /\ \A s \in Sessions : /\ ThreadState(client[s])
                         /\ Reflects(s, client[s], conn["client"][s], now)
  /\ \A m \in Elems(now) : /\ Told(m, client[m.s], conn["client"][m.s])
                           /\ Alone(m, now)

Inv == DataInv /\ ThreadInv /\ CountInv /\ SessionInv

-----------------------------------------------------------------------------
(* Queues of messages.                                                     *)

\* The elements of a queue after the usual operations.
LEMMA ElemsOfTail ==
  ASSUME NEW S, NEW q \in Seq(S), q # <<>>
  PROVE  /\ Tail(q) \in Seq(S) /\ Head(q) \in Elems(q) /\ Head(q) = q[1]
         /\ Elems(Tail(q)) \subseteq Elems(q)
<1>1. /\ Tail(q) \in Seq(S) /\ Head(q) = q[1]
      /\ Len(q) \in Nat /\ DOMAIN q = 1 .. Len(q) /\ Len(q) # 0
      /\ Len(Tail(q)) = Len(q) - 1
      /\ \A i \in 1 .. Len(Tail(q)) : Tail(q)[i] = q[i + 1]
  OBVIOUS
<1>2. DOMAIN Tail(q) = 1 .. Len(q) - 1
  BY <1>1
<1>3. 1 \in DOMAIN q
  BY <1>1
<1>4. \A i \in DOMAIN Tail(q) : i + 1 \in DOMAIN q /\ Tail(q)[i] = q[i + 1]
  BY <1>1, <1>2
<1> QED
  BY <1>1, <1>3, <1>4 DEF Elems

\* Two queues one after the other.
LEMMA ElemsOfConcat ==
  ASSUME NEW S, NEW a \in Seq(S), NEW b \in Seq(S)
  PROVE  a \o b \in Seq(S) /\ Elems(a \o b) \subseteq Elems(a) \cup Elems(b)
<1> DEFINE q == a \o b
<1>1. /\ q \in Seq(S) /\ Len(q) = Len(a) + Len(b)
      /\ \A i \in 1 .. Len(a) + Len(b) :
            q[i] = IF i <= Len(a) THEN a[i] ELSE b[i - Len(a)]
  OBVIOUS
<1>2. /\ DOMAIN q = 1 .. Len(a) + Len(b) /\ DOMAIN a = 1 .. Len(a)
      /\ DOMAIN b = 1 .. Len(b) /\ Len(a) \in Nat /\ Len(b) \in Nat
  BY <1>1
<1> HIDE DEF q
<1>3. ASSUME NEW i \in DOMAIN q PROVE q[i] \in Elems(a) \cup Elems(b)
  <2>1. CASE i <= Len(a)
    <3>1. i \in DOMAIN a /\ q[i] = a[i]
      BY <1>1, <1>2, <2>1
    <3> QED
      BY <3>1 DEF Elems
  <2>2. CASE ~(i <= Len(a))
    <3>1. i - Len(a) \in DOMAIN b /\ q[i] = b[i - Len(a)]
      BY <1>1, <1>2, <2>2
    <3> QED
      BY <3>1 DEF Elems
  <2> QED
    BY <2>1, <2>2
<1>4. Elems(q) \subseteq Elems(a) \cup Elems(b)
  <2> SUFFICES ASSUME NEW m \in Elems(q) PROVE m \in Elems(a) \cup Elems(b)
    OBVIOUS
  <2>1. PICK i \in DOMAIN q : m = q[i]
    BY DEF Elems
  <2> QED
    BY <1>3, <2>1
<1> QED
  BY <1>1, <1>4 DEF q

\* The empty queue, and a queue of one message.
LEMMA ElemsOfFew ==
  ASSUME NEW S, NEW m \in S
  PROVE  /\ <<>> \in Seq(S) /\ Elems(<<>>) = {}
         /\ <<m>> \in Seq(S) /\ Elems(<<m>>) = {m}
  BY DEF Elems

\* A queue with one more message.
LEMMA ElemsOfAppend ==
  ASSUME NEW S, NEW q \in Seq(S), NEW m \in S
  PROVE  Append(q, m) \in Seq(S) /\ Elems(Append(q, m)) \subseteq Elems(q) \cup {m}
<1> DEFINE t == <<m>>
<1>1. t \in Seq(S) /\ Elems(t) = {m}
  BY ElemsOfFew
<1>2. Append(q, m) = q \o t
  OBVIOUS
<1> HIDE DEF t
<1> QED
  BY <1>1, <1>2, ElemsOfConcat

\* The elements of a queue of S are in S.
LEMMA ElemsType ==
  ASSUME NEW S, NEW q \in Seq(S)
  PROVE  Elems(q) \subseteq S
<1>1. DOMAIN q = 1 .. Len(q)
  OBVIOUS
<1> QED
  BY <1>1 DEF Elems

\* What is behind the first message is no message of an opening.
LEMMA Behind ==
  ASSUME DataInv, SessionInv, now # <<>>, NEW m \in Elems(Tail(now))
  PROVE  /\ m \in Elems(now) /\ m \in Message
         /\ ~(m.side = "client" /\ m.kind \in {"OPEN_ACTIVE", "ESTABLISHED"})
<1>1. now \in Seq(Message)
  BY DEF DataInv
<1>2. m \in Elems(now) /\ m \in Message
  BY <1>1, ElemsOfTail, ElemsType
<1>3. now = <<m>> => Tail(now) = <<>>
  BY <1>1
<1>4. now # <<m>>
  BY <1>3 DEF Elems
<1> QED
  BY <1>2, <1>4 DEF SessionInv, Alone

\* The first message.
LEMMA First ==
  ASSUME DataInv, SessionInv, now # <<>>
  PROVE  /\ Head(now) \in Message /\ Head(now) \in Elems(now)
         /\ ProperMessage(Head(now), forks, requests)
         /\ Told(Head(now), client[Head(now).s], conn["client"][Head(now).s])
         /\ Alone(Head(now), now)
         /\ Tail(now) \in Seq(Message)
<1>1. now \in Seq(Message)
  BY DEF DataInv
<1>2. Head(now) \in Elems(now) /\ Head(now) \in Message /\ Tail(now) \in Seq(Message)
  BY <1>1, ElemsOfTail, ElemsType
<1> QED
  BY <1>2 DEF DataInv, SessionInv

\* A client that is not about to hear of its opening reflects its connection
\* whatever else is to be heard.
LEMMA ReflectsAlways ==
  ASSUME NEW s, NEW t, NEW c, NEW q, NEW p, Reflects(s, t, c, q), q # <<Opening(s)>>
  PROVE  Reflects(s, t, c, p)
  BY DEF Reflects

\* A step after which all that the invariant speaks of is as before.
LEMMA NothingChanges ==
  ASSUME Inv, UNCHANGED <<client, threads, conn, count, forks, requests, ends, now,
                          net, lost, gaveUp>>
  PROVE  Inv'
  BY DEF Inv, DataInv, ThreadInv, CountInv, SessionInv

\* A command is a message.
LEMMA CommandType ==
  ASSUME NEW side \in Sides, NEW s \in Sessions, NEW k \in Nat, NEW len \in Int,
         NEW kind \in {"OPEN_ACTIVE", "SEND", "CLOSE", "ABORT"}
  PROVE  LET m == Command(side, s, k, kind, len)
         IN /\ m \in Message
            /\ m.to = "tcp" /\ m.side = side /\ m.s = s /\ m.k = k /\ m.kind = kind
  BY DEF Command, Message

-----------------------------------------------------------------------------
(* The steps of the client threads.                                        *)

\* The thread u may follow t: what was said of t, TCP may still rely on.
Follows(u, t) ==
  /\ MayClose(t) => MayClose(u)
  /\ t.state \notin {"IDLE", "WAITING"} => u.state \notin {"IDLE", "WAITING"}

\* The command m of the client thread u with connection c.
Orders(m, s, u, c, q) ==
  /\ m.to = "tcp" /\ m.side = "client" /\ m.s = s
  /\ m.kind \in {"OPEN_ACTIVE", "SEND", "CLOSE"}
  /\ Told(m, u, c) /\ Alone(m, q)

\* Message m was already there, and does not belong to an opening.
Stays(m) ==
  /\ m \in Elems(now)
  /\ ~(m.side = "client" /\ m.kind \in {"OPEN_ACTIVE", "ESTABLISHED"})

\* m alone is a queue of messages.
Sole(m) == <<m>> \in Seq(Message) /\ Elems(<<m>>) = {m}

\* A message of TCP is handled at the application of a side.
MessageTo(side) ==
  /\ now # <<>> /\ Head(now).to = "app" /\ Head(now).side = side
  /\ UNCHANGED <<conn, count, forks, ends, net, lost, gaveUp>>

\* The client threads of GenericTCPApplication keep the invariant when a
\* transmission starts, a timer expires and a message of TCP arrives.
LEMMA ClientSteps ==
  /\ \A s \in Sessions : Inv /\ (transmissionStart(s) \/ ClientTimer(s)) => Inv'
  /\ Inv /\ MessageTo("client") /\ ClientHears(Head(now), Tail(now)) => Inv'
\* A step of the client thread of session s, which becomes u.
<0>ClientStep.
  ASSUME Inv, NEW s \in Sessions, NEW u \in ClientThread,
         client' = [client EXCEPT ![s] = u], Follows(u, client[s]), ThreadState(u),
         Reflects(s, u, conn["client"][s], now'),
         \A x \in Sessions \ {s} : now # <<Opening(x)>>,
         requests' \in [Sessions -> Seq(Request)],
         \A x \in Sessions : DOMAIN requests[x] \subseteq DOMAIN requests'[x],
         now' \in Seq(Message),
         \A m \in Elems(now') : Stays(m) \/ Orders(m, s, u, conn["client"][s], now'),
         UNCHANGED <<threads, conn, count, forks, ends, net, lost, gaveUp>>
  PROVE  Inv'
<1> USE <0>ClientStep
<1>0. DataInv /\ ThreadInv /\ CountInv /\ SessionInv
  BY DEF Inv
<1>1. client \in [Sessions -> ClientThread]
  BY <1>0 DEF DataInv
<1>2. /\ client' \in [Sessions -> ClientThread] /\ client'[s] = u
      /\ \A x \in Sessions \ {s} : client'[x] = client[x]
  BY <1>1
<1>3. \A m \in Elems(now') : m \in Message /\ m.s \in Sessions
  BY ZenonT(30), ElemsType DEF Message
<1>4. DataInv'
  <2>1. \A m \in Elems(now') : ProperMessage(m, forks', requests')
    <3> SUFFICES ASSUME NEW m \in Elems(now') PROVE ProperMessage(m, forks, requests')
      OBVIOUS
    <3>1. CASE Stays(m)
      <4>1. ProperMessage(m, forks, requests)
        BY <1>0, <3>1 DEF Stays, DataInv
      <4>2. DOMAIN requests[m.s] \subseteq DOMAIN requests'[m.s]
        BY <1>3
      <4> QED
        BY <4>1, <4>2 DEF ProperMessage
    <3>2. CASE Orders(m, s, u, conn["client"][s], now')
      BY <3>2 DEF Orders, ProperMessage
    <3> QED
      BY <3>1, <3>2
  <2> QED
    BY <1>0, <1>2, <2>1 DEF DataInv
<1>5. ThreadInv' /\ CountInv'
  BY <1>0 DEF ThreadInv, CountInv
<1>6. \A x \in Sessions : /\ ThreadState(client'[x])
                          /\ Reflects(x, client'[x], conn["client"][x], now')
  <2> SUFFICES ASSUME NEW x \in Sessions
               PROVE  /\ ThreadState(client'[x])
                      /\ Reflects(x, client'[x], conn["client"][x], now')
    OBVIOUS
  <2>1. CASE x = s
    BY <1>2, <2>1
  <2>2. CASE x # s
    <3>1. client'[x] = client[x]
      BY <1>2, <2>2
    <3>2. ThreadState(client[x]) /\ Reflects(x, client[x], conn["client"][x], now)
      BY <1>0 DEF SessionInv
    <3>3. now # <<Opening(x)>>
      BY <2>2
    <3> QED
      BY <3>1, <3>2, <3>3, ReflectsAlways
  <2> QED
    BY <2>1, <2>2
<1>7. \A m \in Elems(now') : /\ Told(m, client'[m.s], conn["client"][m.s])
                             /\ Alone(m, now')
  <2> SUFFICES ASSUME NEW m \in Elems(now')
               PROVE  Told(m, client'[m.s], conn["client"][m.s]) /\ Alone(m, now')
    OBVIOUS
  <2>1. CASE Stays(m)
    <3>1. Told(m, client[m.s], conn["client"][m.s])
      BY <1>0, <2>1 DEF Stays, SessionInv
    <3>2. CASE m.s = s
      <4>1. Told(m, u, conn["client"][s])
        BY <2>1, <3>1, <3>2 DEF Told, Stays, Follows
      <4> QED
        BY <1>2, <2>1, <3>2, <4>1 DEF Alone, Stays
    <3>3. CASE m.s # s
      BY Zenon, <1>2, <1>3, <2>1, <3>1, <3>3 DEF Alone, Stays
    <3> QED
      BY <3>2, <3>3
  <2>2. CASE Orders(m, s, u, conn["client"][s], now')
    BY <1>2, <2>2 DEF Orders
  <2> QED
    BY <2>1, <2>2
<1>8. SessionInv'
  BY <1>6, <1>7 DEF SessionInv
<1> QED
  BY <1>4, <1>5, <1>8 DEF Inv

\* A thread with other values: every field has its type.
<0>ThreadFields.
  ASSUME NEW t \in ClientThread
  PROVE  /\ t.toSend \in Int /\ t.sent \in Nat /\ t.rcvd \in Nat
         /\ t.timer \in BOOLEAN /\ t.failed \in BOOLEAN
         /\ t.state \in {"IDLE", "WAITING", "CONNECTED", "DISCONNECTED", "FINISH", "REMOVED"}
         /\ t.sock \in {"BOUND", "CONNECTING", "CONNECTED", "PEER_CLOSED",
                        "LOCALLY_CLOSED", "CLOSED", "SOCKERROR"}
  BY <0>ThreadFields DEF ClientThread

\* transmissionStart keeps the invariant.
<0>StartKeeps.
  ASSUME Inv, NEW s \in Sessions, transmissionStart(s)
  PROVE  Inv'
<1> USE <0>StartKeeps
<1> DEFINE t == client[s]
<1>0. DataInv /\ SessionInv
  BY DEF Inv
<1>1. t \in ClientThread /\ t.state = "IDLE" /\ now = <<>>
  BY <1>0 DEF DataInv, transmissionStart, Quiet
<1>2. PICK n \in RequestCounts :
        client' = [client EXCEPT ![s].state = "WAITING", ![s].toSend = n, ![s].timer = TRUE]
  BY Zenon DEF transmissionStart
<1> DEFINE waiting == "WAITING"
           yes == TRUE
           u == [t EXCEPT !.state = waiting, !.toSend = n, !.timer = yes]
<1>3. client' = [client EXCEPT ![s] = u]
  BY Zenon, <1>0, <1>2 DEF DataInv
<1>4. n \in Nat
  BY ApplicationAssumption
<1>5. /\ u \in ClientThread
      /\ u.state = "WAITING" /\ u.timer /\ u.sent = t.sent /\ u.rcvd = t.rcvd
  <2>1. /\ waiting \in {"IDLE", "WAITING", "CONNECTED", "DISCONNECTED", "FINISH", "REMOVED"}
        /\ yes \in BOOLEAN /\ n \in Int
    BY <1>4
  <2> HIDE DEF waiting, yes, t
  <2>2. u \in ClientThread
    BY Zenon, <1>1, <2>1 DEF ClientThread
  <2>3. u.state = waiting /\ u.timer = yes /\ u.sent = t.sent /\ u.rcvd = t.rcvd
    BY <1>1 DEF ClientThread
  <2> QED
    BY <2>2, <2>3 DEF waiting, yes
<1>6. ThreadState(t) /\ Reflects(s, t, conn["client"][s], now)
  BY <1>0 DEF SessionInv
<1>7. conn["client"][s] = None
  <2>1. now # <<Opening(s)>>
    BY <1>1
  <2> QED
    BY <1>1, <1>6, <2>1 DEF Reflects
<1>8. Follows(u, t)
  BY <1>1 DEF Follows, MayClose
<1>9. ThreadState(u)
  <2>1. t.sent = 0 /\ t.rcvd = 0
    BY <1>1, <1>6 DEF ThreadState
  <2> QED
    BY <1>5, <2>1 DEF ThreadState
<1>10. Reflects(s, u, conn["client"][s], now')
  BY <1>7 DEF Reflects
<1>11. /\ now' = <<>> /\ now' \in Seq(Message) /\ Elems(now') = {} /\ requests' = requests
       /\ \A x \in Sessions : now # <<Opening(x)>>
       /\ UNCHANGED <<threads, conn, count, forks, ends, net, lost, gaveUp>>
  BY <1>1 DEF transmissionStart, Elems, tcp
<1>12. requests' \in [Sessions -> Seq(Request)]
  BY <1>0, <1>11 DEF DataInv
<1> HIDE DEF u
<1> QED
  BY Zenon, <1>3, <1>5, <1>8, <1>9, <1>10, <1>11, <1>12, <0>ClientStep

\* A queue with the one command of a client.
<0>ClientCommand.
  ASSUME NEW s \in Sessions, NEW len \in Int, NEW kind \in {"OPEN_ACTIVE", "SEND", "CLOSE"}
  PROVE  LET m == Command("client", s, 0, kind, len)
         IN /\ Sole(m)
            /\ m.to = "tcp" /\ m.side = "client" /\ m.s = s /\ m.kind = kind
<1> USE <0>ClientCommand
<1> DEFINE side == "client"
           k == 0
           m == Command(side, s, k, kind, len)
<1>1. side \in Sides /\ k \in Nat /\ kind \in {"OPEN_ACTIVE", "SEND", "CLOSE", "ABORT"}
  BY DEF Sides
<1> HIDE DEF side, k
<1>2. /\ m \in Message
      /\ m.to = "tcp" /\ m.side = side /\ m.s = s /\ m.kind = kind
  BY <1>1, CommandType
<1> HIDE DEF m
<1>3. Sole(m)
  BY <1>2, ElemsOfFew DEF Sole
<1> QED
  BY <1>2, <1>3 DEF side, k, m

\* sendRequest: t is the thread at the call, and the connection is open.
<0>RequestKeeps.
  ASSUME Inv, NEW s \in Sessions, NEW t \in ClientThread, sendRequest(s, t, <<>>),
         t.state = "CONNECTED", ~t.timer, t.sent <= t.rcvd,
         client[s].state \in {"WAITING", "CONNECTED"},
         conn["client"][s] # None =>
           /\ conn["client"][s].fsm # "SYN_SENT" /\ ~conn["client"][s].sendFin
           /\ conn["client"][s].fsm \notin Closing,
         \A x \in Sessions \ {s} : now # <<Opening(x)>>,
         UNCHANGED <<conn, count, forks, ends, net, lost, gaveUp>>
  PROVE  Inv'
<1> USE <0>RequestKeeps
<1> DEFINE last == IsLast(t)
           left == t.toSend - 1
           sent == t.sent + 1
           state == IF last THEN "DISCONNECTED" ELSE t.state
           u == [t EXCEPT !.toSend = left, !.sent = sent, !.state = state]
           m == Command("client", s, 0, "SEND", 1)
<1>0. DataInv /\ SessionInv
  BY DEF Inv
<1>1. CASE Stop("send")
  BY <1>1, NothingChanges DEF Stop, app
<1>2. CASE ~Stop("send")
  <2>1. /\ client' = [client EXCEPT ![s] = u]
        /\ \E reply \in ReplyLengths, time \in RespondTimes :
             requests' = [requests EXCEPT ![s] =
               Append(@, [last |-> last, reply |-> reply, time |-> time])]
        /\ now' = Append(<<>>, m)
        /\ threads' = threads
    BY Zenon, <1>2 DEF sendRequest
  <2>2. /\ left \in Int /\ sent \in Nat /\ t.toSend \in Int /\ t.rcvd \in Nat
        /\ state \in {"IDLE", "WAITING", "CONNECTED", "DISCONNECTED", "FINISH", "REMOVED"}
        /\ state \in {"CONNECTED", "DISCONNECTED"}
        /\ state = "DISCONNECTED" => left <= 0
        /\ sent <= t.rcvd + 1
    BY <0>ThreadFields DEF IsLast
  <2> HIDE DEF left, sent, state
  <2>3. /\ u \in ClientThread /\ u.toSend = left /\ u.sent = sent /\ u.state = state
        /\ u.rcvd = t.rcvd /\ u.timer = t.timer
    BY Zenon, <2>2 DEF ClientThread
  <2> HIDE DEF u
  <2>4. ThreadState(u)
    BY <2>2, <2>3 DEF ThreadState
  <2>5. Follows(u, client[s])
    BY <2>2, <2>3 DEF Follows, MayClose
  <2>6. Reflects(s, u, conn["client"][s], now')
    BY <2>2, <2>3 DEF Reflects
  <2>7. /\ <<m>> \in Seq(Message) /\ Elems(<<m>>) = {m}
        /\ m.to = "tcp" /\ m.side = "client" /\ m.s = s /\ m.kind = "SEND"
    <3> DEFINE kind == "SEND"
               len == 1
    <3>1. len \in Int /\ kind \in {"OPEN_ACTIVE", "SEND", "CLOSE"}
      OBVIOUS
    <3> HIDE DEF kind, len
    <3>2. LET n == Command("client", s, 0, kind, len)
          IN /\ Sole(n)
             /\ n.to = "tcp" /\ n.side = "client" /\ n.s = s /\ n.kind = kind
      BY <3>1, <0>ClientCommand
    <3> QED
      BY <3>2 DEF Sole, kind, len
  <2> HIDE DEF m
  <2>8. now' = <<m>>
    BY <2>1, <2>7
  <2>9. now' \in Seq(Message) /\ \A x \in Elems(now') : x = m
    BY <2>7, <2>8
  <2>10. Orders(m, s, u, conn["client"][s], now')
    BY <2>7 DEF Orders, Told, Alone, Failures
  <2>11. /\ requests' \in [Sessions -> Seq(Request)]
         /\ \A x \in Sessions : DOMAIN requests[x] \subseteq DOMAIN requests'[x]
    <3>1. PICK reply \in ReplyLengths, time \in RespondTimes :
             requests' = [requests EXCEPT ![s] =
               Append(@, [last |-> last, reply |-> reply, time |-> time])]
      BY Zenon, <2>1
    <3> DEFINE rq == [last |-> last, reply |-> reply, time |-> time]
               old == requests[s]
               new == Append(old, rq)
    <3>2. rq \in Request
      <4>1. last \in BOOLEAN
        BY DEF IsLast
      <4>2. reply \in Nat /\ time \in {0, 1}
        BY ApplicationAssumption
      <4> HIDE DEF last
      <4> QED
        BY <4>1, <4>2 DEF Request
    <3>3. requests \in [Sessions -> Seq(Request)] /\ requests' = [requests EXCEPT ![s] = new]
      BY <1>0, <3>1 DEF DataInv
    <3>4. old \in Seq(Request)
      BY <3>3
    <3> HIDE DEF rq, old
    <3>5. new \in Seq(Request) /\ DOMAIN old \subseteq DOMAIN new
      BY <3>2, <3>4
    <3> HIDE DEF new
    <3>6. requests' \in [Sessions -> Seq(Request)]
      BY <3>3, <3>5
    <3>7. requests'[s] = new /\ \A x \in Sessions : x # s => requests'[x] = requests[x]
      BY <3>3
    <3> QED
      BY <3>5, <3>6, <3>7 DEF old
  <2>12. \A x \in Elems(now') : Stays(x) \/ Orders(x, s, u, conn["client"][s], now')
    BY <2>9, <2>10
  <2> QED
    BY Zenon, <2>1, <2>3, <2>4, <2>5, <2>6, <2>9, <2>11, <2>12, <0>ClientStep
<1> QED
  BY <1>1, <1>2

\* A thread may follow one that differs in its socket or its timer only.
<0>SameFollows.
  ASSUME NEW t, NEW u, u.state = t.state, u.toSend = t.toSend, u.sent = t.sent,
         u.rcvd = t.rcvd
  PROVE  Follows(u, t) /\ (MayClose(t) <=> MayClose(u))
  BY <0>SameFollows DEF Follows, MayClose

\* A client's step at a quiet instant that sends no request: now' holds at
\* most one command.
<0>ClientMoves.
  ASSUME Inv, Quiet, NEW s \in Sessions, NEW u \in ClientThread,
         client' = [client EXCEPT ![s] = u], Follows(u, client[s]), ThreadState(u),
         Reflects(s, u, conn["client"][s], now'), now' \in Seq(Message),
         \A m \in Elems(now') : Orders(m, s, u, conn["client"][s], now'),
         UNCHANGED <<threads, requests, conn, count, forks, ends, net, lost, gaveUp>>
  PROVE  Inv'
<1> USE <0>ClientMoves
<1>1. \A x \in Sessions \ {s} : now # <<Opening(x)>>
  BY Zenon DEF Quiet
<1>2. requests' \in [Sessions -> Seq(Request)]
  BY DEF Inv, DataInv
<1>3. \A x \in Sessions : DOMAIN requests[x] \subseteq DOMAIN requests'[x]
  OBVIOUS
<1> QED
  BY Zenon, <1>1, <1>2, <1>3, <0>ClientStep

\* ClientTimer keeps the invariant.
<0>ClientTimerKeeps.
  ASSUME Inv, NEW s \in Sessions, ClientTimer(s)
  PROVE  Inv'
<1> USE <0>ClientTimerKeeps
<1> DEFINE w == client[s]
           c == conn["client"][s]
           no == FALSE
           t == [w EXCEPT !.timer = no]
           Goes(u, msgs) == /\ client' = [client EXCEPT ![s] = u]
                            /\ now' = msgs
                            /\ UNCHANGED <<threads, requests, error>>
<1>0. DataInv /\ SessionInv
  BY DEF Inv
<1>1. /\ Quiet /\ w.timer
      /\ UNCHANGED <<conn, count, forks, ends, net, lost, gaveUp>>
  BY DEF ClientTimer
<1>2. /\ t.state = "WAITING" =>
           Goes([t EXCEPT !.sock = "CONNECTING"], <<Command("client", s, 0, "OPEN_ACTIVE", 0)>>)
      /\ t.state = "CONNECTED" => sendRequest(s, t, <<>>)
      /\ t.state = "DISCONNECTED" =>
           \/ Goes(t, <<>>)
           \/ Goes([t EXCEPT !.sock = Closed(t.sock)], <<Command("client", s, 0, "CLOSE", 0)>>)
           \/ Stop("close")
      /\ t.state = "FINISH" => Goes([t EXCEPT !.state = "REMOVED"], <<>>)
  BY Zenon DEF ClientTimer
<1>3. w \in ClientThread /\ now = <<>>
  BY <1>0, <1>1 DEF DataInv, Quiet
<1>4. /\ t \in ClientThread /\ t.timer = no /\ t.state = w.state /\ t.toSend = w.toSend
      /\ t.sent = w.sent /\ t.rcvd = w.rcvd /\ t.failed = w.failed
  <2>1. no \in BOOLEAN
    OBVIOUS
  <2> HIDE DEF no, w
  <2> QED
    BY <1>3, <2>1 DEF ClientThread
<1>5. ThreadState(w) /\ Reflects(s, w, c, <<>>)
  BY Zenon, <1>0, <1>3 DEF SessionInv
<1>6. Reflects(s, w, c, now') /\ \A q : Reflects(s, w, c, q)
  <2>1. <<>> # <<Opening(s)>>
    OBVIOUS
  <2> QED
    BY <1>5, <2>1 DEF Reflects
<1>7. /\ w.state \in {"WAITING", "CONNECTED", "DISCONNECTED", "FINISH"}
      /\ w.sent \in Nat /\ w.rcvd \in Nat /\ w.toSend \in Int
  BY <1>1, <1>3, <1>5, <0>ThreadFields DEF ThreadState
<1>8. ~t.timer
  BY <1>4
<1> DEFINE empty == <<>>
<1>9. empty \in Seq(Message) /\ Elems(empty) = {}
  BY DEF Elems
<1> HIDE DEF w, t, c, no
<1>10. CASE w.state = "WAITING"
  <2> DEFINE sock == "CONNECTING"
             u == [t EXCEPT !.sock = sock]
             kind == "OPEN_ACTIVE"
             len == 0
             m == Command("client", s, 0, kind, len)
  <2>1. client' = [client EXCEPT ![s] = u] /\ now' = <<m>> /\ UNCHANGED <<threads, requests>>
    BY <1>2, <1>4, <1>10
  <2>2. /\ sock \in {"BOUND", "CONNECTING", "CONNECTED", "PEER_CLOSED", "LOCALLY_CLOSED",
                     "CLOSED", "SOCKERROR"}
        /\ kind \in {"OPEN_ACTIVE", "SEND", "CLOSE"} /\ len \in Int
        /\ kind = "OPEN_ACTIVE"
    OBVIOUS
  <2> HIDE DEF sock, kind, len
  <2>3. /\ u \in ClientThread /\ u.timer = t.timer /\ u.state = t.state
        /\ u.toSend = t.toSend /\ u.sent = t.sent /\ u.rcvd = t.rcvd
    BY <1>4, <2>2 DEF ClientThread
  <2>4. Sole(m) /\ m.to = "tcp" /\ m.side = "client" /\ m.s = s /\ m.kind = kind
    BY <2>2, <0>ClientCommand
  <2> HIDE DEF u, m
  <2>5. c = None
    BY <1>1, <1>5, <1>10 DEF Reflects, w
  <2>6. Follows(u, w)
    BY <1>4, <2>3, <0>SameFollows
  <2>7. ThreadState(u)
    BY <1>4, <1>5, <1>8, <1>10, <2>3 DEF ThreadState
  <2>8. Reflects(s, u, c, now')
    BY <2>5 DEF Reflects
  <2>9. now' \in Seq(Message) /\ \A x \in Elems(now') : x = m
    BY <2>1, <2>4 DEF Sole
  <2>10. Orders(m, s, u, c, now')
    BY Zenon, <1>4, <1>8, <1>10, <2>1, <2>2, <2>3, <2>4, <2>5 DEF Orders, Told,
       Alone, Failures
  <2> QED
    BY Zenon, <1>1, <2>1, <2>3, <2>6, <2>7, <2>8, <2>9, <2>10, <0>ClientMoves DEF c,
       w
<1>11. CASE w.state = "CONNECTED"
  <2>1. sendRequest(s, t, <<>>) /\ t.state = "CONNECTED"
    BY Zenon, <1>2, <1>4, <1>11
  <2>2. t.sent <= t.rcvd
    BY <1>1, <1>4, <1>5, <1>11 DEF ThreadState, w
  <2>3. c # None => /\ c.fsm # "SYN_SENT" /\ ~c.sendFin
                    /\ c.fsm \notin Closing
    BY <1>6, <1>11 DEF Reflects, MayClose
  <2>4. \A x \in Sessions \ {s} : now # <<Opening(x)>>
    BY <1>3
  <2>5. client[s].state \in {"WAITING", "CONNECTED"}
    BY <1>11 DEF w
  <2> QED
    BY Zenon, <1>1, <1>4, <1>8, <2>1, <2>2, <2>3, <2>4, <2>5, <0>RequestKeeps DEF c
<1>12. CASE w.state = "DISCONNECTED"
  <2>0. MayClose(w) /\ MayClose(t)
    <3>1. w.sent <= w.rcvd /\ w.toSend <= 0
      BY <1>1, <1>5, <1>12 DEF ThreadState, w
    <3> QED
      BY Zenon, <1>4, <1>7, <1>12, <3>1 DEF MayClose
  <2>1. CASE Stop("close")
    BY <1>1, <2>1, NothingChanges DEF Stop, app
  <2>2. CASE Goes(t, <<>>)
    <3>1. client' = [client EXCEPT ![s] = t] /\ now' = empty /\ UNCHANGED <<threads, requests>>
      BY <2>2
    <3> HIDE DEF empty
    <3>2. Follows(t, w)
      BY <1>4, <0>SameFollows
    <3>3. ThreadState(t)
      BY <1>4, <1>5, <1>8, <1>12 DEF ThreadState
    <3>4. Reflects(s, t, c, now')
      BY <1>4, <1>6, <1>12, <2>0 DEF Reflects
    <3>5. now' \in Seq(Message) /\ \A x \in Elems(now') : Orders(x, s, t, c, now')
      BY <1>9, <3>1
    <3> QED
      BY Zenon, <1>1, <1>4, <3>1, <3>2, <3>3, <3>4, <3>5, <0>ClientMoves DEF c, w
  <2>3. CASE Goes([t EXCEPT !.sock = Closed(t.sock)], <<Command("client", s, 0, "CLOSE", 0)>>)
    <3> DEFINE sock == Closed(t.sock)
               u == [t EXCEPT !.sock = sock]
               kind == "CLOSE"
               len == 0
               m == Command("client", s, 0, kind, len)
    <3>1. client' = [client EXCEPT ![s] = u] /\ now' = <<m>> /\ UNCHANGED <<threads, requests>>
      BY <2>3
    <3>2. /\ sock \in {"BOUND", "CONNECTING", "CONNECTED", "PEER_CLOSED", "LOCALLY_CLOSED",
                       "CLOSED", "SOCKERROR"}
          /\ kind \in {"OPEN_ACTIVE", "SEND", "CLOSE"} /\ len \in Int
          /\ kind = "CLOSE"
      BY DEF Closed
    <3> HIDE DEF sock, kind, len
    <3>3. /\ u \in ClientThread /\ u.timer = t.timer /\ u.state = t.state
          /\ u.toSend = t.toSend /\ u.sent = t.sent /\ u.rcvd = t.rcvd
      BY <1>4, <3>2 DEF ClientThread
    <3>4. Sole(m) /\ m.to = "tcp" /\ m.side = "client" /\ m.s = s /\ m.kind = kind
      BY <3>2, <0>ClientCommand
    <3> HIDE DEF u, m
    <3>5. Follows(u, w) /\ MayClose(u)
      BY <1>4, <2>0, <3>3, <0>SameFollows
    <3>6. ThreadState(u)
      BY <1>4, <1>5, <1>8, <1>12, <3>3 DEF ThreadState
    <3>7. Reflects(s, u, c, now')
      BY <1>4, <1>6, <1>12, <3>3, <3>5 DEF Reflects
    <3>8. now' \in Seq(Message) /\ \A x \in Elems(now') : x = m
      BY <3>1, <3>4 DEF Sole
    <3>9. Orders(m, s, u, c, now')
      BY <3>2, <3>4, <3>5 DEF Orders, Told, Alone, Failures
    <3> QED
      BY Zenon, <1>1, <3>1, <3>3, <3>5, <3>6, <3>7, <3>8, <3>9, <0>ClientMoves
         DEF c, w
  <2> QED
    BY <1>2, <1>4, <1>12, <2>1, <2>2, <2>3
<1>13. CASE w.state = "FINISH"
  <2> DEFINE removed == "REMOVED"
             u == [t EXCEPT !.state = removed]
  <2>1. client' = [client EXCEPT ![s] = u] /\ now' = empty /\ UNCHANGED <<threads, requests>>
    BY <1>2, <1>4, <1>13
  <2>2. /\ removed \in {"IDLE", "WAITING", "CONNECTED", "DISCONNECTED", "FINISH", "REMOVED"}
        /\ removed = "REMOVED"
    OBVIOUS
  <2> HIDE DEF removed, empty
  <2>3. /\ u \in ClientThread /\ u.timer = t.timer /\ u.state = removed /\ u.failed = t.failed
        /\ u.toSend = t.toSend /\ u.sent = t.sent /\ u.rcvd = t.rcvd
    BY <1>4, <2>2 DEF ClientThread
  <2> HIDE DEF u
  <2>4. Follows(u, w) /\ (MayClose(w) => MayClose(u))
    BY <1>4, <1>13, <2>2, <2>3 DEF Follows, MayClose
  <2>5. ThreadState(u)
    BY Zenon, <1>4, <1>5, <1>8, <1>13, <2>2, <2>3, <2>4 DEF ThreadState
  <2>6. Reflects(s, u, c, now')
    BY <1>6, <1>13, <2>2, <2>3, <2>4 DEF Reflects
  <2>7. now' \in Seq(Message) /\ \A x \in Elems(now') : Orders(x, s, u, c, now')
    BY <1>9, <2>1
  <2> QED
    BY Zenon, <1>1, <2>1, <2>3, <2>4, <2>5, <2>6, <2>7, <0>ClientMoves DEF c, w
<1> QED
  BY <1>7, <1>10, <1>11, <1>12, <1>13

\* A client thread that hears the first message, and sends nothing.
<0>ClientListens.
  ASSUME Inv, now # <<>>, NEW s \in Sessions, Head(now).s = s, NEW u \in ClientThread,
         client' = [client EXCEPT ![s] = u], now' = Tail(now),
         Follows(u, client[s]), ThreadState(u), Reflects(s, u, conn["client"][s], now'),
         UNCHANGED <<threads, requests, conn, count, forks, ends, net, lost, gaveUp>>
  PROVE  Inv'
<1> USE <0>ClientListens
<1>0. DataInv /\ SessionInv
  BY DEF Inv
<1>1. \A x \in Sessions \ {s} : now # <<Opening(x)>>
  <2> SUFFICES ASSUME NEW x \in Sessions, x # s, now = <<Opening(x)>> PROVE FALSE
    OBVIOUS
  <2>1. Head(now) = Opening(x)
    OBVIOUS
  <2> QED
    BY <2>1 DEF Opening
<1>2. requests' \in [Sessions -> Seq(Request)]
  BY <1>0 DEF DataInv
<1>3. \A x \in Sessions : DOMAIN requests[x] \subseteq DOMAIN requests'[x]
  BY Zenon
<1>4. Tail(now) \in Seq(Message)
  BY Zenon, <1>0, First
<1>5. \A m \in Elems(Tail(now)) : Stays(m)
  BY Zenon, <1>0, Behind DEF Stays
<1> QED
  BY Zenon, <1>1, <1>2, <1>3, <1>4, <1>5, <0>ClientStep

\* ClientHears keeps the invariant.
<0>ClientHearsKeeps.
  ASSUME Inv, now # <<>>, Head(now).to = "app", Head(now).side = "client",
         ClientHears(Head(now), Tail(now)),
         UNCHANGED <<conn, count, forks, ends, net, lost, gaveUp>>
  PROVE  Inv'
<1> USE <0>ClientHearsKeeps
<1> DEFINE m == Head(now)
           s == m.s
           w == client[s]
           c == conn["client"][s]
           q == Tail(now)
           Goes(u) == /\ client' = [client EXCEPT ![s] = u]
                      /\ now' = q
                      /\ UNCHANGED <<threads, requests, error>>
           opened == [w EXCEPT !.sock = "CONNECTED", !.state = "CONNECTED",
                               !.toSend = max(w.toSend, 1)]
<1>0. DataInv /\ SessionInv
  BY DEF Inv
<1>1. /\ m \in Message /\ ProperMessage(m, forks, requests)
      /\ Told(m, w, c) /\ Alone(m, now)
  BY <1>0, First
<1>2. s \in Sessions /\ m.kind \in Kinds /\ m.side = "client"
  BY Zenon, <1>1 DEF Message, ProperMessage
<1>3. \/ \E what : Stop(what)
      \/ /\ w.state \notin {"IDLE", "REMOVED"}
         /\ m.kind = "DATA" => ~w.timer /\ Goes([w EXCEPT !.rcvd = w.rcvd + 1, !.timer = TRUE])
         /\ m.kind = "ESTABLISHED" => sendRequest(s, opened, q)
         /\ m.kind = "PEER_CLOSED" => Goes([w EXCEPT !.sock = PeerClosed(w.sock)])
         /\ m.kind = "CLOSED" =>
              Goes([[w EXCEPT !.sock = "CLOSED"] EXCEPT !.timer = TRUE, !.state = "FINISH"])
         /\ m.kind \in Failures =>
              Goes([w EXCEPT !.sock = "SOCKERROR", !.timer = FALSE,
                             !.state = "REMOVED", !.failed = TRUE])
  <2>1. CASE w.state \in {"IDLE", "REMOVED"}
    BY Zenon, <2>1 DEF ClientHears
  <2>2. CASE w.state \notin {"IDLE", "REMOVED"}
    <3> DEFINE data == IF w.timer THEN Stop("timer")
                       ELSE Goes([w EXCEPT !.rcvd = w.rcvd + 1, !.timer = TRUE])
               established == sendRequest(s, opened, q)
               peerClosed == Goes([w EXCEPT !.sock = PeerClosed(w.sock)])
               closed == Goes([[w EXCEPT !.sock = "CLOSED"]
                                 EXCEPT !.timer = TRUE, !.state = "FINISH"])
               failure == Goes([w EXCEPT !.sock = "SOCKERROR", !.timer = FALSE,
                                         !.state = "REMOVED", !.failed = TRUE])
    <3>1. (CASE m.kind = "DATA"       -> data
            [] m.kind = "ESTABLISHED" -> established
            [] m.kind = "PEER_CLOSED" -> peerClosed
            [] m.kind = "CLOSED"      -> closed
            [] m.kind \in Failures    -> failure)
      BY Zenon, <2>2 DEF ClientHears, socketClosed
    <3>2. data => Stop("timer") \/ (~w.timer /\ Goes([w EXCEPT !.rcvd = w.rcvd + 1, !.timer = TRUE]))
      OBVIOUS
    <3> HIDE DEF data, established, peerClosed, closed, failure, m
    <3>3. /\ m.kind = "DATA" => data
          /\ m.kind = "ESTABLISHED" => established
          /\ m.kind = "PEER_CLOSED" => peerClosed
          /\ m.kind = "CLOSED" => closed
          /\ m.kind \in Failures => failure
      BY Zenon, <3>1 DEF Failures
    <3> HIDE DEF opened, Goes, s, w, q
    <3> QED
      BY <2>2, <3>2, <3>3 DEF established, peerClosed, closed, failure
  <2> QED
    BY <2>1, <2>2
<1>4. w \in ClientThread /\ ThreadState(w) /\ Reflects(s, w, c, now)
  BY Zenon, <1>0, <1>2 DEF DataInv, SessionInv
<1>5. /\ w.sent \in Nat /\ w.rcvd \in Nat /\ w.toSend \in Int /\ w.timer \in BOOLEAN
      /\ w.sock \in {"BOUND", "CONNECTING", "CONNECTED", "PEER_CLOSED", "LOCALLY_CLOSED",
                     "CLOSED", "SOCKERROR"}
  BY <1>4, <0>ThreadFields
<1>6. CASE \E what : Stop(what)
  BY <1>6, NothingChanges DEF Stop, app
<1>7. m.kind # "ESTABLISHED" => /\ now # <<Opening(s)>>
                                /\ \A p : Reflects(s, w, c, p)
  <2>1. \A o : now = <<o>> => Head(now) = o
    OBVIOUS
  <2>2. Opening(s).kind = "ESTABLISHED"
    BY DEF Opening
  <2>3. m = Head(now)
    OBVIOUS
  <2> HIDE DEF m, s, w, c
  <2> QED
    BY <1>4, <2>1, <2>2, <2>3, ReflectsAlways
<1>8. Head(now).s = s /\ c = conn["client"][s] /\ w = client[s] /\ q = Tail(now)
  OBVIOUS
<1> HIDE DEF m, s, w, c, q
<1>9. CASE m.kind = "PEER_CLOSED" /\ Goes([w EXCEPT !.sock = PeerClosed(w.sock)])
  <2> DEFINE sock == PeerClosed(w.sock)
             u == [w EXCEPT !.sock = sock]
  <2>1. /\ client' = [client EXCEPT ![s] = u] /\ now' = Tail(now)
        /\ UNCHANGED <<threads, requests>>
    BY <1>8, <1>9
  <2>2. sock \in {"BOUND", "CONNECTING", "CONNECTED", "PEER_CLOSED", "LOCALLY_CLOSED",
                  "CLOSED", "SOCKERROR"}
    BY DEF PeerClosed
  <2> HIDE DEF sock
  <2>3. /\ u \in ClientThread /\ u.timer = w.timer /\ u.state = w.state /\ u.failed = w.failed
        /\ u.toSend = w.toSend /\ u.sent = w.sent /\ u.rcvd = w.rcvd
    BY <1>4, <2>2 DEF ClientThread
  <2> HIDE DEF u
  <2>4. Follows(u, w) /\ (MayClose(w) <=> MayClose(u))
    BY <2>3, <0>SameFollows
  <2>5. ThreadState(u)
    BY <1>4, <2>3, <2>4 DEF ThreadState
  <2>6. Reflects(s, w, c, now')
    BY <1>7, <1>9
  <2>7. Reflects(s, u, c, now')
    BY <2>3, <2>4, <2>6 DEF Reflects
  <2> QED
    BY Zenon, <1>2, <1>8, <2>1, <2>3, <2>4, <2>5, <2>7, <0>ClientListens
<1>10. CASE /\ m.kind = "DATA" /\ w.state \notin {"IDLE", "REMOVED"} /\ ~w.timer
            /\ Goes([w EXCEPT !.rcvd = w.rcvd + 1, !.timer = TRUE])
  <2> DEFINE rcvd == w.rcvd + 1
             yes == TRUE
             u == [w EXCEPT !.rcvd = rcvd, !.timer = yes]
  <2>1. /\ client' = [client EXCEPT ![s] = u] /\ now' = Tail(now)
        /\ UNCHANGED <<threads, requests>>
    BY <1>8, <1>10
  <2>2. rcvd \in Nat /\ yes \in BOOLEAN /\ yes /\ rcvd = w.rcvd + 1
    BY <1>5
  <2> HIDE DEF rcvd, yes
  <2>3. /\ u \in ClientThread /\ u.timer = yes /\ u.state = w.state /\ u.failed = w.failed
        /\ u.toSend = w.toSend /\ u.sent = w.sent /\ u.rcvd = rcvd
    BY Zenon, <1>4, <2>2 DEF ClientThread
  <2> HIDE DEF u
  <2>4. Follows(u, w) /\ (MayClose(w) => MayClose(u))
    BY <1>5, <2>2, <2>3 DEF Follows, MayClose
  <2>5. w.state \notin {"IDLE", "WAITING", "REMOVED"}
    BY <1>1, <1>2, <1>10 DEF Told
  <2>6. ThreadState(u)
    BY <1>4, <1>5, <2>2, <2>3, <2>4, <2>5 DEF ThreadState
  <2>7. Reflects(s, w, c, now')
    BY <1>7, <1>10
  <2>8. Reflects(s, u, c, now')
    BY <2>3, <2>4, <2>5, <2>7 DEF Reflects
  <2> QED
    BY Zenon, <1>2, <1>8, <2>1, <2>3, <2>4, <2>6, <2>8, <0>ClientListens
<1>11. CASE /\ m.kind = "CLOSED" /\ w.state \notin {"IDLE", "REMOVED"}
            /\ Goes([[w EXCEPT !.sock = "CLOSED"] EXCEPT !.timer = TRUE, !.state = "FINISH"])
  <2> DEFINE sock == "CLOSED"
             yes == TRUE
             state == "FINISH"
             v == [w EXCEPT !.sock = sock]
             u == [v EXCEPT !.timer = yes, !.state = state]
  <2>1. /\ client' = [client EXCEPT ![s] = u] /\ now' = Tail(now)
        /\ UNCHANGED <<threads, requests>>
    BY <1>8, <1>11
  <2>2. /\ sock \in {"BOUND", "CONNECTING", "CONNECTED", "PEER_CLOSED", "LOCALLY_CLOSED",
                     "CLOSED", "SOCKERROR"}
        /\ yes \in BOOLEAN /\ yes
        /\ state \in {"IDLE", "WAITING", "CONNECTED", "DISCONNECTED", "FINISH", "REMOVED"}
        /\ state = "FINISH"
    OBVIOUS
  <2> HIDE DEF sock, yes, state
  <2>3. /\ v \in ClientThread /\ v.failed = w.failed
        /\ v.toSend = w.toSend /\ v.sent = w.sent /\ v.rcvd = w.rcvd
    BY <1>4, <2>2 DEF ClientThread
  <2> HIDE DEF v
  <2>4. /\ u \in ClientThread /\ u.timer = yes /\ u.state = state /\ u.failed = w.failed
        /\ u.toSend = w.toSend /\ u.sent = w.sent /\ u.rcvd = w.rcvd
    BY Zenon, <2>2, <2>3 DEF ClientThread
  <2> HIDE DEF u
  <2>5. MayClose(w)
    BY <1>1, <1>2, <1>11 DEF Told
  <2>6. MayClose(u) /\ Follows(u, w)
    BY <2>2, <2>4, <2>5 DEF MayClose, Follows
  <2>7. ThreadState(u)
    BY <1>4, <2>2, <2>4, <2>6 DEF ThreadState
  <2>8. Reflects(s, w, c, now')
    BY Zenon, <1>7, <1>11
  <2>9. Reflects(s, u, c, now')
    BY <2>2, <2>4, <2>5, <2>6, <2>8 DEF Reflects, MayClose
  <2> QED
    BY Zenon, <1>2, <1>8, <2>1, <2>4, <2>6, <2>7, <2>9, <0>ClientListens
<1>12. CASE /\ m.kind \in Failures
            /\ Goes([w EXCEPT !.sock = "SOCKERROR", !.timer = FALSE,
                              !.state = "REMOVED", !.failed = TRUE])
  <2> DEFINE sock == "SOCKERROR"
             yes == TRUE
             no == FALSE
             state == "REMOVED"
             u == [w EXCEPT !.sock = sock, !.timer = no, !.state = state, !.failed = yes]
  <2>1. /\ client' = [client EXCEPT ![s] = u] /\ now' = Tail(now)
        /\ UNCHANGED <<threads, requests>>
    BY <1>8, <1>12
  <2>2. /\ sock \in {"BOUND", "CONNECTING", "CONNECTED", "PEER_CLOSED", "LOCALLY_CLOSED",
                     "CLOSED", "SOCKERROR"}
        /\ yes \in BOOLEAN /\ no \in BOOLEAN /\ yes /\ ~no
        /\ state \in {"IDLE", "WAITING", "CONNECTED", "DISCONNECTED", "FINISH", "REMOVED"}
        /\ state = "REMOVED"
    OBVIOUS
  <2>3. m.kind # "ESTABLISHED"
    BY <1>12 DEF Failures
  <2> HIDE DEF sock, yes, no, state
  <2>4. /\ u \in ClientThread /\ u.timer = no /\ u.state = state /\ u.failed = yes
        /\ u.toSend = w.toSend /\ u.sent = w.sent /\ u.rcvd = w.rcvd
    BY Zenon, <1>4, <2>2 DEF ClientThread
  <2> HIDE DEF u
  <2>5. Follows(u, w) /\ (MayClose(w) => MayClose(u))
    BY <2>2, <2>4 DEF MayClose, Follows
  <2>6. ThreadState(u)
    BY <1>4, <2>2, <2>4 DEF ThreadState
  <2>7. Reflects(s, w, c, now') /\ ~(c # None /\ c.fsm = "SYN_SENT")
    BY Zenon, <1>1, <1>2, <1>7, <1>12, <2>3 DEF Told
  <2>8. Reflects(s, u, c, now')
    BY <2>2, <2>4, <2>5, <2>7 DEF Reflects
  <2> QED
    BY Zenon, <1>2, <1>8, <2>1, <2>4, <2>5, <2>6, <2>8, <0>ClientListens
<1>13. CASE m.kind = "ESTABLISHED" /\ sendRequest(s, opened, q)
  <2> DEFINE connected == "CONNECTED"
             todo == max(w.toSend, 1)
             t == [w EXCEPT !.sock = connected, !.state = connected, !.toSend = todo]
  <2>1. t = opened
    OBVIOUS
  <2>2. /\ connected \in {"BOUND", "CONNECTING", "CONNECTED", "PEER_CLOSED",
                          "LOCALLY_CLOSED", "CLOSED", "SOCKERROR"}
        /\ connected \in {"IDLE", "WAITING", "CONNECTED", "DISCONNECTED", "FINISH", "REMOVED"}
        /\ connected = "CONNECTED" /\ todo \in Int
    BY <1>5 DEF max
  <2> HIDE DEF connected, todo, opened
  <2>3. /\ t \in ClientThread /\ t.timer = w.timer /\ t.state = connected
        /\ t.sent = w.sent /\ t.rcvd = w.rcvd
    BY Zenon, <1>4, <2>2 DEF ClientThread
  <2> HIDE DEF t
  <2>4. /\ w.state = "WAITING" /\ ~w.timer /\ now = <<m>>
        /\ c # None /\ c.fsm = "ESTABLISHED" /\ ~c.sendFin
    BY <1>1, <1>2, <1>13 DEF Told, Alone
  <2>5. w.sent = 0 /\ w.rcvd = 0
    BY <1>4, <2>4 DEF ThreadState
  <2>6. q = <<>>
    <3>1. \A o : now = <<o>> => Tail(now) = <<>>
      OBVIOUS
    <3> QED
      BY <1>8, <2>4, <3>1
  <2>7. sendRequest(s, t, <<>>)
    BY Zenon, <1>13, <2>1, <2>6
  <2>8. \A x \in Sessions \ {s} : now # <<Opening(x)>>
    <3> SUFFICES ASSUME NEW x \in Sessions, x # s, now = <<Opening(x)>> PROVE FALSE
      OBVIOUS
    <3>1. Head(now) = Opening(x)
      OBVIOUS
    <3> QED
      BY <1>8, <3>1 DEF Opening
  <2>9. c.fsm \notin Closing /\ c.fsm # "SYN_SENT"
    BY <2>4 DEF Closing
  <2>10. client[s].state \in {"WAITING", "CONNECTED"}
    BY <1>8, <2>4
  <2>11. t.state = "CONNECTED" /\ ~t.timer /\ t.sent <= t.rcvd
    BY <2>2, <2>3, <2>4, <2>5
  <2> QED
    BY Zenon, <1>2, <1>8, <2>3, <2>4, <2>7, <2>8, <2>9, <2>10, <2>11,
       <0>RequestKeeps
<1> QED
  BY <1>2, <1>3, <1>6, <1>9, <1>10, <1>11, <1>12, <1>13 DEF Kinds

<0> QED
  BY <0>StartKeeps, <0>ClientTimerKeeps, <0>ClientHearsKeeps DEF MessageTo

-----------------------------------------------------------------------------
(* The steps of the server's threads.                                      *)

\* The command m of a server thread.
Answers(m) ==
  /\ m.to = "tcp" /\ m.side = "server" /\ m.kind \in {"SEND", "CLOSE", "ABORT"}
  /\ m.k \in 1 .. forks[m.s]

\* What the steps use of finite sets.
CardinalityFacts ==
  \A S : IsFiniteSet(S) =>
    /\ Cardinality(S) \in Nat
    /\ \A T \in SUBSET S : IsFiniteSet(T) /\ Cardinality(T) <= Cardinality(S)
    /\ \A x : x \notin S =>
         IsFiniteSet(S \cup {x}) /\ Cardinality(S \cup {x}) = Cardinality(S) + 1
    /\ \A x \in S :
         IsFiniteSet(S \ {x}) /\ Cardinality(S \ {x}) = Cardinality(S) - 1

\* The server threads keep it when a timer expires and a message arrives.
LEMMA ServerSteps ==
  ASSUME CardinalityFacts
  PROVE  /\ \A id \in DOMAIN threads : Inv /\ ServerTimer(id) => Inv'
         /\ Inv /\ MessageTo("server") /\ ServerHears(Head(now), Tail(now)) => Inv'

\* One more reply to send.
<0>MoreReplies. ASSUME NEW rs \in Seq(Nat), NEW n \in Nat PROVE Append(rs, n) \in Seq(Nat)
  OBVIOUS

\* A step of the server application.
<0>ServerStep.
  ASSUME Inv, ThreadInv', \A x \in Sessions : now # <<Opening(x)>>,
         now' \in Seq(Message), \A m \in Elems(now') : Stays(m) \/ Answers(m),
         UNCHANGED <<client, requests, conn, count, forks, ends, net, lost, gaveUp>>
  PROVE  Inv'
<1> USE <0>ServerStep
<1>0. DataInv /\ CountInv /\ SessionInv
  BY DEF Inv
<1>1. \A m \in Elems(now') : ProperMessage(m, forks, requests)
  BY Zenon, <1>0 DEF Stays, Answers, ProperMessage, DataInv
<1>2. DataInv'
  BY <1>0, <1>1 DEF DataInv
<1>3. CountInv'
  BY <1>0 DEF CountInv
<1>4. \A x \in Sessions : /\ ThreadState(client[x])
                          /\ Reflects(x, client[x], conn["client"][x], now')
  <2>1. \A x \in Sessions : /\ ThreadState(client[x])
                            /\ Reflects(x, client[x], conn["client"][x], now)
    BY Zenon, <1>0 DEF SessionInv
  <2> QED
    BY Zenon, <2>1, ReflectsAlways
<1>5. \A m \in Elems(now') : /\ Told(m, client[m.s], conn["client"][m.s])
                             /\ Alone(m, now')
  <2> SUFFICES ASSUME NEW m \in Elems(now')
               PROVE  Told(m, client[m.s], conn["client"][m.s]) /\ Alone(m, now')
    BY Zenon
  <2>1. CASE Stays(m)
    BY Zenon, <1>0, <2>1 DEF Stays, SessionInv, Alone
  <2>2. CASE Answers(m)
    BY <2>2 DEF Answers, Told, Alone
  <2> QED
    BY Zenon, <2>1, <2>2
<1>6. SessionInv'
  BY Zenon, <1>4, <1>5 DEF SessionInv
<1> QED
  BY <1>2, <1>3, <1>6 DEF Inv

\* A thread is kept: it was there, or there was room for it.
<0>KeepsThread.
  ASSUME ThreadInv, NEW id \in Sessions \X Nat, id[2] \in 1 .. forks[id[1]],
         NEW t \in ServerThread, Keeps(id, t), forks' = forks,
         id \in DOMAIN threads \/ Cardinality(DOMAIN threads) < MaxThreads
  PROVE  ThreadInv'
<1> USE <0>KeepsThread
<1> DEFINE D == DOMAIN threads
           E == D \cup {id}
<1>1. /\ threads \in [D -> ServerThread] /\ IsFiniteSet(D) /\ Cardinality(D) <= MaxThreads
      /\ \A i \in D : i \in Sessions \X Nat /\ i[2] \in 1 .. forks[i[1]]
  BY DEF ThreadInv
<1>2. threads' = [i \in E |-> IF i = id THEN t ELSE threads[i]]
  BY DEF Keeps
<1> HIDE DEF D, E
<1>3. DOMAIN threads' = E /\ threads' \in [E -> ServerThread]
  BY <1>1, <1>2 DEF E
<1>4. \A i \in E : i \in Sessions \X Nat /\ i[2] \in 1 .. forks[i[1]]
  BY <1>1 DEF E
<1>5. IsFiniteSet(E) /\ Cardinality(E) <= MaxThreads
  <2>1. CASE id \in D
    <3>1. E = D
      BY Zenon, <2>1 DEF E
    <3> QED
      BY <1>1, <3>1
  <2>2. CASE id \notin D
    <3>1. IsFiniteSet(E) /\ Cardinality(E) = Cardinality(D) + 1
      BY Zenon, <1>1, <2>2 DEF E, CardinalityFacts
    <3>2. Cardinality(D) \in Nat /\ Cardinality(D) < MaxThreads
      BY <1>1, <2>2 DEF D, CardinalityFacts
    <3> QED
      BY <3>1, <3>2, ApplicationAssumption
  <2> QED
    BY <2>1, <2>2
<1> QED
  BY <1>3, <1>4, <1>5 DEF ThreadInv

\* A thread is removed.
<0>RemovesThread.
  ASSUME ThreadInv, NEW id, removeThread(id), forks' = forks
  PROVE  ThreadInv'
<1> USE <0>RemovesThread
<1> DEFINE D == DOMAIN threads
           E == D \ {id}
<1>1. /\ threads \in [D -> ServerThread] /\ IsFiniteSet(D) /\ Cardinality(D) <= MaxThreads
      /\ \A i \in D : i \in Sessions \X Nat /\ i[2] \in 1 .. forks[i[1]]
  BY DEF ThreadInv
<1>2. threads' = [i \in E |-> threads[i]]
  BY DEF removeThread
<1> HIDE DEF D, E
<1>3. DOMAIN threads' = E /\ threads' \in [E -> ServerThread]
  BY <1>1, <1>2 DEF E
<1>4. \A i \in E : i \in Sessions \X Nat /\ i[2] \in 1 .. forks[i[1]]
  BY <1>1 DEF E
<1>0. E \subseteq D
  BY DEF E
<1>5. IsFiniteSet(E) /\ Cardinality(E) <= Cardinality(D)
  BY Zenon, <1>1, <1>0 DEF CardinalityFacts
<1>6. Cardinality(E) \in Nat /\ Cardinality(D) \in Nat
  BY Zenon, <1>1, <1>5 DEF CardinalityFacts
<1>7. Cardinality(E) <= MaxThreads
  BY <1>1, <1>5, <1>6, ApplicationAssumption
<1> QED
  BY <1>3, <1>4, <1>5, <1>7 DEF ThreadInv

\* A queue of commands of a server thread.
<0>ServerCommands.
  ASSUME NEW s \in Sessions, NEW k \in Nat, k \in 1 .. forks[s], NEW lens \in Seq(Nat),
         NEW kind \in {"SEND", "CLOSE", "ABORT"}
  PROVE  LET q == [i \in DOMAIN lens |-> Command("server", s, k, kind, lens[i])]
         IN q \in Seq(Message) /\ \A m \in Elems(q) : Answers(m)
<1> USE <0>ServerCommands
<1> DEFINE side == "server"
           M(i) == Command(side, s, k, kind, lens[i])
           q == [i \in DOMAIN lens |-> M(i)]
<1>1. side \in Sides /\ kind \in {"OPEN_ACTIVE", "SEND", "CLOSE", "ABORT"}
  BY DEF Sides
<1>2. DOMAIN lens = 1 .. Len(lens) /\ Len(lens) \in Nat /\ \A i \in DOMAIN lens : lens[i] \in Nat
  OBVIOUS
<1>3. \A i \in DOMAIN lens : /\ M(i) \in Message /\ M(i).to = "tcp" /\ M(i).side = side
                             /\ M(i).s = s /\ M(i).k = k /\ M(i).kind = kind
  <2> TAKE i \in DOMAIN lens
  <2>1. lens[i] \in Int
    BY <1>2
  <2> DEFINE len == lens[i]
  <2> HIDE DEF side, len
  <2>2. LET m == Command(side, s, k, kind, len)
        IN /\ m \in Message
           /\ m.to = "tcp" /\ m.side = side /\ m.s = s /\ m.k = k /\ m.kind = kind
    BY SMTT(30), <1>1, <2>1, CommandType DEF len
  <2> QED
    BY Zenon, <2>2 DEF len
<1>4. \A i \in DOMAIN lens : Answers(M(i))
  BY <1>3 DEF Answers
<1> HIDE DEF M
<1>5. q \in Seq(Message) /\ DOMAIN q = DOMAIN lens
  BY <1>2, <1>3
<1>6. \A m \in Elems(q) : Answers(m)
  BY Zenon, <1>4, <1>5 DEF Elems
<1> QED
  BY <1>5, <1>6 DEF M, side

\* One command of a server thread.
<0>ServerCommand.
  ASSUME NEW s \in Sessions, NEW k \in Nat, k \in 1 .. forks[s],
         NEW kind \in {"SEND", "CLOSE", "ABORT"}
  PROVE  LET m == Command("server", s, k, kind, 0)
         IN m \in Message /\ Answers(m)
<1> USE <0>ServerCommand
<1> DEFINE side == "server"
           len == 0
           m == Command(side, s, k, kind, len)
<1>1. /\ side \in Sides /\ kind \in {"OPEN_ACTIVE", "SEND", "CLOSE", "ABORT"}
      /\ len \in Int /\ side = "server"
  BY DEF Sides
<1> HIDE DEF side, len
<1>2. /\ m \in Message
      /\ m.to = "tcp" /\ m.side = side /\ m.s = s /\ m.k = k /\ m.kind = kind
  BY <1>1, CommandType
<1> HIDE DEF m
<1>3. Answers(m)
  BY Zenon, <1>1, <1>2 DEF Answers
<1> QED
  BY <1>2, <1>3 DEF m, side, len

\* Respond keeps the invariant.
<0>RespondKeeps.
  ASSUME Inv, NEW id \in Sessions \X Nat, id[2] \in 1 .. forks[id[1]],
         NEW t \in ServerThread, NEW reply \in Seq(Nat), NEW q \in Seq(Message),
         \A m \in Elems(q) : Stays(m), Respond(id, t, reply, q),
         id \in DOMAIN threads \/ Cardinality(DOMAIN threads) < MaxThreads,
         \A x \in Sessions : now # <<Opening(x)>>,
         UNCHANGED <<conn, count, forks, ends, net, lost, gaveUp>>
  PROVE  Inv'
<1> USE <0>RespondKeeps
<1> DEFINE closes == t.doClose /\ t.sock # "LOCALLY_CLOSED"
           sock == Closed(t.sock)
           u == IF closes THEN [t EXCEPT !.sock = sock] ELSE t
           s == id[1]
           k == id[2]
           a == [i \in DOMAIN reply |-> Command("server", s, k, "SEND", reply[i])]
           m == Command("server", s, k, "CLOSE", 0)
           b == IF closes THEN <<m>> ELSE <<>>
<1>1. CASE Stop("send")
  BY <1>1, NothingChanges DEF Stop, app
<1>2. CASE ~Stop("send")
  <2>1. /\ Keeps(id, u)
        /\ now' = q \o a \o b
        /\ UNCHANGED <<client, requests>>
    BY Zenon, <1>2 DEF Respond
  <2>2. s \in Sessions /\ k \in Nat /\ k \in 1 .. forks[s]
    OBVIOUS
  <2>3. u \in ServerThread
    <3>1. sock \in {"CONNECTED", "PEER_CLOSED", "LOCALLY_CLOSED", "CLOSED"}
      BY DEF Closed
    <3> HIDE DEF sock
    <3>2. [t EXCEPT !.sock = sock] \in ServerThread
      BY Zenon, <3>1 DEF ServerThread
    <3> QED
      BY Zenon, <3>2
  <2> HIDE DEF s, k
  <2>4. a \in Seq(Message) /\ \A x \in Elems(a) : Answers(x)
    <3> DEFINE kind == "SEND"
    <3>1. kind \in {"SEND", "CLOSE", "ABORT"}
      OBVIOUS
    <3> HIDE DEF kind
    <3>2. LET r == [i \in DOMAIN reply |-> Command("server", s, k, kind, reply[i])]
          IN r \in Seq(Message) /\ \A x \in Elems(r) : Answers(x)
      BY ZenonT(30), <2>2, <3>1, <0>ServerCommands
    <3> QED
      BY Zenon, <3>2 DEF kind
  <2>5. m \in Message /\ Answers(m)
    <3> DEFINE kind == "CLOSE"
    <3>1. kind \in {"SEND", "CLOSE", "ABORT"}
      BY Zenon
    <3> HIDE DEF kind
    <3>2. LET r == Command("server", s, k, kind, 0) IN r \in Message /\ Answers(r)
      BY Zenon, <2>2, <3>1, <0>ServerCommand
    <3> QED
      BY <3>2 DEF kind
  <2> HIDE DEF m, a, u
  <2>6. b \in Seq(Message) /\ \A x \in Elems(b) : Answers(x)
    <3>1. /\ <<>> \in Seq(Message) /\ Elems(<<>>) = {}
          /\ <<m>> \in Seq(Message) /\ Elems(<<m>>) = {m}
      BY Zenon, <2>5, ElemsOfFew
    <3> HIDE DEF closes
    <3> QED
      BY Zenon, <2>5, <3>1
  <2> HIDE DEF b
  <2> DEFINE p == q \o a
  <2>7. p \in Seq(Message) /\ Elems(p) \subseteq Elems(q) \cup Elems(a)
    BY <2>4, ElemsOfConcat
  <2>8. now' = p \o b
    BY Zenon, <2>1
  <2> HIDE DEF p
  <2>9. now' \in Seq(Message) /\ Elems(now') \subseteq Elems(p) \cup Elems(b)
    BY Zenon, <2>6, <2>7, <2>8, ElemsOfConcat
  <2>10. \A x \in Elems(now') : Stays(x) \/ Answers(x)
    BY Zenon, <2>4, <2>6, <2>7, <2>9
  <2>11. ThreadInv'
    <3>1. ThreadInv
      BY Zenon DEF Inv
    <3> QED
      BY Zenon, <2>1, <2>3, <3>1, <0>KeepsThread
  <2> QED
    BY Zenon, <2>1, <2>9, <2>10, <2>11, <0>ServerStep
<1> QED
  BY Zenon, <1>1, <1>2

\* A server thread that becomes t and sends nothing.
<0>ServerListens.
  ASSUME Inv, NEW id \in Sessions \X Nat, id[2] \in 1 .. forks[id[1]],
         NEW t \in ServerThread, NEW q \in Seq(Message), \A m \in Elems(q) : Stays(m),
         Keeps(id, t) \/ removeThread(id), now' = q,
         id \in DOMAIN threads \/ Cardinality(DOMAIN threads) < MaxThreads,
         \A x \in Sessions : now # <<Opening(x)>>,
         UNCHANGED <<client, requests, conn, count, forks, ends, net, lost, gaveUp>>
  PROVE  Inv'
<1> USE <0>ServerListens
<1>1. ThreadInv
  BY Zenon DEF Inv
<1>2. ThreadInv'
  BY <1>1, <0>KeepsThread, <0>RemovesThread
<1> QED
  BY Zenon, <1>2, <0>ServerStep

\* ServerTimer keeps the invariant.
<0>ServerTimerKeeps.
  ASSUME Inv, NEW id \in DOMAIN threads, ServerTimer(id)
  PROVE  Inv'
<1> USE <0>ServerTimerKeeps
<1> DEFINE w == threads[id]
           n == min(1, Len(w.replies))
           no == FALSE
           rest == SubSeq(w.replies, n + 1, Len(w.replies))
           reply == SubSeq(w.replies, 1, n)
           t == [w EXCEPT !.timer = no, !.replies = rest]
<1>1. /\ Quiet /\ Respond(id, t, reply, <<>>)
      /\ UNCHANGED <<conn, count, forks, ends, net, lost, gaveUp>>
  BY DEF ServerTimer
<1>2. w \in ServerThread /\ id \in Sessions \X Nat /\ id[2] \in 1 .. forks[id[1]]
  BY DEF Inv, ThreadInv
<1>3. w.replies \in Seq(Nat) /\ Len(w.replies) \in Nat
  BY <1>2 DEF ServerThread
<1>4. n \in Nat /\ n <= Len(w.replies) /\ n <= 1
  BY <1>3 DEF min
<1>8. rest \in Seq(Nat) /\ reply \in Seq(Nat)
  BY <1>3, <1>4
<1>9. no \in BOOLEAN
  OBVIOUS
<1> HIDE DEF w, no, rest, reply
<1>10. t \in ServerThread
  BY Zenon, <1>2, <1>8, <1>9 DEF ServerThread
<1> HIDE DEF t
<1> DEFINE q == <<>>
<1>11. q \in Seq(Message) /\ \A x \in Elems(q) : Stays(x)
  BY DEF Elems
<1>12. \A x \in Sessions : now # <<Opening(x)>>
  BY <1>1 DEF Quiet
<1>13. Respond(id, t, reply, q)
  BY SMTT(30), <1>1
<1> HIDE DEF q
<1> QED
  BY Zenon, <1>1, <1>2, <1>8, <1>10, <1>11, <1>12, <1>13, <0>RespondKeeps

\* The callbacks of a server thread keep the invariant.
<0>CallbackKeeps.
  ASSUME Inv, NEW m \in Message, m.kind \in Kinds, m.k \in 1 .. forks[m.s],
         m.kind = "DATA" => m.at \in DOMAIN requests[m.s],
         NEW id, id = <<m.s, m.k>>,
         NEW t \in ServerThread, NEW q \in Seq(Message), \A x \in Elems(q) : Stays(x),
         ServerCallback(id, t, m, q),
         id \in DOMAIN threads \/ Cardinality(DOMAIN threads) < MaxThreads,
         \A x \in Sessions : now # <<Opening(x)>>,
         UNCHANGED <<conn, count, forks, ends, net, lost, gaveUp>>
  PROVE  Inv'
<1> USE <0>CallbackKeeps
<1> DEFINE Goes(u) == /\ Keeps(id, u)
                      /\ now' = q
                      /\ UNCHANGED <<client, requests, error>>
           request == requests[m.s][m.at]
           doClose == request.last
           told == [t EXCEPT !.doClose = doClose]
           established == Goes([t EXCEPT !.sock = "CONNECTED"])
           later == [told EXCEPT !.timer = TRUE, !.replies = Append(told.replies, request.reply)]
           data == CASE request.reply = 0 -> Goes(told)
                     [] request.reply # 0 /\ request.time > 0 ->
                          IF t.timer THEN Stop("timer") ELSE Goes(later)
                     [] OTHER -> Respond(id, told, <<request.reply>>, q)
           peerClosed == Goes([t EXCEPT !.sock = PeerClosed(t.sock), !.doClose = TRUE])
           ended == removeThread(id) /\ now' = q /\ UNCHANGED <<client, requests, error>>
<1>0. /\ m.s \in Sessions /\ m.k \in Nat /\ id \in Sessions \X Nat
      /\ id[1] = m.s /\ id[2] = m.k /\ id[2] \in 1 .. forks[id[1]]
  BY Zenon DEF Message
<1>1. (CASE m.kind = "ESTABLISHED" -> established
         [] m.kind = "DATA" -> data
         [] m.kind = "PEER_CLOSED" -> peerClosed
         [] m.kind \in Failures \cup {"CLOSED"} -> ended)
  BY Zenon DEF ServerCallback
<1>2. ASSUME NEW u \in ServerThread, Goes(u) PROVE Inv'
  <2>1. Keeps(id, u) /\ now' = q /\ UNCHANGED <<client, requests>>
    BY Zenon, <1>2
  <2> QED
    BY Zenon, <1>0, <2>1, <0>ServerListens
<1>3. established => Inv'
  <2> DEFINE sock == "CONNECTED"
             u == [t EXCEPT !.sock = sock]
  <2>1. sock \in {"CONNECTED", "PEER_CLOSED", "LOCALLY_CLOSED", "CLOSED"}
    BY Zenon
  <2>2. established => Goes(u)
    OBVIOUS
  <2> HIDE DEF sock, Goes
  <2>3. u \in ServerThread
    BY ZenonT(30), <2>1 DEF ServerThread
  <2> HIDE DEF u, established
  <2> QED
    BY Zenon, <1>2, <2>2, <2>3
<1>4. peerClosed => Inv'
  <2> DEFINE sock == PeerClosed(t.sock)
             yes == TRUE
             u == [t EXCEPT !.sock = sock, !.doClose = yes]
  <2>1. sock \in {"CONNECTED", "PEER_CLOSED", "LOCALLY_CLOSED", "CLOSED"} /\ yes \in BOOLEAN
    BY Zenon DEF PeerClosed
  <2>2. peerClosed => Goes(u)
    OBVIOUS
  <2> HIDE DEF sock, yes, Goes
  <2>3. u \in ServerThread
    BY ZenonT(30), <2>1 DEF ServerThread
  <2> HIDE DEF u, peerClosed
  <2> QED
    BY Zenon, <1>2, <2>2, <2>3
<1>5. ended => Inv'
  BY Zenon, <1>0, <0>ServerListens
<1>6. m.kind = "DATA" /\ data => Inv'
  <2> SUFFICES ASSUME m.kind = "DATA", data PROVE Inv'
    OBVIOUS
  <2>1. request \in Request
    <3>1. requests[m.s] \in Seq(Request)
      BY <1>0 DEF Inv, DataInv
    <3> QED
      BY <3>1
  <2>2. doClose \in BOOLEAN /\ request.reply \in Nat
    BY <2>1 DEF Request
  <2> DEFINE reply == request.reply
             replies == Append(told.replies, reply)
             yes == TRUE
             one == <<reply>>
  <2>3. \/ Goes(told)
        \/ Stop("timer")
        \/ Goes([told EXCEPT !.timer = yes, !.replies = replies])
        \/ Respond(id, told, one, q)
    BY Zenon
  <2>4. yes \in BOOLEAN /\ one \in Seq(Nat)
    BY <2>2
  <2> HIDE DEF doClose, data, Goes, yes, one, reply
  <2>5. told \in ServerThread
    BY Zenon, <2>2 DEF ServerThread
  <2> HIDE DEF told
  <2>6. replies \in Seq(Nat)
    <3>1. told.replies \in Seq(Nat) /\ reply \in Nat
      BY Zenon, <2>2, <2>5 DEF ServerThread, reply
    <3> QED
      BY ZenonT(30), <3>1, <0>MoreReplies
  <2> HIDE DEF replies
  <2>7. [told EXCEPT !.timer = yes, !.replies = replies] \in ServerThread
    BY ZenonT(30), <2>4, <2>5, <2>6 DEF ServerThread
  <2>8. CASE Stop("timer")
    BY <2>8, NothingChanges DEF Stop, app
  <2>9. CASE Respond(id, told, one, q)
    BY Zenon, <1>0, <2>4, <2>5, <2>9, <0>RespondKeeps
  <2>10. CASE Goes(told)
    BY Zenon, <1>2, <2>5, <2>10
  <2> DEFINE u == [told EXCEPT !.timer = yes, !.replies = replies]
  <2>11. u \in ServerThread /\ (Goes([told EXCEPT !.timer = yes, !.replies = replies]) => Goes(u))
    BY <2>7
  <2> HIDE DEF u
  <2> QED
    BY Zenon, <1>2, <2>3, <2>8, <2>9, <2>10, <2>11
<1> HIDE DEF established, data, peerClosed, ended
<1>7. /\ m.kind = "ESTABLISHED" => established
      /\ m.kind = "DATA" => data
      /\ m.kind = "PEER_CLOSED" => peerClosed
      /\ m.kind \in Failures \cup {"CLOSED"} => ended
  BY Zenon, <1>1 DEF Failures
<1> QED
  BY Zenon, <1>3, <1>4, <1>5, <1>6, <1>7 DEF Kinds

\* ServerHears keeps the invariant.
<0>ServerHearsKeeps.
  ASSUME Inv, now # <<>>, Head(now).to = "app", Head(now).side = "server",
         ServerHears(Head(now), Tail(now)),
         UNCHANGED <<conn, count, forks, ends, net, lost, gaveUp>>
  PROVE  Inv'
<1> USE <0>ServerHearsKeeps
<1> DEFINE m == Head(now)
           q == Tail(now)
           id == <<m.s, m.k>>
<1>0. DataInv /\ SessionInv /\ ThreadInv
  BY DEF Inv
<1>1. m \in Message /\ ProperMessage(m, forks, requests) /\ q \in Seq(Message)
  BY ZenonT(30), <1>0, First
<1>2. /\ m.kind \in Kinds /\ m.k \in 1 .. forks[m.s]
      /\ m.kind = "DATA" => m.at \in DOMAIN requests[m.s]
  BY Zenon, <1>1 DEF ProperMessage
<1>3. \A x \in Elems(q) : Stays(x)
  BY <1>0, Behind DEF Stays
<1>4. \A x \in Sessions : now # <<Opening(x)>>
  <2> SUFFICES ASSUME NEW x \in Sessions, now = <<Opening(x)>> PROVE FALSE
    OBVIOUS
  <2>1. Head(now) = Opening(x)
    OBVIOUS
  <2> QED
    BY <2>1 DEF Opening
<1>5. \/ id \in DOMAIN threads /\ ServerCallback(id, threads[id], m, q)
      \/ /\ now' = Append(q, Command("server", m.s, m.k, "ABORT", 0))
         /\ UNCHANGED <<client, threads, requests>>
      \/ ~(Cardinality(DOMAIN threads) >= MaxThreads) /\ ServerCallback(id, NewThread, m, q)
  BY DEF ServerHears, app
<1> HIDE DEF m, q, id
<1>6. CASE id \in DOMAIN threads /\ ServerCallback(id, threads[id], m, q)
  <2> DEFINE t == threads[id]
  <2>1. t \in ServerThread
    BY <1>0, <1>6 DEF ThreadInv
  <2>2. ServerCallback(id, t, m, q) /\ id \in DOMAIN threads /\ id = <<m.s, m.k>>
    BY Zenon, <1>6 DEF id
  <2> HIDE DEF t
  <2> QED
    BY Zenon, <1>1, <1>2, <1>3, <1>4, <2>1, <2>2, <0>CallbackKeeps
<1>7. CASE /\ ~(Cardinality(DOMAIN threads) >= MaxThreads)
           /\ ServerCallback(id, NewThread, m, q)
  <2> DEFINE t == NewThread
  <2>1. t \in ServerThread
    BY DEF NewThread, ServerThread
  <2>2. Cardinality(DOMAIN threads) < MaxThreads
    <3>1. Cardinality(DOMAIN threads) \in Nat
      BY <1>0 DEF ThreadInv, CardinalityFacts
    <3> QED
      BY <1>7, <3>1, ApplicationAssumption
  <2>3. ServerCallback(id, t, m, q) /\ id = <<m.s, m.k>>
    BY <1>7 DEF id
  <2> HIDE DEF t
  <2> QED
    BY ZenonT(30), <1>1, <1>2, <1>3, <1>4, <2>1, <2>2, <2>3, <0>CallbackKeeps
<1>8. CASE /\ now' = Append(q, Command("server", m.s, m.k, "ABORT", 0))
           /\ UNCHANGED <<client, threads, requests>>
  <2> DEFINE kind == "ABORT"
             a == Command("server", m.s, m.k, kind, 0)
             s == m.s
             k == m.k
  <2>1. kind \in {"SEND", "CLOSE", "ABORT"} /\ s \in Sessions /\ k \in Nat /\ k \in 1 .. forks[s]
    BY <1>1, <1>2 DEF Message
  <2>2. now' = Append(q, a)
    BY <1>8
  <2> HIDE DEF kind, s, k
  <2>3. LET r == Command("server", s, k, kind, 0) IN r \in Message /\ Answers(r)
    BY <2>1, <0>ServerCommand
  <2>4. a \in Message /\ Answers(a)
    BY <2>3 DEF s, k
  <2> HIDE DEF a
  <2>5. now' \in Seq(Message) /\ Elems(now') \subseteq Elems(q) \cup {a}
    BY <1>1, <2>2, <2>4, ElemsOfAppend
  <2>6. \A x \in Elems(now') : Stays(x) \/ Answers(x)
    BY <1>3, <2>4, <2>5
  <2>7. ThreadInv'
    BY <1>0, <1>8 DEF ThreadInv
  <2> QED
    BY Zenon, <1>4, <1>8, <2>5, <2>6, <2>7, <0>ServerStep
<1> QED
  BY <1>5, <1>6, <1>7, <1>8

<0> QED
  BY <0>ServerTimerKeeps, <0>ServerHearsKeeps DEF MessageTo

=============================================================================
