----------------------- MODULE GenericUDPApplication -----------------------
(***************************************************************************)
(* The UDP traffic applications (ReaSE/src/applications/udpApp): clients   *)
(* and one server, over a network that loses and reorders datagrams.       *)
(*                                                                         *)
(* A client thread sends its requests on a timer, without waiting for the  *)
(* replies.  The server starts a thread, with a socket of its own, for     *)
(* every request with packet number 1 that reaches the application, and    *)
(* closes its welcome socket while it has maxThreadCount threads.  The UDP *)
(* layer below passes a copy of a datagram to EVERY socket that matches:   *)
(* the welcome socket, and the socket of each thread that is connected to  *)
(* the sender (inet UDP::processUDPPacket).  A datagram that matches none  *)
(* is dropped in silence (UDP_hack).                                       *)
(*                                                                         *)
(* Only the last fragment of a request, the one with number 1, has an      *)
(* effect; the others are left out.  Commands to the UDP layer (bind,      *)
(* connect, close) take effect at once.  UDP_I_ERROR is not modelled: an   *)
(* undeliverable application message raises none, the errors left are      *)
(* those of routers that cannot forward a datagram.                        *)
(***************************************************************************)
EXTENDS Integers, FiniteSets

CONSTANTS
    Clients,
    RequestsPerSession,   \* of the traffic profile
    ReplyPerRequest,      \* of the traffic profile
    MaxThreadCount,       \* noThreads of the server
    MaxSessions           \* bound: sessions per client

ASSUME ConstantsAssumption ==
    /\ RequestsPerSession \in Nat
    /\ ReplyPerRequest \in Nat
    /\ MaxThreadCount \in Nat \ {0}
    /\ MaxSessions \in Nat

VARIABLES
    client,        \* per client: thread state and requests to send
    sessions,      \* per client: transmissions started
    requests,      \* per client: requests sent so far
    net,           \* requests <<client, number>> under way
    inbox,         \* copies the UDP layer has passed to the server, per request
    threads,       \* the server threads
    threadCount,
    welcome,       \* is mySocket bound?
    replies        \* replies under way

udpVars == <<client, sessions, requests, net, inbox, threads,
             threadCount, welcome, replies>>
server == <<inbox, threads, threadCount, welcome, replies>>

MaxRequests == MaxSessions * (RequestsPerSession + 1)
Request == Clients \X (1..MaxRequests)

\* With no transmission the thread of a client does not exist.
NoThread == [state |-> "none", left |-> 0]

UDPInit ==
    /\ client = [c \in Clients |-> NoThread]
    /\ sessions = [c \in Clients |-> 0]
    /\ requests = [c \in Clients |-> 0]
    /\ net = {}
    /\ inbox = [r \in Request |-> 0]
    /\ threads = {}
    /\ threadCount = 0
    /\ welcome = TRUE
    /\ replies = {}

-----------------------------------------------------------------------------
(* The clients.                                                            *)

transmissionStart(c) ==
    /\ client[c] = NoThread
    /\ sessions[c] < MaxSessions
    /\ sessions' = [sessions EXCEPT ![c] = @ + 1]
    /\ client' = [client EXCEPT
                    ![c] = [state |-> "CONNECTED", left |-> RequestsPerSession]]
    /\ UNCHANGED <<requests, net, server>>

\* timerExpired in state CONNECTED.
sendRequest(c) ==
    /\ client[c].state = "CONNECTED"
    /\ requests' = [requests EXCEPT ![c] = @ + 1]
    /\ net' = net \cup {<<c, requests[c] + 1>>}
    /\ LET left == client[c].left - 1 IN
       client' = [client EXCEPT ![c] =
           [state |-> IF left <= 0 THEN "DISCONNECTED" ELSE "CONNECTED",
            left |-> left]]
    /\ UNCHANGED <<sessions, server>>

\* Mutant: the timer is restarted, the state is not changed.
Disconnect_StateKept(c) ==
    /\ client[c].state = "DISCONNECTED"
    /\ UNCHANGED udpVars

\* timerExpired in state DISCONNECTED: wait timeBetweenSessions.
Disconnect(c) ==
    /\ client[c].state = "DISCONNECTED"
    /\ client' = [client EXCEPT ![c].state = "FINISH"]
    /\ UNCHANGED <<sessions, requests, net, server>>

\* timerExpired in state FINISH: the thread is removed and the user, told
\* that the transmission is done, may start the next one.
Finish(c) ==
    /\ client[c].state = "FINISH"
    /\ client' = [client EXCEPT ![c] = NoThread]
    /\ UNCHANGED <<sessions, requests, net, server>>

\* A reply reaches the application of the client.  Number 1 would start a
\* server thread, a last one goes to the client thread, others are deleted.
HandleReply(m) ==
    /\ m \in replies
    /\ replies' = replies \ {m}
    /\ IF m.number # 1 /\ m.last /\ client[m.to] # NoThread
          /\ client[m.to].left = 0
       THEN client' = [client EXCEPT ![m.to].state = "FINISH"]
       ELSE UNCHANGED client
    /\ UNCHANGED <<sessions, requests, net, inbox, threads,
                   threadCount, welcome>>

-----------------------------------------------------------------------------
(* The network and the UDP layer of the server.                            *)

Lose(r) ==
    /\ r \in net
    /\ net' = net \ {r}
    /\ UNCHANGED <<client, sessions, requests, server>>

ThreadsOf(c) == {t \in threads : t.to = c}

\* One copy for every matching socket; with none the request is discarded
\* (UDP_hack::processUndeliverablePacket).
Deliver(r) ==
    /\ r \in net
    /\ net' = net \ {r}
    /\ LET matches == Cardinality(ThreadsOf(r[1])) + (IF welcome THEN 1 ELSE 0)
       IN inbox' = [inbox EXCEPT ![r] = @ + matches]
    /\ UNCHANGED <<client, sessions, requests, threads, threadCount,
                   welcome, replies>>

-----------------------------------------------------------------------------
(* The server.                                                             *)

\* socketDatagramArrived: noPacketSend is the packet number of the request.
FirstNumber == 1

\* Mutant: the socket is closed one thread too late.
Accepts_Late(count) == count <= MaxThreadCount

\* The welcome socket is open while count threads are running.
Accepts(count) == count # MaxThreadCount

\* A socket id no thread has; ids only tell the live sockets apart.
FreeId ==
    LET used == {t.id : t \in threads}
    IN CHOOSE i \in 0..Cardinality(threads) :
          i \notin used /\ \A j \in 0..(i - 1) : j \in used

\* A copy of a request with packet number 1 starts a thread, whichever
\* socket it came through.
HandleRequest(r) ==
    /\ inbox[r] > 0
    /\ inbox' = [inbox EXCEPT ![r] = @ - 1]
    /\ threads' = threads \cup
          {[id |-> FreeId, to |-> r[1], state |-> "CONNECTED",
            left |-> ReplyPerRequest, number |-> FirstNumber]}
    /\ threadCount' = threadCount + 1
    /\ welcome' = (welcome /\ Accepts(threadCount'))
    /\ UNCHANGED <<client, sessions, requests, net, replies>>

\* timerExpired in state CONNECTED.  No flag is set on a reply.
sendReply(t) ==
    /\ t \in threads
    /\ t.state = "CONNECTED"
    /\ threads' = (threads \ {t}) \cup
          {[t EXCEPT !.left = @ - 1, !.number = @ + 1,
                     !.state = IF t.left - 1 <= 0 THEN "DISCONNECTED"
                                                  ELSE "CONNECTED"]}
    /\ replies' = replies \cup
          {[to |-> t.to, number |-> t.number + 1,
            last |-> FALSE]}
    /\ UNCHANGED <<client, sessions, requests, net, inbox,
                   threadCount, welcome>>

\* Mutant: the welcome socket is not bound again.
removeThread_NoBind(t) ==
    /\ t \in threads
    /\ t.state = "DISCONNECTED"
    /\ threads' = threads \ {t}
    /\ threadCount' = threadCount - 1
    /\ UNCHANGED <<client, sessions, requests, net, inbox, welcome, replies>>

\* timerExpired in state DISCONNECTED closes the socket and the thread; the
\* welcome socket is bound when the count falls below its maximum.
removeThread(t) ==
    /\ t \in threads
    /\ t.state = "DISCONNECTED"
    /\ threads' = threads \ {t}
    /\ threadCount' = threadCount - 1
    /\ welcome' = (welcome \/ threadCount' = MaxThreadCount - 1)
    /\ UNCHANGED <<client, sessions, requests, net, inbox,
                   replies>>

-----------------------------------------------------------------------------

ClientTimer(c) == sendRequest(c) \/ Disconnect(c) \/ Finish(c)

ServerStep ==
    \/ \E r \in Request : HandleRequest(r)
    \/ \E t \in threads : sendReply(t) \/ removeThread(t)

UDPNext ==
    \/ \E c \in Clients : transmissionStart(c) \/ ClientTimer(c)
    \/ \E r \in net : Lose(r) \/ Deliver(r)
    \/ \E m \in replies : HandleReply(m)
    \/ ServerStep

UDPSpec == UDPInit /\ [][UDPNext]_udpVars

\* The event loop delivers every scheduled timer and every message that has
\* reached the server; the network promises nothing.
UDPFairSpec ==
    UDPSpec /\ WF_udpVars(ServerStep) /\ \A c \in Clients : WF_udpVars(ClientTimer(c))

-----------------------------------------------------------------------------
(* Properties.                                                             *)

\* The variables keep their types.
UDPTypeOK ==
    /\ \A c \in Clients :
          /\ client[c].state \in {"none", "CONNECTED", "DISCONNECTED", "FINISH"}
          /\ client[c].left \in -1..RequestsPerSession
    /\ sessions \in [Clients -> 0..MaxSessions]
    /\ requests \in [Clients -> 0..MaxRequests]
    /\ net \subseteq Request
    /\ inbox \in [Request -> Nat]
    /\ \A t \in threads :
          t.to \in Clients /\ t.left \in -1..ReplyPerRequest
    /\ threadCount \in Nat /\ welcome \in BOOLEAN

\* The counter of the server is the number of its threads, and its welcome
\* socket is bound exactly while there is room for another one, although
\* threads that come in through connected sockets pass the maximum.
WelcomeWhileRoom ==
    /\ UDPTypeOK
    /\ threadCount = Cardinality(threads)
    /\ welcome <=> threadCount < MaxThreadCount

\* A session ends although requests and replies are lost: the user is told
\* and can start the next one.
SessionsEnd ==
    \A c \in Clients : client[c] # NoThread ~> client[c] = NoThread

\* A server that has closed its welcome socket opens it again.
WelcomeReopens == ~welcome ~> welcome

=============================================================================
