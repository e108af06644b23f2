# Verification of the ReaSE resilience simulation

The repository is an OMNeT++ simulation of attacks on the Internet (worms,
distributed denial of service) and of a control loop that detects and limits
them. `ReaSE/` holds the simulation modules, `deliverable/ponder2` the policy
engine that closes the loop, `distack-1.2.3-dev` an attack detection framework,
`inet` the protocol library. This directory holds TLA+ models of the parts that
have state worth checking, the TLC runs over them, and TLAPS proofs.

## The system

OMNeT++ runs one event at a time. A module reacts to messages and to its own
timers (self messages); scheduling a message that is scheduled already, or
scheduling into the past, stops the simulation. Concurrency enters in three ways:

* the order of events is open, because delays and choices are random, and the
  network loses and reorders packets;
* the XML-RPC server of `MechanismExporter` runs on a thread of its own and
  calls setters of simulation modules without a lock, and the policy engine is a
  separate process that handles every event on its own thread;
* Distack outside a simulation reads frames on one thread and distributes them
  on another.

| Part | Source (below `ReaSE/src` unless named) | Module |
|---|---|---|
| flow exporter | `applications/flow` | `FlowExporter`, `TrafficProofs` |
| rate limiter | `applications/limiter` | `RateLimiter`, `RateLimiterProofs`; abstract: `LimitTable` |
| IDS, link monitor, classifier, event publisher, XML-RPC controls, broker, policies | `applications/{ids,linkmonitor,classifier,ponder}`, `deliverable/ponder2/src` | `ResilienceLoop` (instantiates `RateLimiter`), `ServiceProofs` |
| worm | `applications/worm` | `UDPWormVictim`, `ServiceProofs` |
| choice of traffic | `applications/generic`, `base` | `TrafficGenerator`, `TrafficProofs` |
| UDP applications | `applications/udpApp`, `transport/udp` | `GenericUDPApplication`, `ServiceProofs` |
| TCP applications, TCP | `applications/tcpApp`, `transport/tcp`, `inet/src/transport/tcp` | `GenericTCPApplication`, which extends `TCPConnection`; `TCPContract`, `TCPThreadProofs`, `TCPStepProofs`, `GenericTCPApplicationProofs` |
| DDoS zombie | `applications/ddos` | `TribeFloodNetwork`, `TrafficProofs` |
| Distack frame path | `distack-1.2.3-dev/src/base/{network,module}` | `FrameBuffer`, `FrameBufferProofs` |
| Distack messaging, stages, detection modules | `distack-1.2.3-dev/src/{base,modules}` | `AttackDetection`, `AttackDetectionProofs` |

`MC_*` modules define the constants of an instance; a module without one is
instantiated by its `.cfg` alone. Operators with a suffix and the comment
"Mutant" (`removeThread_NoBind`) are faulty variants of the operator that
follows them: with the variant in its place the property it belongs to fails.

## The models

**FlowExporter.** State: the flow table, the future event set, freed messages,
the packet handler's position, the two timeouts. A packet is handled in several
steps because the XML-RPC thread may write the timeouts in between. The points
checked: a timer carries only a key and is not cancelled when a flow is
exported, so it fires on a later flow of that key; and when the idle deadline
falls after the flow timeout the cancelled message is not scheduled again.

**RateLimiter.** All limiters share global vectors, which are the state. A
setter is split wherever it leaves two parallel vectors of different lengths,
and `handleMessage` at every comparison and at every draw of its two loops, so
that setters change the vectors under them. A read past the end of a vector
yields any value. `limited` remembers which full limits applied to the packet
when its handling began. The erase of `addFlowBlock` takes them out of it when it
removes the limit, or an entry in front of it: then the limit moves to an index
the loop has passed, and a packet gets through that a limit of 99 applied to
before, during and after its handling. `LimitTable` says what the vectors
promise, two maps to which limits are added and from which they are lifted;
`ImplementsLimitTable` is the refinement.

**ResilienceLoop.** Sensors publish events, which may be lost; the broker runs
the policy of each event on its own thread as a list of remote calls, any of
which may fail and is not repeated; the XML-RPC thread executes the setters of
`RateLimiter`, one call at a time (an assumption on the XML-RPC library).

**UDPWormVictim.** All hosts together, with probing packets under way. The
statistics module is only referenced in the repository; it is a counter.

**TrafficGenerator.** `InetUser::transmissionDone` with `getServer`,
`getForeignServer`, `haveProfile` and `getTrafficProfile`; each round of a loop
is a step. The initial states are all placements of servers after registration,
in a network of several ASes and in a flat one.
Random choices are nondeterministic, also the one in which all 100 tries fall on
an entry to be skipped. Ports are taken to be positive.

**GenericUDPApplication.** Clients send requests on a timer and never wait. The
UDP layer of `inet` gives a copy of a datagram to every socket that
matches, the welcome socket and each thread socket connected to the sender;
every copy with packet number 1 starts a thread. `bind`, `connect` and `close`
take effect at once. The `UDP_I_ERROR` branch is not modelled.

**TribeFloodNetwork.** Start messages, flooding timer and recorded statistics.
`timer` is the number of times the timer is scheduled, which must not pass 1.
The making of packets is not modelled.

**TCPConnection** is one end of a connection as a value: `processSegment...`,
`process_OPEN_ACTIVE`, the timers and so on are operators from a connection and
an input to a new connection, segments for the network and indications for the
application. It follows the order of the checks in INET's files, with the state
machine of `TCPConnection_hack`. A sequence number counts segments, SYN and FIN.
The congestion window starts at one segment and grows by slow start, so a reply
of three segments takes several round trips and a CLOSE finds unsent data. Not
followed: a full window of the receiver, SACK, delayed ACKs, simultaneous open, and
fast retransmit, for which the bounds never give three duplicate ACKs.

**GenericTCPApplication** puts client and server threads, their `TCPSocket`s and
`TCP_hack` on top. Commands and indications have no delay and are handled in the
order in which they were sent before any segment or timer: they are the queue
`now`. An error that stops the simulation is recorded in `error`, after which
nothing happens. The network loses segments and does not reorder them, as one
route leads from host to host.

**FrameBuffer.** Three threads: the reader, the distribution, the main thread
that starts and stops them. A block under one lock is a step. The use of a freed
object (a capture handle closed by another thread, a deleted buffer) is recorded
in `faults`. A trace file, which has no reader, is an initial state of its own.

**AttackDetection.** Six modules on three stages, as in
`ReaSE/simulations/settings.xml`. The parameters of a module of a higher stage
may be wrong (`failing`); its channel is deleted and the stage not reached, but
the constructor has subscribed the module. The next message for it is a call of a
deleted object: the model records it in `deadCall` and stays there.
In a simulation every message goes through a queue that `flush` empties at the
end of each event; a step is the delivery of one message to all its subscribers.
Traffic is reduced to whether an aggregate is above its threshold, and what the
analyzer finds in the subnet trees is a choice.

## The runs

| Run | Shows | Bounds |
|---|---|---|
| `flow` | while the timeouts change: records never point to freed messages, nothing is scheduled into the past, the lifetime of flows is bounded, no packet is lost or counted twice, every flow is exported | 2 keys, 3 packets, 2 pairs of timeouts, one with idle > flow |
| `limiter` | marks local to a router, full limits hold while the vectors change under the loops, `LimitTable` is implemented | 3 destinations, 2 packets, 4 calls |
| `loop` | one report per host and link, flow limits follow intrusions, reports lead to limits | 2 hosts, 1 link, 1 failed call; flows are classified while fewer than 2 events have been published |
| `worm` | timers only at infected hosts, infections counted once, the worm comes to rest | 4 hosts, 2 probes each |
| `traffic` | the target serves the profile, foreign means elsewhere, nobody talks to themselves but in a foreign transmission of a flat network, the choice ends | 2 ASes or a flat network, 3 profiles, all server placements, 6 rounds for 100 |
| `udp` | the welcome socket is open exactly while there is room, sessions end, an overloaded server reopens | 2 clients, 2 requests each, 1 thread |
| `ddos` | timer scheduled once while active and else not, every packet recorded once and within its limit, limited attacks end | 3 attacks, 4 limits |
| `tcp` | TCP counts its workers, threads and sockets agree but for one error, complete sessions, sessions end | 2 sessions of 1 or 2 requests, replies of 3 segments, room for 1 thread and 1 worker, 2 lost segments, 1 retransmission for 12 |
| `frames` | counters agree with the queue, frames stay in order, queued frames arrive, shutdown ends | 4 frames of 2 sizes, live and from a file |
| `stages` | stages contiguous, assertions of the analyzer, a raised level has an alarm, every flush ends, detection calms down, also when a module of a higher stage cannot be started | 1 protocol, 1 frame size, 1 learning interval, history of 3 |

In eight modules the type invariant is the first conjunct of the invariant that
relates the most state (`MarksAreLocal`, `ReportedOnce`, `TimerOfInfected`,
`WelcomeWhileRoom`, `TimerWhileActive`, `FramesCounted`, `StagesContiguous`,
`ConnectionsCounted`); in the other two, `FlowExporter` and `TrafficGenerator`,
it is proved.

Why the bounds are enough: two keys, hosts or clients show interference between
them; two packets or requests of one of them show the reuse of its state; the
limit of threads is below the number of requests, so overload happens, and a
second request of a client takes the thread count past the limit. Two lost
segments are enough to lose a segment and its one retransmission, so that an end
gives up. Four frames fill the queue while one is in each thread's hand. A
history of three intervals has a tree before, in and after the first abnormal
one. The 6 rounds
for 100 leave two rounds before and three after the one that lifts the
exclusion. What is proved does not depend on the bounds of the runs.

`CHECK_DEADLOCK FALSE` is set where a bounded simulation ends or a program is
shut down; `stages` and `tcp` check for deadlock.

Two runs show where the code does not do what it says:

* `tcp_threads`: the FIN that ends a connection in FIN_WAIT_2 makes TCP send
  CLOSED and PEER_CLOSED in one event. CLOSED removes the server thread,
  PEER_CLOSED finds none and starts a new one, which never ends and counts
  against the limit. No loss is needed.
* `stages_reference`: at the end of an interval the address collector queues the
  tree of the interval that begins, so the tree that the analyzer takes for "the
  last normal interval" is that of the first abnormal one.

More disagreements were met while reading or modelling; no run covers them:

* `UDPWormVictim.h:19` says that a host switches to inactive after its last
  probing packet; it stays active.
* `InetUser.cc:86` says that no profile is used twice in a row;
  `currentProfileId` is never assigned, so it is.
* With a single profile and no server for it, the draw loop of `getServer` never
  ends, and the error of `InetUser.cc:107` is never raised.
* A UDP request that arrives while an earlier thread of its client is alive
  starts several threads, one per matching socket;
  `GenericUDPApplicationClientThread.cc:139` speaks of one. It takes a request
  delayed in the network, or a reply time below 2 ms: the client waits 1.5 times
  the reply time, the server closes 1 ms after its last reply.
* At the thread limit `GenericTCPApplication.cc:181` sends one ABORT per
  indication. When the segment that completes the handshake carries a request
  there are two, and the second stops the simulation (`OnlyOverloadStops` admits
  this error and no other).
* A reply length of 0 makes the TCP server neither reply nor close.
* `TCPConnectionRcvSegment.cc:369` says that only a retransmitted FIN can arrive
  in TIME_WAIT; an ACK can, it is answered with an ACK, and two ends in that state
  answer each other without end (with `EarlyRexmits = 1`).
* An end of a TCP connection that gives up does not tell the other, which has no
  timer: `SessionsEnd` leaves such sessions out.
* `FrameBuffer::setMaxFrames` and `setMaxBytes` replace a limit only if there is
  one, and there never is, so the limits of `etc/distack-settings.xml:20` have no
  effect. `dropped` stays 0 in the model for that reason.
* `FrameDistribution.cpp:48` closes the interface early to end a sleeping read,
  but waits for the lock which that read holds.
* `FrameBuffer::shutdown`, which joins the reader, is never called;
  `NetworkManager.cpp:109` deletes the buffer while the reader may use it.
* `ModuleAnalyzerAggregateWatch.cpp:309` lowers the level "if all counters" are
  low; one is enough.
* `TrafficProfileManager::getTrafficProfile` only ever sets `isForeign`, so an
  accepted profile keeps the value of a rejected draw.
* `ConnectionManager.cc:250` says that another server is selected "if the
  selected server is equal to the given module id (calling module)". In a flat
  network `getServer` (line 153) passes the manager's id to `haveProfile`, so a
  client that is also a receiver can select itself. `OneselfOnlyInFlatNet` says
  that this is the only way; TLC refutes the comment itself (`target.id # "me"`)
  in four steps.
* `ModuleManager.cpp:319` says that the stage that raised the level should be
  unloaded, so that only the lowest and the highest stage are loaded; all stages
  between them stay (`StagesContiguous`).
* `ChannelManager.cpp:43` deletes a channel whose start failed, and does not take
  its modules out of the tables of the messaging system (`deadCall`).
* `GenericUDPApplicationServerThread::sendReply` never sets the last flag that
  its comment promises.
* `UDP_hack` drops requests to an overloaded server in silence;
  `GenericUDPApplication.cc:200` speaks of ICMP messages.

## Fairness

Weak fairness of timers and of messages that have arrived: OMNeT++ delivers
every scheduled event. Weak fairness of the XML-RPC thread and of the broker's
accept loop: each is a loop that runs for the whole simulation. None for the
network, for publishing, or for starting work. The threads of `FrameBuffer` get
their turns, and a sleep until the time of a frame ends. In `AttackDetection`
`flush` is a loop, and the timer needs strong fairness, because every event of
the third stage disables it for the length of a flush. In
`GenericTCPApplication` each session has its events handled: segments that are
not lost, timers, and messages without delay. There, and in
`ResilienceLoop`, the condition under which the action is enabled is written
out, which TLC evaluates faster than `ENABLED`. `TrafficGenerator` needs strong
fairness of drawing a profile that is not excluded: independent draws, each
profile with positive probability.

## The proofs

Each proof module extends its component and states its results for every value
of the constants that the `ASSUME` of the component admits. `TrafficProofs` and
`ServiceProofs` extend three components each, which share no state and are
proved one after the other; that is why the names `Init`, `Next`, `Spec` and so
on have a prefix in some of them (`UDPSpec`, `WormSpec`). None of the properties
is inductive alone. The argument is the same throughout: an invariant (`IInv`,
`Inv`, in `AttackDetectionProofs` its parts) that holds initially, one lemma per
action (or per handler of a message) that says the action keeps it, and theorems
that follow from it. TLC checked each invariant on the instance of the run
before it was proved.

The flow exporter (`TrafficProofs`): `TypeCorrect`, `PointerSafety`,
`SchedulingSafety`, `FlowLifetime`, `IdleTime`, `Accounting`, for any keys, any
timeouts and any length of the simulation. `IInv` adds that timeouts in use are
ones that were set (`SettingsInv`), that the message in the handler is fresh
(`FreshInv`), that a scheduled message a record points to is an expiry message
of its own key (`PointerInv`), that each record has a timeout message due in
time (`TimeoutInv`), and, with one pair of timeouts, that some message of its
key is due before it has been idle too long (`IdleInv`).

The zombie (`TrafficProofs`): `ZombieTimerSafety`, `PacketsSafety`,
`LimitSafety`, for any number of attacks and any limits. `AttackInv` adds that
`packetsSent` and `floodingTimes`, which are reset in different functions, agree
during an attack and are below its limit, and that a start message that is still
to come has parameters configured for it. (`zombieActive` is the `isActive` of
the zombie; the worm has one too.) That the timer is never scheduled twice needs
that an attack begun during another cancels it first, and that a timer that fires
is not scheduled.

The choice of traffic (`TrafficProofs`): `ChoiceTypeCorrect`, `TargetCorrect`,
`ForeignCorrect`, `OneselfCorrect`, `RetriesCorrect` about `TrafficGenerator`,
for any networks, profiles, servers and limit of rounds above 2. Lemmas say what
the three lookups return. The invariant adds that a new round begins only below
the limit, that a profile is drawn before a server is looked for, and that after
the first round an exclusion is in force except in the round that lifts it.
`OneselfCorrect` rests on what each lookup excludes: the caller at home, the
home AS abroad, and in the flat branch only the manager.

The rate limiter (`RateLimiterProofs`): `MarksSafety`, `FullLimitSafety` and
`Refinement`, for any packets, flows, links and number of
calls. `VectorsInv` says by how much two parallel vectors differ at each point
of a setter, and that no limit is in a list twice; without the latter, lifting a
limit in `LimitTable` would not be the erase of one entry. `FullLimitSafety`
needs where the loops are: a full limit in `limited` is at an index that the loop
has yet to reach, or the packet is to be dropped (`FullInv`); appending keeps
that, and an erase behind the limit does. `Refinement` shows
step by step that the vectors implement `LimitTable`: appending a rate adds a
limit, erasing an entry lifts one, all else is a stutter.

The resilience loop (`ServiceProofs`): `ReportsSafety` and `FlowLimitSafety`,
for any hosts, links and rate limiters. A limit on a flow is six messages away
from the report of the intrusion that causes it. `QuietInv` says of every stage
between them that, while no host is blocked, only calls of the load policy are
on their way; `SensorInv` that a sensor remembers what it reported.

The worm (`ServiceProofs`): `TimerSafety` and `CountSafety` about
`UDPWormVictim`, for any finite set of hosts. These two are inductive together:
the timer of a vulnerable host does not run, so only a probing packet infects
it, and that counts it.

The UDP server (`ServiceProofs`): `WelcomeSafety` states `WelcomeWhileRoom` of
`GenericUDPApplication`, for any clients, sessions and thread limit.
`ThreadsInv` says that the sockets of the threads differ, so that a request adds
one thread to the set and a reply leaves their number alone; that there is a
free id (`FreeIdResult`) is a pigeonhole argument. `ClientInv` bounds the
numbers of the requests.

TCP and its applications (`GenericTCPApplicationProofs`): `ConnectionsSafety`
(`ConnectionsCounted`), `AnsweredSafety` (`RequestsAnswered`, the half of
`SessionComplete` about sessions that are done), `ThreadsSafety` (the server has
at most `maxThreadCount` threads) and `ClosesSafety` (no client connection has sent
or is to send a FIN while a request is unsent or unanswered), for any finite set
of sessions, any requests, replies, limits, losses and retransmissions. The
argument has four parts, each in a module:

- `TCPContract` states what a connection promises its TCP module. `After` is what
  a segment, a timer or a command makes of it, in particular that only the
  application's CLOSE leads to a state after a FIN of one's own, and that SYN_SENT
  is left for ESTABLISHED with exactly one indication.
- `TCPThreadProofs` has the invariant `Inv`, and `ClientSteps` and `ServerSteps`:
  the steps of the threads keep it.
- `TCPStepProofs` shows in `TCPSteps` that the steps of the TCP modules and of the
  network keep it, if the connections keep the contract.
- `GenericTCPApplicationProofs` proves the contract (`ConnectionContract`) from the
  operators of `TCPConnection` (`Evolves` says what each leaves of a connection
  until the state transition), and draws the conclusions.

The big lemmas of these modules are lists of steps `<0>Name`, each with a statement
and a proof like a lemma's. As steps they are not in the context of the proofs of
other modules.

In `Inv`, `DataInv` types the variables and the queue `now`; `ThreadInv`
and `CountInv` are the limits; `SessionInv` relates a client thread to its
connection (`Reflects`) and to the messages between the two that are still to be
heard (`Told`, `Alone`): a thread that waits for its connection hears of the
opening before anything else, and CLOSE and CLOSED are only on their way when the
thread has all its replies. `ConnectionsCounted` rests on `DataInv` and
`CountInv`: every way a worker ends passes through `Results` once.
`RequestsAnswered` and `ClosesSafety` need `SessionInv`, because TCP, not the
thread, decides when CLOSED comes.

`FrameBufferProofs`: `CountedSafety` and `OrderSafety`, for any number and sizes
of frames. Queue and counters have different mutexes, so no block of a thread
keeps the two in step; the proofs follow the frame that a thread has in its hand.
`ThreadInv` says where it has one, and which threads run when.

`AttackDetectionProofs`: `StagesSafety`, `AlarmSafety` and `AssertionsSafety`,
for any protocols, frame sizes and settings, whichever modules fail to start. `QueueInv`
says what each kind of message on its way implies about the state it was sent in
(`Sound`), which is still the state when it is delivered: the watch and the
trees only change on messages of the timer, and those are alone in the queue.
`AlarmInv` says that when the last alarm is off and a stage is still loaded, the
alert that unloads it is in the queue. `HistoryInv` and `AnalyzerInv` compare
the histories of the two collectors with what an item has counted.
`AssertionsSafety` has a hypothesis, `HistoryLength <= LearningIntervals +
ExceedThreshold + 1` (`HistorySuffices`): an aggregate that raises its alarm has
had values for as many intervals as the right side says, and the analyzer needs
one for every tree in the history. `ReaSE/simulations/settings.xml` has 5, 5 and
2. With a longer history the assertion
of `ModuleAnalyzerAddressSpace.cpp:182` can fail: TLC shows it for a learning
phase of 1, a threshold of 1 and a history of 4.

Assumptions: the `ASSUME`s of the component modules. They say that bounds and
counts are numbers and that sizes, triggers and histories are positive; beyond
that, that hosts (`UDPWormVictim`) and sessions (`GenericTCPApplication`) are
finite and that the flow of a packet leads to an address of the network
(`RateLimiter`).

Proved and not part of a run: `IdleTime`, `RetriesCorrect`, `TypeCorrect`,
`ChoiceTypeCorrect`, `ThreadsSafety`, `ClosesSafety` and `ConnectionContract`.
In the other modules the type invariant is part of the first theorem.

Induction over data is done with well-founded sets (`SetInduction`: a set of
numbers that has 0 and with every number its successor has them all). From it
follow the existence of the sums over sequences that `FrameBuffer` and
`TribeFloodNetwork` use, and what appending an entry adds to them, and the number
of values that `AttackDetection` finds in a history. The proved modules extend
only what they need of the community modules, because a larger context makes the
provers slow.

Only model-checked: all liveness properties (`EveryFlowExported`,
`ReportLeadsToLimit`, `WormComesToRest`, `ChoiceEnds`, `SessionsEnd`,
`WelcomeReopens`, `LimitedAttackEnds`, `QueuedIsDelivered`, `ShutdownEnds`,
`FlushEnds`, `DetectionCalmsDown`), which need fairness and `ENABLED`, out of
reach of the prover; and of the safety properties of `GenericTCPApplication`,
`OnlyOverloadStops` and the half of `SessionComplete` that says that no session
gets more replies than it has sent requests. Both rest on the reliable stream
that two connections make of the segments between them: that a message is
indicated once, that a FIN comes after all data, and that a server thread whose
connection is gone has no reply to send. An inductive invariant for that relates
the sequence numbers of both ends, those of every segment under way, and the
workers that came before.

## Not modelled

| Part | State and operations | Why not |
|---|---|---|
| `GenericICMPPingApplication` | one session: timer, counter | one actor that waits for nothing |
| `DropTailTraceQueue` | FIFO queue, counters per interval | one actor; with tracing on its first message is scheduled before it is created |
| `UDP_I_ERROR` in `GenericUDPApplication` | thread deleted on an error | `UDP_hack` drops undeliverable packets in silence, so it hardly arises |
| measurement intervals of `LinkMonitor` | rates per interval | numerical |
| Distack `Timer` | a scheduled message, or a thread that sleeps | its events are actions of `AttackDetection` |
| Distack outside a simulation: message distribution and stage update threads | queue, thread per alert | `AttackDetection` models the simulation, in which neither exists |
| Distack remote communication | forwarding in a ring or along a path, TCP | needs several instances of `AttackDetection` |
| a Distack channel of the lowest stage that fails to load | start-up takes the next stage for the lowest | the modelled stages begin with the one that loads |
| averages, subnet trees, host tables of the detection modules | numbers | choices in `AttackDetection` |
| `IP_hack` | nothing that outlives a packet but fragment reassembly | little to check |
| `TGMNetworkConfigurator` | routes, computed once | graphs beyond TLC's reach |
| packet parsing, configuration, logging, display, generated message classes | none of interest | pure I/O |
| Ponder2 adaptors that `policy.p2` does not use | none | forward a call |
| `inet` but for TCP | protocol library | see below |

By far the most lines of the repository are the INET library as it was released,
with protocols that no ReaSE network contains (SCTP, MPLS, OSPF, IPv6, 802.11)
and examples. Its TCP is modelled because the server's thread limit depends on
it. So the models stand for a small share of all lines, and for most of the code
with state that the authors of ReaSE and of the resilience loop wrote.

Hazards, each with its line and the properties that cover it, are listed in
`PROJECT.json`.

## Plan

1. The stream between two ends of a TCP connection as an abstract specification
   that `TCPConnection` implements, from which `OnlyOverloadStops` and the rest of
   `SessionComplete` follow.
2. A composition of `TrafficGenerator` with sessions of the TCP, UDP and ping
   applications: a user always has exactly one transmission or is done.
3. Two instances of `AttackDetection` with the remote communication of Distack.
4. The threads of Distack's messaging outside a simulation.
