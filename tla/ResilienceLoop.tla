--------------------------- MODULE ResilienceLoop ---------------------------
(***************************************************************************)
(* The control loop of the resilience framework.                           *)
(*                                                                         *)
(* Three sensors of the simulation, the IDS (IDSModule.cc), the link       *)
(* monitor (LinkMonitor.cc) and the classifier (Classifier.cc), publish    *)
(* events over TCP (EventPublisher.cc).  The policy engine accepts every   *)
(* event on a connection and a thread of its own (Ponder2Broker.java) and  *)
(* runs the actions of the policy for it (policy.p2): remote calls, one    *)
(* after the other.  The XML-RPC thread of the simulation executes them    *)
(* (MechanismExporter.cc and the *Control.cc classes) on the flow exporter *)
(* and on the rate limiters, whose shared lists are those of RateLimiter.  *)
(*                                                                         *)
(* A publish that fails is only logged, and so is a call that fails; none  *)
(* is repeated.  The calls of different threads interleave; the XML-RPC    *)
(* server is taken to execute one call at a time.                          *)
(***************************************************************************)
EXTENDS Integers, FiniteSets, Sequences, Functions

CONSTANTS
    Addresses,      \* the hosts the IDS watches
    AttackFlows,    \* flows whose first packet is tagged as an attack
    Limiters,       \* the rate limiters policy.p2 names, in its order
    Registered,     \* the rate limiters of the simulated network
    Links,          \* number of slots of link_block
    TriggerCount,   \* overloads before the link monitor reports (100)
    DropRatio,      \* numerator and denominator of dropRatio (0.2)
    MaxRatio,       \* bound: ghost and real connections counted per host
    MaxEvents,      \* bound: events published when a flow is classified
    MaxLost         \* bound: remote calls that fail

ASSUME LoopAssumption ==
    /\ Limiters \in Seq(STRING)
    /\ Links \in Nat
    /\ TriggerCount \in Nat \ {0}
    /\ MaxRatio \in Nat \ {0}
    /\ MaxLost \in Nat

VARIABLES
    ratio_table,      \* the IDS: ghost, real and blocked per host
    triggered_count,  \* the link monitors: overloads seen per link
    sent,             \* all events published, in order
    conns,            \* events sent to the broker and not yet accepted
    accepted,         \* events the broker has accepted
    todo,             \* per event: the calls its policy has yet to make
    lost,             \* the number of calls that failed
    enabled,          \* the flow exporter has its timeouts
    link_block, link_block_rate, ip_block, ip_block_rate,
    flow_block, flow_block_rate, rpc, calls      \* see RateLimiter

limiter == <<link_block, link_block_rate, ip_block, ip_block_rate,
             flow_block, flow_block_rate, rpc, calls>>
sensors == <<ratio_table, triggered_count>>
events == <<sent, conns, accepted, todo>>
vars == <<sensors, events, lost, enabled, limiter>>

IPRate == 1
LinkRate == 90
FlowRate == 90

\* The data path of the limiters is not part of this module.
RL == INSTANCE RateLimiter WITH
        Packets <- {}, FlowOf <- <<>>, loc <- <<>>, to_block <- <<>>,
        handler <- [at |-> "idle"], limited <- {},
        Flows <- AttackFlows, Slots <- Links, Rates <- {IPRate, FlowRate},
        MaxCalls <- (MaxEvents + Links + Cardinality(Addresses))
                    * (Len(Limiters) + 1)

Event == [type: {"intrusion"}, arg: Addresses]
         \cup [type: {"load"}, arg: 1..Links]
         \cup [type: {"classification"}, arg: AttackFlows]

Init ==
    /\ ratio_table =
          [a \in Addresses |-> [ghost |-> 0, real |-> 1, blocked |-> FALSE]]
    /\ triggered_count = [l \in 1..Links |-> 0]
    /\ sent = <<>> /\ conns = {} /\ accepted = {} /\ todo = <<>>
    /\ lost = 0
    /\ enabled = FALSE
    /\ RL!Init

-----------------------------------------------------------------------------
(* The sensors.                                                            *)

\* publish: the event reaches the broker, or is lost with its connection.
Publish(e) ==
    /\ sent' = Append(sent, e)
    /\ todo' = Append(todo, <<>>)
    /\ \/ conns' = conns \cup {Len(sent')}
       \/ UNCHANGED conns
    /\ UNCHANGED accepted

\* The IDS sees a packet that is not an error message: its source sends.
IncReal(a) ==
    /\ ratio_table[a].real < MaxRatio
    /\ ratio_table' = [ratio_table EXCEPT ![a].real = @ + 1]
    /\ UNCHANGED <<triggered_count, events, lost, enabled, limiter>>

AboveDropRatio(r) == r.ghost * DropRatio[2] > DropRatio[1] * (r.ghost + r.real)

\* Mutant: blocked is not set.
IncGhost_Again(a) ==
    /\ ratio_table[a].ghost < MaxRatio
    /\ LET r == [ratio_table[a] EXCEPT !.ghost = @ + 1] IN
       IF ~r.blocked /\ AboveDropRatio(r)
       THEN /\ ratio_table' = [ratio_table EXCEPT ![a] = r]
            /\ Publish([type |-> "intrusion", arg |-> a])
       ELSE /\ ratio_table' = [ratio_table EXCEPT ![a] = r]
            /\ UNCHANGED events
    /\ UNCHANGED <<triggered_count, lost, enabled, limiter>>

\* The IDS sees a destination-unreachable message on its way from a router
\* to host a: a has contacted a host that does not exist.
IncGhost(a) ==
    /\ ratio_table[a].ghost < MaxRatio
    /\ LET r == [ratio_table[a] EXCEPT !.ghost = @ + 1] IN
       IF ~r.blocked /\ AboveDropRatio(r)
       THEN /\ ratio_table' =
                  [ratio_table EXCEPT ![a] = [r EXCEPT !.blocked = TRUE]]
            /\ Publish([type |-> "intrusion", arg |-> a])
       ELSE /\ ratio_table' = [ratio_table EXCEPT ![a] = r]
            /\ UNCHANGED events
    /\ UNCHANGED <<triggered_count, lost, enabled, limiter>>

\* A packet at 3000 packets per second or more.  The count is never reset;
\* triggered is set when it reaches its limit.
Overload(l) ==
    /\ triggered_count[l] < TriggerCount
    /\ triggered_count' = [triggered_count EXCEPT ![l] = @ + 1]
    /\ IF triggered_count'[l] = TriggerCount
       THEN Publish([type |-> "load", arg |-> l])
       ELSE UNCHANGED events
    /\ UNCHANGED <<ratio_table, lost, enabled, limiter>>

\* Mutant: flows are exported before the exporter is given its timeouts.
Classify_Always(f) ==
    /\ Len(sent) < MaxEvents
    /\ Publish([type |-> "classification", arg |-> f])
    /\ UNCHANGED <<sensors, lost, enabled, limiter>>

\* The flow exporter exports an attack flow and the classifier reports it,
\* again each time the flow is exported.
Classify(f) ==
    /\ enabled
    /\ Len(sent) < MaxEvents
    /\ Publish([type |-> "classification", arg |-> f])
    /\ UNCHANGED <<sensors, lost, enabled, limiter>>

-----------------------------------------------------------------------------
(* The policy engine.                                                      *)

\* Mutant: the policy addresses one rate limiter only.
Policy_OneLimiter(e) ==
    CASE e.type = "intrusion" ->
            <<[op |-> "setthreshold"],
              [op |-> "limitip", name |-> Head(Limiters), arg |-> e.arg]>>
      [] e.type = "load" ->
            <<[op |-> "limitlink", arg |-> e.arg], [op |-> "togglereport"]>>
      [] e.type = "classification" ->
            <<[op |-> "limitflow", arg |-> e.arg]>>

\* The calls of policies adaptToIntrusion, adaptToLoad, adaptToClassification.
Policy(e) ==
    CASE e.type = "intrusion" ->
            <<[op |-> "setthreshold"]>> \o
            [i \in 1..Len(Limiters) |->
                [op |-> "limitip", name |-> Limiters[i], arg |-> e.arg]]
      [] e.type = "load" ->
            <<[op |-> "limitlink", arg |-> e.arg], [op |-> "togglereport"]>>
      [] e.type = "classification" ->
            <<[op |-> "limitflow", arg |-> e.arg]>>

\* The broker accepts a connection; any of those that are open.
Accept(id) ==
    /\ id \in conns
    /\ conns' = conns \ {id}
    /\ accepted' = accepted \cup {id}
    /\ todo' = [todo EXCEPT ![id] = Policy(sent[id])]
    /\ UNCHANGED <<sensors, sent, lost, enabled, limiter>>

\* invoke: the exception of a failed call is caught and the policy goes on.
LoseCall(id) ==
    /\ todo[id] # <<>>
    /\ lost < MaxLost
    /\ lost' = lost + 1
    /\ todo' = [todo EXCEPT ![id] = Tail(@)]
    /\ UNCHANGED <<sensors, sent, conns, accepted, enabled, limiter>>

-----------------------------------------------------------------------------
(* The XML-RPC thread.                                                     *)

(* Each control looks up the mechanism by its name and calls its setter; a *)
(* name that is not registered is skipped.                                 *)

SetThreshold(c) ==
    c.op = "setthreshold" /\ enabled' = TRUE /\ UNCHANGED limiter

\* IDSModule::setReport does nothing.
ToggleReport(c) == c.op = "togglereport" /\ UNCHANGED <<enabled, limiter>>

LimitLink(c) ==
    c.op = "limitlink" /\ RL!addLinkBlock(c.arg, LinkRate) /\ UNCHANGED enabled

LimitFlow(c) ==
    c.op = "limitflow" /\ RL!addFlowBlock(c.arg, FlowRate) /\ UNCHANGED enabled

LimitIP(c) ==
    /\ c.op = "limitip"
    /\ IF c.name \in Registered THEN RL!addIPBlock(c.arg, IPRate)
                               ELSE UNCHANGED limiter
    /\ UNCHANGED enabled

Execute(c) ==
    \/ SetThreshold(c)
    \/ ToggleReport(c)
    \/ LimitLink(c)
    \/ LimitFlow(c)
    \/ LimitIP(c)

\* The next call of a thread; the server is free.
Invoke(id) ==
    /\ rpc = RL!Idle
    /\ todo[id] # <<>>
    /\ Execute(Head(todo[id]))
    /\ todo' = [todo EXCEPT ![id] = Tail(@)]
    /\ UNCHANGED <<sensors, sent, conns, accepted, lost>>

Continue ==
    /\ RL!Setter
    /\ UNCHANGED <<sensors, events, lost, enabled>>

-----------------------------------------------------------------------------

RPCServer == Continue \/ \E id \in DOMAIN todo : Invoke(id)

Next ==
    \/ \E a \in Addresses : IncReal(a)
    \/ \E a \in Addresses : IncGhost(a)
    \/ \E l \in 1..Links : Overload(l)
    \/ \E f \in AttackFlows : Classify(f)
    \/ \E id \in DOMAIN sent : Accept(id) \/ LoseCall(id)
    \/ RPCServer

Spec == Init /\ [][Next]_vars

\* A call is under way or waiting, so that RPCServer is enabled: MaxCalls of
\* RateLimiter is above the number of calls that all the events make.
Pending == rpc # RL!Idle \/ \E id \in DOMAIN todo : todo[id] # <<>>

\* The broker accepts what reaches it and its threads, like the XML-RPC
\* thread, are not stopped.  Nothing obliges a sensor to report.  This is
\* WF_vars of RPCServer and of accepting, with ENABLED written out.
FairSpec ==
    /\ Spec
    /\ []<>~Pending \/ []<><<RPCServer>>_vars
    /\ []<>(conns = {}) \/ []<><<\E id \in DOMAIN sent : Accept(id)>>_vars

-----------------------------------------------------------------------------
(* Properties.                                                             *)

\* The variables keep their types.
TypeOK ==
    /\ ratio_table \in [Addresses ->
          [ghost: 0..MaxRatio, real: 1..MaxRatio, blocked: BOOLEAN]]
    /\ triggered_count \in [1..Links -> 0..TriggerCount]
    /\ sent \in Seq(Event)
    /\ conns \subseteq DOMAIN sent /\ accepted \subseteq DOMAIN sent
    /\ DOMAIN todo = DOMAIN sent
    /\ lost \in 0..MaxLost
    /\ enabled \in BOOLEAN

\* An intrusion is published at most once per host and a load at most once
\* per link: IDSModule and LinkMonitor remember what they have reported.
ReportedOnce ==
    /\ TypeOK
    /\ \A i, j \in DOMAIN sent :
          sent[i] = sent[j] /\ sent[i].type # "classification" => i = j

\* A flow is limited only after an intrusion was reported: the classifier
\* sees no flow before the intrusion policy has enabled the flow exporter.
FlowLimitFollowsIntrusion ==
    flow_block # <<>> => \E a \in Addresses : ratio_table[a].blocked

\* Every report of an intrusion that reaches the broker leads to a limit on
\* the host, whatever the other threads do in between.
ReportLeadsToLimit ==
    \A a \in Addresses :
        (\E id \in conns : sent[id] = [type |-> "intrusion", arg |-> a])
        ~> a \in Range(ip_block)
=============================================================================
