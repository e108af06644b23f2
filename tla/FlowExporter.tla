---------------------------- MODULE FlowExporter ----------------------------
(***************************************************************************)
(* The flow exporter (ReaSE/src/applications/flow/FlowExporter.cc).        *)
(*                                                                         *)
(* Packets are grouped into flows by the key source:destination:protocol.  *)
(* A new flow schedules two self messages that carry only its key: a       *)
(* timeout (flow_timeout after the first packet) and an expiry             *)
(* (idle_timeout after the last packet).  Whichever arrives first exports  *)
(* the flow and erases it.  The flow remembers the expiry message in       *)
(* `pointer', to cancel it when another packet of the flow is seen; the    *)
(* timeout message is never cancelled.                                     *)
(*                                                                         *)
(* Two threads touch the exporter.  The simulation thread runs the message *)
(* handlers; the XML-RPC thread of the MechanismExporter runs setTimeouts, *)
(* without a lock.  The handler of a packet is therefore split at its      *)
(* reads of the two timeouts, and setTimeouts between its two writes.      *)
(*                                                                         *)
(* The simulation time is a discrete clock.  A cMessage is a number, new   *)
(* ones being taken from nextId; deleted holds the freed ones.             *)
(***************************************************************************)
EXTENDS Integers, FiniteSets

CONSTANTS
    Keys,         \* the flow keys source:destination:protocol
    Settings,     \* pairs <<flow, idle>> the policies pass to setTimeouts
    NoFlow,       \* marks a key that is not in the flow table
    MaxPackets,   \* bound: packets handled while the exporter is enabled
    LastPacket,   \* bound: the time of the last packet
    MaxTime       \* bound: the end of the simulation (sim-time-limit)

ASSUME ConstantsAssumption ==
    /\ Settings \subseteq Nat \X Nat
    /\ NoFlow \notin [start: Nat, end: Nat, packet_count: Nat, pointer: Nat]
    /\ MaxPackets \in Nat
    /\ LastPacket \in Nat
    /\ MaxTime \in Nat

VARIABLES
    table,         \* the flow table, NoFlow where a key has no record
    fes,           \* the scheduled self messages (the future event set)
    nextId,        \* the next cMessage to be allocated
    deleted,       \* the cMessages freed by handleSelfMessage
    flow_timeout,  \* -1: not set yet
    idle_timeout,  \* -1: not set yet
    rpc,           \* the idle timeout setTimeouts has yet to write, or -1
    handler,       \* where the simulation thread is in handleMessage
    now,           \* simTime()
    counted,       \* history: packets handled per key
    exported       \* history: packets exported per key

vars == <<table, fes, nextId, deleted, flow_timeout, idle_timeout, rpc,
          handler, now, counted, exported>>

Flow == [start: Nat, end: Nat, packet_count: Nat, pointer: Nat]

Event == [id: Nat, key: Keys, time: Nat, kind: {"timeout", "expiry"}]

\* The simulation thread between two events, or inside a packet's handler:
\* about to compare the deadlines, or about to schedule the expiry message.
Handler == [at: {"idle"}]
           \cup [at: {"compare"}, key: Keys, flow: Int, msg: Nat]
           \cup [at: {"expiry"}, key: Keys, msg: Nat]

Idle == [at |-> "idle"]

Init ==
    /\ table = [k \in Keys |-> NoFlow]
    /\ fes = {}
    /\ nextId = 0
    /\ deleted = {}
    /\ flow_timeout = -1
    /\ idle_timeout = -1
    /\ rpc = -1
    /\ handler = Idle
    /\ now = 0
    /\ counted = [k \in Keys |-> 0]
    /\ exported = [k \in Keys |-> 0]

-----------------------------------------------------------------------------
(* The XML-RPC thread: setTimeouts writes flow_timeout, then idle_timeout. *)

SetFlowTimeout(s) ==
    /\ rpc = -1
    /\ flow_timeout' = s[1]
    /\ rpc' = s[2]
    /\ UNCHANGED <<table, fes, nextId, deleted, idle_timeout, handler, now,
                   counted, exported>>

SetIdleTimeout ==
    /\ rpc # -1
    /\ idle_timeout' = rpc
    /\ rpc' = -1
    /\ UNCHANGED <<table, fes, nextId, deleted, flow_timeout, handler, now,
                   counted, exported>>

-----------------------------------------------------------------------------
(* The simulation thread.                                                  *)

\* Mutant: only the flow timeout is tested.
Enabled_FlowOnly == flow_timeout # -1

\* A packet is looked at only when both timeouts have been set.
Enabled == idle_timeout # -1 /\ flow_timeout # -1

\* The bounds on the packets of a run.
MorePackets == nextId < 2 * MaxPackets /\ now <= LastPacket

\* Every handled packet allocates an expiry and a timeout message.
ExpiryMessage == nextId
TimeoutMessage == nextId + 1

CancelEvent(id) == {e \in fes : e.id # id}

\* Mutant: the packet is not added to the record.
PacketOfKnownFlow_NoCount(k) ==
    /\ handler = Idle
    /\ Enabled
    /\ MorePackets
    /\ table[k] # NoFlow
    /\ fes' = CancelEvent(table[k].pointer)
    /\ table' = [table EXCEPT ![k].end = now]
    /\ handler' = [at |-> "compare", key |-> k, flow |-> flow_timeout,
                   msg |-> ExpiryMessage]
    /\ nextId' = nextId + 2
    /\ counted' = [counted EXCEPT ![k] = @ + 1]
    /\ UNCHANGED <<deleted, flow_timeout, idle_timeout, rpc, now, exported>>

\* A packet of a flow in the table: its expiry message is cancelled, the
\* record is updated, and flow_timeout is read for the comparison to come.
PacketOfKnownFlow(k) ==
    /\ handler = Idle
    /\ Enabled
    /\ MorePackets
    /\ table[k] # NoFlow
    /\ fes' = CancelEvent(table[k].pointer)
    /\ table' = [table EXCEPT ![k] =
                    [table[k] EXCEPT !.packet_count = @ + 1, !.end = now]]
    /\ handler' = [at |-> "compare", key |-> k, flow |-> flow_timeout,
                   msg |-> ExpiryMessage]
    /\ nextId' = nextId + 2
    /\ counted' = [counted EXCEPT ![k] = @ + 1]
    /\ UNCHANGED <<deleted, flow_timeout, idle_timeout, rpc, now, exported>>

\* Does the idle deadline come before the timeout of the flow of key k?
ExpiresBeforeTimeout(k, flow) ==
    table[k].start + flow > now + idle_timeout

\* The expiry message is rescheduled only if it comes before the timeout.
CompareDeadlines ==
    /\ handler.at = "compare"
    /\ handler' = IF ExpiresBeforeTimeout(handler.key, handler.flow)
                  THEN [at |-> "expiry", key |-> handler.key,
                        msg |-> handler.msg]
                  ELSE Idle
    /\ UNCHANGED <<table, fes, nextId, deleted, flow_timeout, idle_timeout,
                   rpc, now, counted, exported>>

\* Mutant: the timeout message is not scheduled.
PacketOfNewFlow_NoTimeout(k) ==
    /\ handler = Idle
    /\ Enabled
    /\ MorePackets
    /\ table[k] = NoFlow
    /\ handler' = [at |-> "expiry", key |-> k, msg |-> ExpiryMessage]
    /\ nextId' = nextId + 2
    /\ counted' = [counted EXCEPT ![k] = @ + 1]
    /\ UNCHANGED <<table, fes, deleted, flow_timeout, idle_timeout, rpc, now,
                   exported>>

\* A packet of a new flow: its timeout message is scheduled first.
PacketOfNewFlow(k) ==
    /\ handler = Idle
    /\ Enabled
    /\ MorePackets
    /\ table[k] = NoFlow
    /\ fes' = fes \cup {[id |-> TimeoutMessage, key |-> k,
                         time |-> now + flow_timeout, kind |-> "timeout"]}
    /\ handler' = [at |-> "expiry", key |-> k, msg |-> ExpiryMessage]
    /\ nextId' = nextId + 2
    /\ counted' = [counted EXCEPT ![k] = @ + 1]
    /\ UNCHANGED <<table, deleted, flow_timeout, idle_timeout, rpc, now,
                   exported>>

\* The expiry message is scheduled and remembered, in the record of a known
\* flow or in the record that is now inserted.
ScheduleExpiry ==
    /\ handler.at = "expiry"
    /\ fes' = fes \cup {[id |-> handler.msg, key |-> handler.key,
                         time |-> now + idle_timeout, kind |-> "expiry"]}
    /\ table' = [table EXCEPT ![handler.key] =
                    IF @ = NoFlow
                    THEN [start |-> now, end |-> now, packet_count |-> 1,
                          pointer |-> handler.msg]
                    ELSE [@ EXCEPT !.pointer = handler.msg]]
    /\ handler' = Idle
    /\ UNCHANGED <<nextId, deleted, flow_timeout, idle_timeout, rpc, now,
                   counted, exported>>

\* Mutant: the exported flow stays in the table.
HandleSelfMessage_NoErase(e) ==
    /\ handler = Idle
    /\ e.time <= now
    /\ fes' = fes \ {e}
    /\ deleted' = deleted \cup {e.id}
    /\ exported' = [exported EXCEPT ![e.key] =
                       IF table[e.key] = NoFlow
                       THEN @
                       ELSE @ + table[e.key].packet_count]
    /\ UNCHANGED <<table, nextId, flow_timeout, idle_timeout, rpc, handler,
                   now, counted>>

\* handleSelfMessage: timeout and expiry messages are told apart by nothing.
\* The flow now filed under the key, if any, is exported and erased.
HandleSelfMessage(e) ==
    /\ handler = Idle
    /\ e.time <= now
    /\ fes' = fes \ {e}
    /\ deleted' = deleted \cup {e.id}
    /\ table' = [table EXCEPT ![e.key] = NoFlow]
    /\ exported' = [exported EXCEPT ![e.key] =
                       IF table[e.key] = NoFlow
                       THEN @
                       ELSE @ + table[e.key].packet_count]
    /\ UNCHANGED <<nextId, flow_timeout, idle_timeout, rpc, handler, now,
                   counted>>

\* The event loop: time passes once every event due has been handled.
Tick ==
    /\ handler = Idle
    /\ now < MaxTime
    /\ \A e \in fes : e.time > now
    /\ now' = now + 1
    /\ UNCHANGED <<table, fes, nextId, deleted, flow_timeout, idle_timeout,
                   rpc, handler, counted, exported>>

SelfMessage == \E e \in fes : HandleSelfMessage(e)

Next ==
    \/ \E s \in Settings : SetFlowTimeout(s)
    \/ SetIdleTimeout
    \/ \E k \in Keys : PacketOfKnownFlow(k)
    \/ \E k \in Keys : PacketOfNewFlow(k)
    \/ CompareDeadlines
    \/ ScheduleExpiry
    \/ SelfMessage
    \/ Tick

Spec == Init /\ [][Next]_vars

\* The event loop runs until the simulation ends: a handler that started
\* finishes, due events are handled, and time passes.
FairSpec ==
    /\ Spec
    /\ WF_vars(CompareDeadlines)
    /\ WF_vars(ScheduleExpiry)
    /\ WF_vars(SelfMessage)
    /\ WF_vars(Tick)

-----------------------------------------------------------------------------

InTable(k) == table[k] # NoFlow

\* The type invariant.
TypeOK ==
    /\ table \in [Keys -> Flow \cup {NoFlow}]
    /\ fes \subseteq Event
    /\ nextId \in Nat
    /\ deleted \subseteq Nat
    /\ flow_timeout \in Nat \cup {-1}
    /\ idle_timeout \in Nat \cup {-1}
    /\ rpc \in Nat \cup {-1}
    /\ handler \in Handler
    /\ now \in Nat
    /\ counted \in [Keys -> Nat]
    /\ exported \in [Keys -> Nat]

\* The message a flow's record points to, which the next packet of the flow
\* hands to cancelEvent, has not been freed, although self messages of older
\* flows with the same key erase records and free messages too.
PointerLive == \A k \in Keys : InTable(k) => table[k].pointer \notin deleted

\* Nothing is scheduled into the past, which would stop the simulation with
\* an error, whatever the XML-RPC thread writes while a packet is handled.
NothingInThePast == \A e \in fes : e.time >= now

\* flow_timeout is the "longest period a flow can exist for": no record is
\* older than a flow timeout that was set, even when its expiry message has
\* been cancelled and not rescheduled.
FlowLifetimeBounded ==
    \A k \in Keys : InTable(k) =>
        \E s \in Settings : now <= table[k].start + s[1]

\* idle_timeout is the "longest period a flow can exist for without seeing
\* any more packets": it holds too where the handler leaves the expiry
\* message cancelled, as long as the timeouts are set to one pair of values.
OneSetting == \A s, t \in Settings : s = t

IdleTimeBounded ==
    OneSetting => \A k \in Keys : InTable(k) =>
        \E s \in Settings : now <= table[k].end + s[2]

\* Every packet handled is in exactly one exported flow, or in the table, or
\* in the handler's hands: no packet is lost or counted twice when a flow is
\* erased by the timer of an older flow with its key.
InHand(k) == IF handler.at = "expiry" /\ handler.key = k /\ ~InTable(k)
             THEN 1 ELSE 0

PacketsAccounted ==
    \A k \in Keys :
        counted[k] = exported[k] + InHand(k)
                     + (IF InTable(k) THEN table[k].packet_count ELSE 0)

\* Every flow is exported in the end, although its expiry message may have
\* been cancelled for good, in a simulation that lasts longer than the last
\* packet's flow timeout.
EveryFlowExported == \A k \in Keys : InTable(k) ~> ~InTable(k)
=============================================================================
