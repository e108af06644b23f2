---------------------------- MODULE RateLimiter ----------------------------
(***************************************************************************)
(* The rate limiters (ReaSE/src/applications/limiter/RateLimiter.cc).      *)
(*                                                                         *)
(* Every router has a RateLimiter between its interfaces and its network   *)
(* layer, but the lists of limits and the list of marked packets are       *)
(* global variables: all the limiters share one copy, which is the state   *)
(* of this module.  A packet that arrives on a limited link is marked on   *)
(* its way in; on its way out the marks, the limits on destinations and    *)
(* the limits on flows decide whether it is dropped.                       *)
(*                                                                         *)
(* Two threads work on the lists.  The simulation thread handles packets;  *)
(* the XML-RPC thread runs the setters, one call at a time and without a   *)
(* lock.  A setter is split wherever it leaves two parallel vectors of     *)
(* different lengths, the loops of handleMessage between an entry and its  *)
(* rate: each reads the intermediate states of the other.  One access to a *)
(* vector is one step: what a reader finds in the memory of a vector that  *)
(* push_back is just moving is not modelled.                               *)
(*                                                                         *)
(* A read of a vector past its end may return any value.  A write past its *)
(* end changes nothing the model sees.  The message fromIDS is not         *)
(* modelled: the code that would send it is disabled (IDSModule.cc:146),   *)
(* so blockedIPs stays empty.  Statistics are left out.                    *)
(***************************************************************************)
EXTENDS Integers, Sequences, Functions

CONSTANTS
    Packets,      \* the datagrams in the network
    Addresses,    \* their destinations
    Flows,        \* [destination, key]: key is the hash of the flow's fields
    FlowOf,       \* the flow of each packet
    Rates,        \* the rates the policies ask for, in per cent
    Slots,        \* length of link_block after initialize
    MaxCalls      \* bound: calls of the setters

ASSUME ConstantsAssumption ==
    /\ \A f \in Flows : f.destination \in Addresses
    /\ FlowOf \in [Packets -> Flows]
    /\ Rates \subseteq Nat
    /\ Slots \in Nat
    /\ MaxCalls \in Nat

VARIABLES
    to_block,         \* marked packets, by message id
    link_block,       \* per link: limited or not
    link_block_rate,
    ip_block,         \* limited destinations
    ip_block_rate,
    flow_block,       \* hashes of limited flows
    flow_block_rate,
    rpc,              \* where the XML-RPC thread is
    calls,            \* the number of calls so far
    loc,              \* where each packet is: on a wire, in a router, or gone
    handler,          \* where the simulation thread is in handleMessage
    limited           \* history: the full limits that have applied to the
                      \* packet without a break since its handling began

lists == <<ip_block, ip_block_rate, flow_block, flow_block_rate>>
links == <<link_block, link_block_rate>>
traffic == <<to_block, loc, handler, limited>>
vars == <<to_block, link_block, link_block_rate, ip_block, ip_block_rate,
          flow_block, flow_block_rate, rpc, calls, loc, handler, limited>>

FlowKeys == {f.key : f \in Flows}

\* The XML-RPC thread between two calls; with a rate to append; or in the
\* loop of addFlowBlock, about to look at entry i or to erase its rate.
Call == [at: {"idle"}]
        \cup [at: {"ipRate", "flowRate"}, rate: Rates]
        \cup [at: {"scan", "eraseRate"}, flow: Flows, rate: Rates, i: Nat]

Idle == [at |-> "idle"]

\* The simulation thread between two events; or in one of the two loops of
\* handleMessage, about to compare entry i or to draw against its rate.
Handling == [at: {"idle"}]
            \cup [at: {"ip", "ipRate", "flow", "flowRate"}, packet: Packets,
                  i: Nat, to_send: BOOLEAN]

Init ==
    /\ to_block = <<>>
    /\ link_block = [l \in 1..Slots |-> FALSE]
    /\ link_block_rate = [l \in 1..Slots |-> 0]
    /\ ip_block = <<>> /\ ip_block_rate = <<>>
    /\ flow_block = <<>> /\ flow_block_rate = <<>>
    /\ rpc = Idle
    /\ calls = 0
    /\ loc = [p \in Packets |-> "wire"]
    /\ handler = Idle
    /\ limited = {}

\* The destination and the hash of the packet that is being handled.
Destination == FlowOf[handler.packet].destination
Key == FlowOf[handler.packet].key

-----------------------------------------------------------------------------
(* The setters.                                                            *)

\* vector::erase of entry i.
Erase(s, i) == SubSeq(s, 1, i - 1) \o SubSeq(s, i + 1, Len(s))

StartCall ==
    /\ rpc = Idle
    /\ calls < MaxCalls
    /\ calls' = calls + 1

addLinkBlock(l, rate) ==
    /\ StartCall
    /\ IF l \in DOMAIN link_block
       THEN /\ link_block' = [link_block EXCEPT ![l] = TRUE]
            /\ link_block_rate' = [link_block_rate EXCEPT ![l] = rate]
       ELSE UNCHANGED links
    /\ UNCHANGED <<lists, rpc, traffic>>

\* Mutant: the new destination is put in front of the others.
addIPBlock_Front(a, rate) ==
    /\ StartCall
    /\ link_block' = <<>> /\ link_block_rate' = <<>>
    /\ a \notin Range(ip_block)
    /\ ip_block' = <<a>> \o ip_block
    /\ rpc' = [at |-> "ipRate", rate |-> rate]
    /\ UNCHANGED <<ip_block_rate, flow_block, flow_block_rate, traffic>>

\* A limit on a destination clears the limits on all links.  A destination
\* that is limited already keeps its rate.
addIPBlock(a, rate) ==
    /\ StartCall
    /\ link_block' = <<>> /\ link_block_rate' = <<>>
    /\ IF a \in Range(ip_block)
       THEN UNCHANGED <<ip_block, rpc>>
       ELSE /\ ip_block' = Append(ip_block, a)
            /\ rpc' = [at |-> "ipRate", rate |-> rate]
    /\ UNCHANGED <<ip_block_rate, flow_block, flow_block_rate, traffic>>

addIPBlockRate ==
    /\ rpc.at = "ipRate"
    /\ ip_block_rate' = Append(ip_block_rate, rpc.rate)
    /\ rpc' = Idle
    /\ UNCHANGED <<links, ip_block, flow_block, flow_block_rate, calls,
                   traffic>>

addFlowBlock(f, rate) ==
    /\ StartCall
    /\ rpc' = [at |-> "scan", flow |-> f, rate |-> rate, i |-> 1]
    /\ UNCHANGED <<links, lists, traffic>>

\* compare() is not 0: entry i is NOT the destination of the flow.
OtherDestination(i) == ip_block[i] # rpc.flow.destination

\* The limit on a destination is in front of entry i.
LimitedBefore(a, i) == \E j \in 1..(i - 1) : ip_block[j] = a

\* One turn of the loop over ip_block.  The index moves on after an erase,
\* so that the entry after an erased one is never looked at.  An erase lifts
\* the limit on one destination, and moves the limits behind it away from
\* under the loop of handleMessage.
addFlowBlockScan ==
    /\ rpc.at = "scan"
    /\ rpc.i <= Len(ip_block)
    /\ IF OtherDestination(rpc.i)
       THEN /\ ip_block' = Erase(ip_block, rpc.i)
            /\ rpc' = [rpc EXCEPT !.at = "eraseRate"]
            /\ limited' = {k \in limited :
                             k = "ip" => LimitedBefore(Destination, rpc.i)}
       ELSE /\ rpc' = [rpc EXCEPT !.i = @ + 1]
            /\ UNCHANGED <<ip_block, limited>>
    /\ UNCHANGED <<links, ip_block_rate, flow_block, flow_block_rate, calls,
                   to_block, loc, handler>>

\* Mutant: the last rate is erased, not the one of the erased entry.
addFlowBlockErase_Last ==
    /\ rpc.at = "eraseRate"
    /\ ip_block_rate' = SubSeq(ip_block_rate, 1, Len(ip_block_rate) - 1)
    /\ rpc' = [rpc EXCEPT !.at = "scan", !.i = @ + 1]
    /\ UNCHANGED <<links, ip_block, flow_block, flow_block_rate, calls,
                   traffic>>

addFlowBlockErase ==
    /\ rpc.at = "eraseRate"
    /\ ip_block_rate' = Erase(ip_block_rate, rpc.i)
    /\ rpc' = [rpc EXCEPT !.at = "scan", !.i = @ + 1]
    /\ UNCHANGED <<links, ip_block, flow_block, flow_block_rate, calls,
                   traffic>>

\* After the loop the flow is appended, unless its hash is in the list.
addFlowBlockPush ==
    /\ rpc.at = "scan"
    /\ rpc.i > Len(ip_block)
    /\ IF rpc.flow.key \in Range(flow_block)
       THEN /\ rpc' = Idle
            /\ UNCHANGED flow_block
       ELSE /\ flow_block' = Append(flow_block, rpc.flow.key)
            /\ rpc' = [at |-> "flowRate", rate |-> rpc.rate]
    /\ UNCHANGED <<links, ip_block, ip_block_rate, flow_block_rate, calls,
                   traffic>>

addFlowBlockRate ==
    /\ rpc.at = "flowRate"
    /\ flow_block_rate' = Append(flow_block_rate, rpc.rate)
    /\ rpc' = Idle
    /\ UNCHANGED <<links, ip_block, ip_block_rate, flow_block, calls, traffic>>

-----------------------------------------------------------------------------
(* The simulation thread: handleMessage.                                   *)

\* The values link_block[l] may have.
LinkBlocked(l) == IF l \in DOMAIN link_block THEN {link_block[l]} ELSE BOOLEAN

\* ifIn_ppp: a packet from link l is marked and passed to the network layer.
FromPpp(p, l) ==
    /\ handler = Idle
    /\ loc[p] = "wire"
    /\ \E b \in LinkBlocked(l) :
          to_block' = IF b THEN Append(to_block, p) ELSE to_block
    /\ loc' = [loc EXCEPT ![p] = "router"]
    /\ UNCHANGED <<links, lists, rpc, calls, handler, limited>>

\* probability <= rate, for a probability from 0 to 99.
Outcomes(rate) ==
    {probability <= rate : probability \in {0, 99}}

\* The outcomes of the comparison with entry i of a list of rates.
Draw(rates, i) == IF i \in DOMAIN rates THEN Outcomes(rates[i]) ELSE BOOLEAN

\* The marks of packet p.
Marks(p) == {i \in DOMAIN to_block : to_block[i] = p}

\* Mutant: the mark of a packet is not erased.
Unmark_Never(p) == to_block

\* The first mark of packet p is erased.
Unmark(p) ==
    IF Marks(p) = {} THEN to_block
    ELSE Erase(to_block, CHOOSE i \in Marks(p) : \A j \in Marks(p) : i <= j)

\* Entry j of ip_block is the full limit of destination a.  Behind an entry
\* whose rate is still to be erased, no entry has its rate at its index.
FullIP(j, a) ==
    /\ j \in DOMAIN ip_block \cap DOMAIN ip_block_rate
    /\ ip_block[j] = a /\ ip_block_rate[j] >= 99
    /\ rpc.at = "eraseRate" => j < rpc.i

\* Entry j of flow_block is the full limit of the flows with hash k.
FullFlow(j, k) ==
    /\ j \in DOMAIN flow_block \cap DOMAIN flow_block_rate
    /\ flow_block[j] = k /\ flow_block_rate[j] >= 99

\* ifIn_network, the first loop: the draw for the mark of packet p.  The rate
\* is read at the position of the mark in to_block.
FromNetwork(p) ==
    /\ handler = Idle
    /\ loc[p] = "router"
    /\ to_block' = Unmark(p)
    /\ \E to_send \in BOOLEAN :
          /\ \A i \in Marks(p) : ~to_send \in Draw(link_block_rate, i)
          /\ Marks(p) = {} => to_send
          /\ handler' = [at |-> "ip", packet |-> p, i |-> 1,
                         to_send |-> to_send]
    /\ limited' = {k \in {"ip", "flow"} :
                     \/ k = "ip" /\ \E j \in DOMAIN ip_block :
                                      FullIP(j, FlowOf[p].destination)
                     \/ k = "flow" /\ \E j \in DOMAIN flow_block :
                                        FullFlow(j, FlowOf[p].key)}
    /\ UNCHANGED <<loc, links, lists, rpc, calls>>

\* The head of a loop: entry i is the packet's, or the index moves on.
Compare(list, entry, rateOf) ==
    /\ handler.i <= Len(list)
    /\ handler' = IF list[handler.i] = entry
                  THEN [handler EXCEPT !.at = rateOf]
                  ELSE [handler EXCEPT !.i = @ + 1]

\* The body of a loop: the draw against the rate of entry i.
DrawRate(rates, loop) ==
    \E dropped \in Draw(rates, handler.i) :
       handler' = [handler EXCEPT !.at = loop, !.i = @ + 1,
                                  !.to_send = @ /\ ~dropped]

ipCompare ==
    /\ handler.at = "ip"
    /\ Compare(ip_block, Destination, "ipRate")
    /\ UNCHANGED <<to_block, loc, limited, links, lists, rpc, calls>>

ipDraw ==
    /\ handler.at = "ipRate"
    /\ DrawRate(ip_block_rate, "ip")
    /\ UNCHANGED <<to_block, loc, limited, links, lists, rpc, calls>>

ipDone ==
    /\ handler.at = "ip"
    /\ handler.i > Len(ip_block)
    /\ handler' = [handler EXCEPT !.at = "flow", !.i = 1]
    /\ UNCHANGED <<to_block, loc, limited, links, lists, rpc, calls>>

flowCompare ==
    /\ handler.at = "flow"
    /\ Compare(flow_block, Key, "flowRate")
    /\ UNCHANGED <<to_block, loc, limited, links, lists, rpc, calls>>

flowDraw ==
    /\ handler.at = "flowRate"
    /\ DrawRate(flow_block_rate, "flow")
    /\ UNCHANGED <<to_block, loc, limited, links, lists, rpc, calls>>

\* After the loops the packet is sent on, or deleted.
flowDone ==
    /\ handler.at = "flow"
    /\ handler.i > Len(flow_block)
    /\ loc' = [loc EXCEPT ![handler.packet] =
                  IF handler.to_send THEN "wire" ELSE "dropped"]
    /\ handler' = Idle
    /\ limited' = {}
    /\ UNCHANGED <<to_block, links, lists, rpc, calls>>

\* The network layer delivers or discards a packet: its mark stays behind.
Consume(p) ==
    /\ handler = Idle
    /\ loc[p] = "router"
    /\ loc' = [loc EXCEPT ![p] = "consumed"]
    /\ UNCHANGED <<to_block, links, lists, rpc, calls, handler, limited>>

-----------------------------------------------------------------------------

Setter ==
    \/ addIPBlockRate
    \/ addFlowBlockScan
    \/ addFlowBlockErase
    \/ addFlowBlockPush
    \/ addFlowBlockRate

Handler ==
    \/ ipCompare
    \/ ipDraw
    \/ ipDone
    \/ flowCompare
    \/ flowDraw
    \/ flowDone

Next ==
    \/ Setter
    \/ Handler
    \/ \E l \in 1..Slots, r \in Rates : addLinkBlock(l, r)
    \/ \E a \in Addresses, r \in Rates : addIPBlock(a, r)
    \/ \E f \in Flows, r \in Rates : addFlowBlock(f, r)
    \/ \E p \in Packets, l \in 1..Slots : FromPpp(p, l)
    \/ \E p \in Packets : FromNetwork(p) \/ Consume(p)

Spec == Init /\ [][Next]_vars

\* The XML-RPC thread is a thread of its own: a call it has started goes on.
FairSpec == Spec /\ WF_vars(Setter)

-----------------------------------------------------------------------------
(* Properties.                                                             *)

\* The variables keep their types.
TypeOK ==
    /\ to_block \in Seq(Packets)
    /\ link_block \in Seq(BOOLEAN) /\ link_block_rate \in Seq(Nat)
    /\ ip_block \in Seq(Addresses) /\ ip_block_rate \in Seq(Rates)
    /\ flow_block \in Seq(FlowKeys) /\ flow_block_rate \in Seq(Rates)
    /\ rpc \in Call
    /\ calls \in 0..MaxCalls
    /\ loc \in [Packets -> {"wire", "router", "dropped", "consumed"}]
    /\ handler \in Handling
    /\ limited \subseteq {"ip", "flow"}

\* A mark belongs to one stay in one router: a packet on a wire has none,
\* and no packet has two.  The list is shared by the limiters on a packet's
\* path, so a mark left by one of them would be drawn for by the next.
MarksAreLocal ==
    /\ TypeOK
    /\ \A i \in DOMAIN to_block : loc[to_block[i]] \in {"router", "consumed"}
    /\ IsInjective(to_block)

\* A packet that comes to the limiter while its destination or its flow has a
\* limit of 99 or more never leaves for the wire, although the setters change
\* the lists under the loops that look the limit up: only the erase of the
\* limit itself, or of an entry in front of it, can let the packet through.
FullLimitHolds ==
    [][\A p \in Packets :
          loc[p] = "router" /\ loc'[p] = "wire" => limited = {}]_vars

\* The pairs of vectors implement two maps (LimitTable).  A limit exists
\* from the moment its rate is appended until its entry is erased; a rate
\* that is about to be erased does not count.
LiveRates ==
    IF rpc.at = "eraseRate" THEN Erase(ip_block_rate, rpc.i)
                            ELSE ip_block_rate

AsMap(keys, rates) ==
    [k \in {keys[i] : i \in DOMAIN keys \cap DOMAIN rates} |->
        rates[CHOOSE i \in DOMAIN keys : keys[i] = k]]

Table == INSTANCE LimitTable WITH
            ipLimit <- AsMap(ip_block, LiveRates),
            flowLimit <- AsMap(flow_block, flow_block_rate)

\* The lists implement LimitTable: every step of a setter adds one limit with
\* the rate asked for, lifts one limit on a destination, or changes nothing.
ImplementsLimitTable == Table!Spec
=============================================================================
