------------------------- MODULE RateLimiterProofs -------------------------
(***************************************************************************)
(* The lists of the rate limiters, for any number of packets, addresses,   *)
(* flows, links and calls: the marks, the limits that hold, and the        *)
(* implementation of LimitTable.                                           *)
(***************************************************************************)
EXTENDS RateLimiter, SequenceTheorems, TLAPS

\* The parallel vectors have the same length, but for the entry whose rate
\* the XML-RPC thread is about to append or to erase; no limit is in a list
\* twice.
VectorsInv ==
    /\ Len(link_block_rate) = Len(link_block)
    /\ Len(ip_block_rate) = Len(ip_block) + (IF rpc.at = "eraseRate" THEN 1
                                             ELSE IF rpc.at = "ipRate" THEN -1
                                             ELSE 0)
    /\ Len(flow_block_rate) = Len(flow_block)
                              + (IF rpc.at = "flowRate" THEN -1 ELSE 0)
    /\ rpc.at \in {"scan", "eraseRate"} => rpc.i >= 1
    /\ rpc.at = "eraseRate" => rpc.i <= Len(ip_block_rate)
    /\ IsInjective(ip_block) /\ IsInjective(flow_block)

\* The packet that is being handled is in its router, without a mark.
HandledInv ==
    handler.at # "idle" =>
       /\ handler.i >= 1
       /\ loc[handler.packet] = "router"
       /\ \A i \in DOMAIN to_block : to_block[i] # handler.packet

\* The inductive invariant.
IInv == MarksAreLocal /\ VectorsInv /\ HandledInv

\* A full limit that has applied since the handling of the packet began is
\* still to be found by the loop, or has had the packet dropped.
FullInv ==
    /\ handler.at = "idle" => limited = {}
    /\ "ip" \in limited /\ handler.at \in {"ip", "ipRate"} =>
          \E j \in DOMAIN ip_block : /\ FullIP(j, Destination)
                                     /\ handler.to_send => handler.i <= j
    /\ "ip" \in limited /\ handler.at \in {"flow", "flowRate"} => ~handler.to_send
    /\ "flow" \in limited =>
          \E j \in DOMAIN flow_block :
             /\ FullFlow(j, Key)
             /\ handler.at \in {"flow", "flowRate"} /\ handler.to_send =>
                   handler.i <= j

-----------------------------------------------------------------------------
(* Sequences.                                                              *)

\* What the erase of a vector leaves: the other entries, in their order.
LEMMA EraseResult ==
    ASSUME NEW S, NEW s \in Seq(S), NEW i \in 1..Len(s)
    PROVE  /\ Erase(s, i) \in Seq(S)
           /\ Len(Erase(s, i)) = Len(s) - 1
           /\ \A j \in 1..(Len(s) - 1) :
                 Erase(s, i)[j] = IF j < i THEN s[j] ELSE s[j + 1]
<1> DEFINE before == SubSeq(s, 1, i - 1)
           after == SubSeq(s, i + 1, Len(s))
<1>1. /\ before \in Seq(S) /\ Len(before) = i - 1
      /\ \A j \in 1..(i - 1) : before[j] = s[j]
  BY SubSeqProperties
<1>2. /\ after \in Seq(S) /\ Len(after) = Len(s) - i
      /\ \A j \in 1..(Len(s) - i) : after[j] = s[i + j]
  BY SubSeqProperties
<1>3. Erase(s, i) = before \o after
  BY DEF Erase
<1> HIDE DEF before, after
<1>4. /\ before \o after \in Seq(S)
      /\ Len(before \o after) = Len(s) - 1
      /\ \A j \in 1..(Len(s) - 1) : (before \o after)[j] =
            IF j <= i - 1 THEN before[j] ELSE after[j - (i - 1)]
  BY <1>1, <1>2, ConcatProperties
<1>5. ASSUME NEW j \in 1..(Len(s) - 1)
      PROVE  (before \o after)[j] = IF j < i THEN s[j] ELSE s[j + 1]
  <2>1. CASE j < i
    BY <1>1, <1>4, <2>1
  <2>2. CASE ~(j < i)
    <3>1. j - (i - 1) \in 1..(Len(s) - i) /\ i + (j - (i - 1)) = j + 1
      BY <2>2
    <3>2. after[j - (i - 1)] = s[j + 1]
      BY <1>2, <3>1
    <3> QED
      BY <1>4, <2>2, <3>2
  <2> QED
    BY Zenon, <2>1, <2>2
<1> QED
  BY <1>3, <1>4, <1>5

\* Erasing an entry of a list without duplicates leaves no duplicates, and
\* every entry but the erased one.
LEMMA EraseInjective ==
    ASSUME NEW S, NEW s \in Seq(S), NEW i \in 1..Len(s), IsInjective(s)
    PROVE  /\ IsInjective(Erase(s, i))
           /\ \A j \in DOMAIN Erase(s, i) :
                 Erase(s, i)[j] # s[i] /\ \E k \in DOMAIN s : s[k] = Erase(s, i)[j]
           /\ \A k \in DOMAIN s \ {i} : s[k] \in Range(Erase(s, i))
<1> DEFINE r == Erase(s, i)
<1>1. /\ r \in Seq(S) /\ Len(r) = Len(s) - 1
      /\ \A j \in 1..(Len(s) - 1) : r[j] = IF j < i THEN s[j] ELSE s[j + 1]
  BY EraseResult, Zenon
<1> HIDE DEF r
<1>2. DOMAIN r = 1..(Len(s) - 1) /\ DOMAIN s = 1..Len(s)
  BY <1>1
<1>a. \A a, b \in 1..Len(s) : s[a] = s[b] => a = b
  BY <1>2 DEF IsInjective
<1>3. IsInjective(r)
  <2> SUFFICES ASSUME NEW a \in 1..(Len(s) - 1), NEW b \in 1..(Len(s) - 1),
                      r[a] = r[b]
               PROVE  a = b
    BY <1>2 DEF IsInjective
  <2> DEFINE old(j) == IF j < i THEN j ELSE j + 1
  <2>1. old(a) \in 1..Len(s) /\ r[a] = s[old(a)]
    <3>1. CASE a < i
      BY <1>1, <3>1
    <3>2. CASE ~(a < i)
      BY <1>1, <3>2
    <3> QED
      BY <3>1, <3>2, Zenon
  <2>2. old(b) \in 1..Len(s) /\ r[b] = s[old(b)]
    <3>1. CASE b < i
      BY <1>1, <3>1
    <3>2. CASE ~(b < i)
      BY <1>1, <3>2
    <3> QED
      BY <3>1, <3>2, Zenon
  <2>3. old(a) = old(b)
    BY Zenon, <1>a, <2>1, <2>2
  <2> QED
    BY <2>3
<1>4. ASSUME NEW j \in DOMAIN r
      PROVE  r[j] # s[i] /\ \E k \in DOMAIN s : s[k] = r[j]
  <2>1. j \in 1..(Len(s) - 1) /\ r[j] = IF j < i THEN s[j] ELSE s[j + 1]
    BY <1>1, <1>2
  <2> QED
    BY <1>2, <1>a, <2>1
<1>5. ASSUME NEW k \in DOMAIN s \ {i} PROVE s[k] \in Range(r)
  <2>1. CASE k < i
    BY <1>1, <1>2, <2>1 DEF Range
  <2>2. CASE k > i
    <3>1. k - 1 \in 1..Len(r) /\ r[k - 1] = s[k]
      BY <1>1, <1>2, <2>2
    <3> QED
      BY <3>1 DEF Range
  <2> QED
    BY <1>2, <2>1, <2>2
<1> QED
  BY <1>3, <1>4, <1>5 DEF r
\* Appending an entry that is not in the list yet makes no duplicate.
LEMMA AppendFresh ==
    ASSUME NEW S, NEW s \in Seq(S), NEW e \in S, IsInjective(s), e \notin Range(s)
    PROVE  IsInjective(Append(s, e))
<1>1. /\ DOMAIN Append(s, e) = 1..(Len(s) + 1) /\ DOMAIN s = 1..Len(s)
      /\ \A j \in 1..Len(s) : Append(s, e)[j] = s[j]
      /\ Append(s, e)[Len(s) + 1] = e
  OBVIOUS
<1>2. \A a, b \in 1..Len(s) : s[a] = s[b] => a = b
  BY <1>1 DEF IsInjective
<1>3. \A j \in 1..Len(s) : s[j] # e
  BY DEF Range
<1> QED
  BY <1>1, <1>2, <1>3 DEF IsInjective

\* Unmarking a packet, with no mark there twice, leaves the marks of the
\* others.
LEMMA UnmarkResult ==
    ASSUME to_block \in Seq(Packets), IsInjective(to_block), NEW p \in Packets
    PROVE  /\ Unmark(p) \in Seq(Packets)
           /\ IsInjective(Unmark(p))
           /\ \A j \in DOMAIN Unmark(p) :
                 /\ Unmark(p)[j] # p
                 /\ \E k \in DOMAIN to_block : to_block[k] = Unmark(p)[j]
<1>1. CASE \E i \in 1..Len(to_block) : to_block[i] = p
  <2>1. PICK i \in 1..Len(to_block) : to_block[i] = p
    BY <1>1
  <2>2. Marks(p) = {i}
    BY <2>1 DEF IsInjective, Marks
  <2>3. (CHOOSE k \in Marks(p) : \A j \in Marks(p) : k <= j) = i
    BY <2>2
  <2>4. Unmark(p) = Erase(to_block, i)
    BY <2>2, <2>3 DEF Unmark
  <2> QED
    BY <2>1, <2>4, EraseResult, EraseInjective
<1>2. CASE ~\E i \in 1..Len(to_block) : to_block[i] = p
  BY <1>2 DEF Unmark, Marks
<1> QED
  BY <1>1, <1>2

-----------------------------------------------------------------------------
(* The invariant.                                                          *)

\* What is known of the XML-RPC thread at each of its positions.
LEMMA CallFields ==
    ASSUME rpc \in Call
    PROVE  /\ rpc.at = "idle" => rpc = Idle
           /\ rpc.at \in {"ipRate", "flowRate"} => rpc.rate \in Rates
           /\ rpc.at \in {"scan", "eraseRate"} =>
                 /\ rpc.flow \in Flows /\ rpc.rate \in Rates /\ rpc.i \in Nat
                 /\ rpc.flow.key \in FlowKeys
                 /\ rpc = [at |-> rpc.at, flow |-> rpc.flow, rate |-> rpc.rate,
                           i |-> rpc.i]
BY DEF Call, Idle, FlowKeys

\* The same for the simulation thread.
LEMMA HandlerFields ==
    ASSUME handler \in Handling
    PROVE  /\ handler.at = "idle" => handler = Idle
           /\ handler.at # "idle" =>
                 /\ handler.at \in {"ip", "ipRate", "flow", "flowRate"}
                 /\ handler.packet \in Packets /\ handler.i \in Nat
                 /\ handler.to_send \in BOOLEAN
                 /\ handler = [at |-> handler.at, packet |-> handler.packet,
                               i |-> handler.i, to_send |-> handler.to_send]
BY DEF Handling, Idle

\* The lists are empty at the start.
LEMMA InitIInv == Init => IInv
<1> SUFFICES ASSUME Init PROVE IInv
  OBVIOUS
<1>1. TypeOK
  BY ConstantsAssumption DEF Init, TypeOK, Call, Handling, Idle
<1>2. MarksAreLocal
  BY <1>1 DEF Init, MarksAreLocal, IsInjective
<1>3. VectorsInv
  <2>1. Len(link_block) = Slots /\ Len(link_block_rate) = Slots
    BY ConstantsAssumption DEF Init
  <2>2. IsInjective(ip_block) /\ IsInjective(flow_block)
    BY DEF Init, IsInjective
  <2>3. rpc.at = "idle" /\ Len(ip_block) = 0 /\ Len(ip_block_rate) = 0
        /\ Len(flow_block) = 0 /\ Len(flow_block_rate) = 0
    BY DEF Init, Idle
  <2> QED
    BY <2>1, <2>2, <2>3 DEF VectorsInv
<1>4. HandledInv
  BY DEF Init, Idle, HandledInv
<1> QED
  BY <1>2, <1>3, <1>4 DEF IInv

\* What a setter does not touch: the marks and the packets.
LEMMA MarksKept ==
    ASSUME MarksAreLocal, HandledInv, TypeOK', UNCHANGED <<to_block, loc, handler>>
    PROVE  MarksAreLocal' /\ HandledInv'
BY DEF MarksAreLocal, HandledInv

\* A setter is called.
LEMMA CallsCounted ==
    ASSUME TypeOK, StartCall
    PROVE  calls' \in 0..MaxCalls
<1>1. MaxCalls \in Nat /\ calls \in 0..MaxCalls /\ calls < MaxCalls
  BY ConstantsAssumption, Zenon DEF TypeOK, StartCall
<1> QED
  BY <1>1 DEF StartCall

\* A limit for a link.
LEMMA AddLinkBlockIInv ==
    ASSUME IInv, NEW l \in 1..Slots, NEW r \in Rates, addLinkBlock(l, r)
    PROVE  IInv'
<1> USE DEF addLinkBlock, StartCall, lists, links, traffic
<1>a. TypeOK /\ MarksAreLocal /\ VectorsInv /\ HandledInv
  BY DEF IInv, MarksAreLocal
<1>b. /\ link_block' \in Seq(BOOLEAN) /\ link_block_rate' \in Seq(Nat)
      /\ Len(link_block_rate') = Len(link_block')
  <2>1. CASE l \in DOMAIN link_block
    <3>1. /\ link_block \in Seq(BOOLEAN) /\ link_block_rate \in Seq(Nat)
          /\ l \in 1..Len(link_block) /\ l \in 1..Len(link_block_rate) /\ r \in Nat
      BY <1>a, <2>1, ConstantsAssumption DEF TypeOK, VectorsInv
    <3>2. /\ link_block' = [link_block EXCEPT ![l] = TRUE]
          /\ link_block_rate' = [link_block_rate EXCEPT ![l] = r]
      BY <2>1
    <3> QED
      BY <1>a, <3>1, <3>2, ExceptSeq DEF VectorsInv
  <2>2. CASE l \notin DOMAIN link_block
    BY <1>a, <2>2 DEF TypeOK, VectorsInv
  <2> QED
    BY <2>1, <2>2
<1>1. TypeOK'
  BY Zenon, <1>a, <1>b, CallsCounted DEF TypeOK
<1>2. VectorsInv'
  BY <1>a, <1>b DEF VectorsInv
<1> QED
  BY <1>a, <1>1, <1>2, MarksKept DEF IInv

\* A limit for an address: the links are freed, and the rate is still missing.
LEMMA AddIPBlockIInv ==
    ASSUME IInv, NEW a \in Addresses, NEW r \in Rates, addIPBlock(a, r)
    PROVE  IInv'
<1> USE DEF addIPBlock, StartCall, traffic
<1>a. TypeOK /\ MarksAreLocal /\ VectorsInv /\ HandledInv
  BY DEF IInv, MarksAreLocal
<1>b. /\ link_block' \in Seq(BOOLEAN) /\ link_block_rate' \in Seq(Nat)
      /\ ip_block' \in Seq(Addresses)
  <2>1. link_block' = <<>> /\ link_block_rate' = <<>>
    OBVIOUS
  <2>2. ip_block' = ip_block \/ ip_block' = Append(ip_block, a)
    OBVIOUS
  <2>3. ip_block \in Seq(Addresses)
    BY <1>a DEF TypeOK
  <2>4. ip_block' \in Seq(Addresses)
    BY <2>2, <2>3, AppendProperties
  <2> QED
    BY <2>1, <2>4, EmptySeq
<1>c. rpc' \in Call
  BY <1>a DEF TypeOK, Call
<1>1. TypeOK'
  BY <1>a, <1>b, <1>c, CallsCounted DEF TypeOK
<1>2. IsInjective(ip_block')
  <2>1. ip_block \in Seq(Addresses) /\ IsInjective(ip_block)
    BY <1>a, Zenon DEF TypeOK, VectorsInv
  <2>2. CASE a \in Range(ip_block)
    BY <2>1, <2>2, Zenon
  <2>3. CASE a \notin Range(ip_block)
    <3>1. IsInjective(Append(ip_block, a))
      BY <2>1, <2>3, AppendFresh
    <3> QED
      BY <2>3, <3>1, Zenon
  <2> QED
    BY <2>2, <2>3, Zenon
<1>3. VectorsInv'
  BY <1>a, <1>2 DEF VectorsInv, TypeOK, Idle
<1> QED
  BY <1>a, <1>1, <1>3, MarksKept DEF IInv

\* The rate for the address follows.
LEMMA AddIPBlockRateIInv ==
    ASSUME IInv, addIPBlockRate
    PROVE  IInv'
<1> USE DEF addIPBlockRate, links, traffic
<1>a. TypeOK /\ MarksAreLocal /\ VectorsInv /\ HandledInv
  BY DEF IInv, MarksAreLocal
<1>b. rpc.rate \in Rates
  BY <1>a, CallFields DEF TypeOK
<1>1. TypeOK'
  BY <1>a, <1>b DEF TypeOK, Call, Idle
<1>2. VectorsInv'
  BY <1>a, <1>b DEF VectorsInv, TypeOK, Idle
<1> QED
  BY <1>a, <1>1, <1>2, MarksKept DEF IInv

\* A limit for a flow: the call starts its loop.
LEMMA AddFlowBlockIInv ==
    ASSUME IInv, NEW f \in Flows, NEW r \in Rates, addFlowBlock(f, r)
    PROVE  IInv'
<1> USE DEF addFlowBlock, StartCall, lists, links, traffic
<1>a. TypeOK /\ MarksAreLocal /\ VectorsInv /\ HandledInv
  BY DEF IInv, MarksAreLocal
<1>1. TypeOK'
  BY <1>a, CallsCounted DEF TypeOK, Call
<1>2. VectorsInv'
  BY <1>a DEF VectorsInv, TypeOK, Idle
<1> QED
  BY <1>a, <1>1, <1>2, MarksKept DEF IInv

\* One turn of the loop: an entry of ip_block is erased, or the index moves on.
LEMMA ScanIInv ==
    ASSUME IInv, addFlowBlockScan
    PROVE  IInv'
<1> USE DEF addFlowBlockScan, links, traffic
<1>a. TypeOK /\ MarksAreLocal /\ VectorsInv /\ HandledInv
  BY DEF IInv, MarksAreLocal
<1>b. /\ rpc.flow \in Flows /\ rpc.rate \in Rates /\ rpc.i \in 1..Len(ip_block)
      /\ rpc = [at |-> "scan", flow |-> rpc.flow, rate |-> rpc.rate, i |-> rpc.i]
  BY <1>a, CallFields DEF TypeOK, VectorsInv
<1>1. CASE OtherDestination(rpc.i)
  <2>1. /\ ip_block' = Erase(ip_block, rpc.i)
        /\ rpc' = [at |-> "eraseRate", flow |-> rpc.flow, rate |-> rpc.rate,
                   i |-> rpc.i]
    BY <1>1, <1>b
  <2>2. /\ ip_block' \in Seq(Addresses) /\ Len(ip_block') = Len(ip_block) - 1
        /\ IsInjective(ip_block')
    BY <1>a, <1>b, <2>1, EraseResult, EraseInjective DEF TypeOK, VectorsInv
  <2>3. TypeOK'
    BY Zenon, <1>a, <1>b, <2>1, <2>2 DEF TypeOK, Call
  <2>4. VectorsInv'
    BY <1>a, <1>b, <2>1, <2>2 DEF VectorsInv, TypeOK
  <2> QED
    BY <1>a, <2>3, <2>4, MarksKept DEF IInv
<1>2. CASE ~OtherDestination(rpc.i)
  <2>1. /\ ip_block' = ip_block
        /\ rpc' = [at |-> "scan", flow |-> rpc.flow, rate |-> rpc.rate,
                   i |-> rpc.i + 1]
    BY <1>2, <1>b
  <2>2. TypeOK'
    BY <1>a, <1>b, <2>1 DEF TypeOK, Call
  <2>3. VectorsInv'
    BY <1>a, <1>b, <2>1 DEF VectorsInv, TypeOK
  <2> QED
    BY <1>a, <2>2, <2>3, MarksKept DEF IInv
<1> QED
  BY <1>1, <1>2

\* The rate of the entry that was erased is erased, too.
LEMMA EraseIInv ==
    ASSUME IInv, addFlowBlockErase
    PROVE  IInv'
<1> USE DEF addFlowBlockErase, links, traffic
<1>a. TypeOK /\ MarksAreLocal /\ VectorsInv /\ HandledInv
  BY DEF IInv, MarksAreLocal
<1>b. /\ rpc.flow \in Flows /\ rpc.rate \in Rates
      /\ rpc.i \in 1..Len(ip_block_rate)
      /\ rpc = [at |-> "eraseRate", flow |-> rpc.flow, rate |-> rpc.rate,
                i |-> rpc.i]
  BY <1>a, CallFields DEF TypeOK, VectorsInv
<1>c. /\ ip_block_rate' \in Seq(Rates)
      /\ Len(ip_block_rate') = Len(ip_block_rate) - 1
  BY <1>a, <1>b, EraseResult DEF TypeOK
<1>d. rpc' = [at |-> "scan", flow |-> rpc.flow, rate |-> rpc.rate,
              i |-> rpc.i + 1]
  BY Zenon, <1>b
<1>e. rpc' \in Call
  BY <1>b, <1>d DEF Call
<1>1. TypeOK'
  BY Zenon, <1>a, <1>c, <1>e DEF TypeOK
<1>2. VectorsInv'
  BY <1>a, <1>b, <1>c, <1>d DEF VectorsInv, TypeOK
<1> QED
  BY <1>a, <1>1, <1>2, MarksKept DEF IInv

\* After the loop: the key of the flow, without its rate.
LEMMA PushIInv ==
    ASSUME IInv, addFlowBlockPush
    PROVE  IInv'
<1> USE DEF addFlowBlockPush, links, traffic
<1>a. TypeOK /\ MarksAreLocal /\ VectorsInv /\ HandledInv
  BY DEF IInv, MarksAreLocal
<1>b. rpc.flow.key \in FlowKeys /\ rpc.rate \in Rates
  BY <1>a, CallFields DEF TypeOK
<1>c. flow_block \in Seq(FlowKeys)
  BY <1>a DEF TypeOK
<1>1. CASE rpc.flow.key \in Range(flow_block)
  <2>1. rpc' = Idle /\ flow_block' = flow_block
    BY <1>1
  <2>2. TypeOK'
    BY <1>a, <2>1 DEF TypeOK, Call, Idle
  <2>3. VectorsInv'
    BY <1>a, <2>1 DEF VectorsInv, Idle
  <2> QED
    BY <1>a, <2>2, <2>3, MarksKept DEF IInv
<1>2. CASE rpc.flow.key \notin Range(flow_block)
  <2>1. /\ rpc' = [at |-> "flowRate", rate |-> rpc.rate]
        /\ flow_block' = Append(flow_block, rpc.flow.key)
    BY <1>2
  <2>2. IsInjective(flow_block')
    BY <1>a, <1>b, <1>c, <1>2, <2>1, AppendFresh DEF VectorsInv
  <2>3. flow_block' \in Seq(FlowKeys) /\ Len(flow_block') = Len(flow_block) + 1
    BY <1>b, <1>c, <2>1, AppendProperties
  <2>4. TypeOK'
    BY <1>a, <1>b, <2>1, <2>3 DEF TypeOK, Call
  <2>5. VectorsInv'
    BY <1>a, <2>1, <2>2, <2>3 DEF VectorsInv, TypeOK
  <2> QED
    BY <1>a, <2>4, <2>5, MarksKept DEF IInv
<1> QED
  BY <1>1, <1>2

\* The rate of the flow follows.
LEMMA AddFlowBlockRateIInv ==
    ASSUME IInv, addFlowBlockRate
    PROVE  IInv'
<1> USE DEF addFlowBlockRate, links, traffic
<1>a. TypeOK /\ MarksAreLocal /\ VectorsInv /\ HandledInv
  BY DEF IInv, MarksAreLocal
<1>b. rpc.rate \in Rates
  BY <1>a, CallFields DEF TypeOK
<1>1. TypeOK'
  BY <1>a, <1>b DEF TypeOK, Call, Idle
<1>2. VectorsInv'
  BY <1>a, <1>b DEF VectorsInv, TypeOK, Idle
<1> QED
  BY <1>a, <1>1, <1>2, MarksKept DEF IInv

\* What the simulation thread does not touch: the vectors.
LEMMA VectorsKept ==
    ASSUME TypeOK, VectorsInv, UNCHANGED <<links, lists, rpc, calls>>,
           to_block' \in Seq(Packets),
           loc' \in [Packets -> {"wire", "router", "dropped", "consumed"}],
           handler' \in Handling, limited' \subseteq {"ip", "flow"}
    PROVE  TypeOK' /\ VectorsInv'
BY Zenon DEF TypeOK, VectorsInv, links, lists

\* A packet from a link gets its mark when it enters the router.
LEMMA FromPppIInv ==
    ASSUME IInv, NEW p \in Packets, NEW l \in 1..Slots, FromPpp(p, l)
    PROVE  IInv'
<1>a. TypeOK /\ MarksAreLocal /\ VectorsInv /\ HandledInv
  BY DEF IInv, MarksAreLocal
<1>b. /\ to_block \in Seq(Packets)
      /\ loc \in [Packets -> {"wire", "router", "dropped", "consumed"}]
      /\ DOMAIN to_block = 1..Len(to_block)
  BY <1>a DEF TypeOK
<1>c. loc[p] = "wire" /\ loc' = [loc EXCEPT ![p] = "router"]
  BY DEF FromPpp
<1>1. to_block' = to_block \/ to_block' = Append(to_block, p)
  BY DEF FromPpp
<1>2. p \notin Range(to_block)
  BY <1>a, <1>b, <1>c DEF MarksAreLocal, Range
<1>3. to_block' \in Seq(Packets) /\ IsInjective(to_block')
  <2>1. IsInjective(to_block)
    BY <1>a DEF MarksAreLocal
  <2>2. CASE to_block' = to_block
    BY <1>b, <2>1, <2>2
  <2>3. CASE to_block' = Append(to_block, p)
    BY <1>b, <1>2, <2>1, <2>3, AppendFresh, AppendProperties
  <2> QED
    BY <1>1, <2>2, <2>3
<1>d. /\ handler = Idle /\ handler' = handler /\ handler' \in Handling
      /\ limited' \subseteq {"ip", "flow"}
  BY <1>a DEF FromPpp, TypeOK
<1>4. TypeOK' /\ VectorsInv'
  BY <1>a, <1>b, <1>c, <1>d, <1>3, VectorsKept DEF FromPpp
<1>5. ASSUME NEW i \in DOMAIN to_block'
      PROVE  loc'[to_block'[i]] \in {"router", "consumed"}
  <2>1. to_block'[i] = p \/ (i \in DOMAIN to_block /\ to_block'[i] = to_block[i])
    <3>1. CASE to_block' = to_block
      BY <3>1
    <3>2. CASE to_block' = Append(to_block, p)
      BY <1>b, <3>2
    <3> QED
      BY <1>1, <3>1, <3>2
  <2>2. i \in DOMAIN to_block =>
           to_block[i] \in Packets /\ loc[to_block[i]] \in {"router", "consumed"}
    BY <1>a, <1>b DEF MarksAreLocal
  <2> QED
    BY <1>b, <1>c, <2>1, <2>2
<1>6. HandledInv'
  BY <1>d DEF HandledInv, Idle
<1> QED
  BY <1>3, <1>4, <1>5, <1>6 DEF IInv, MarksAreLocal

\* The handling of a packet begins: its mark is gone.
LEMMA FromNetworkIInv ==
    ASSUME IInv, NEW p \in Packets, FromNetwork(p)
    PROVE  IInv'
<1>a. TypeOK /\ MarksAreLocal /\ VectorsInv
  BY DEF IInv, MarksAreLocal
<1>b. /\ to_block \in Seq(Packets) /\ IsInjective(to_block)
      /\ loc \in [Packets -> {"wire", "router", "dropped", "consumed"}]
  BY Zenon, <1>a DEF TypeOK, MarksAreLocal
<1>1. /\ to_block' = Unmark(p) /\ loc' = loc /\ loc[p] = "router"
      /\ limited' \subseteq {"ip", "flow"} /\ UNCHANGED <<links, lists, rpc, calls>>
  BY DEF FromNetwork
<1>2. PICK to_send \in BOOLEAN :
         handler' = [at |-> "ip", packet |-> p, i |-> 1, to_send |-> to_send]
  BY DEF FromNetwork
<1>3. handler' \in Handling
  BY <1>2 DEF Handling
<1>4. /\ to_block' \in Seq(Packets) /\ IsInjective(to_block')
      /\ \A j \in DOMAIN to_block' :
            /\ to_block'[j] # p
            /\ \E k \in DOMAIN to_block : to_block[k] = to_block'[j]
  BY <1>b, <1>1, UnmarkResult
<1>5. TypeOK' /\ VectorsInv'
  BY <1>a, <1>b, <1>1, <1>3, <1>4, VectorsKept
<1>6. MarksAreLocal'
  BY <1>a, <1>1, <1>4, <1>5 DEF MarksAreLocal
<1>7. HandledInv'
  BY <1>1, <1>2, <1>4 DEF HandledInv
<1> QED
  BY <1>5, <1>6, <1>7 DEF IInv

\* The loops of handleMessage change nothing but the place of the thread.
LEMMA LoopIInv ==
    ASSUME IInv, ipCompare \/ ipDraw \/ ipDone \/ flowCompare \/ flowDraw
    PROVE  /\ IInv' /\ handler.at # "idle" /\ handler'.at # "idle"
           /\ handler'.packet = handler.packet
<1>a. TypeOK /\ MarksAreLocal /\ VectorsInv /\ HandledInv
  BY DEF IInv, MarksAreLocal
<1>1. UNCHANGED <<to_block, loc, limited, links, lists, rpc, calls>>
  BY DEF ipCompare, ipDraw, ipDone, flowCompare, flowDraw
<1>2. handler.at # "idle"
  BY DEF ipCompare, ipDraw, ipDone, flowCompare, flowDraw
<1>3. /\ handler.packet \in Packets /\ handler.i \in Nat /\ handler.i >= 1
      /\ handler.to_send \in BOOLEAN
      /\ handler = [at |-> handler.at, packet |-> handler.packet,
                    i |-> handler.i, to_send |-> handler.to_send]
  BY <1>a, <1>2, HandlerFields DEF TypeOK, HandledInv
<1>4. handler.at \in {"ip", "ipRate", "flow", "flowRate"}
  BY <1>a, <1>2, HandlerFields DEF TypeOK
<1>5. /\ handler' \in Handling /\ handler'.packet = handler.packet
      /\ handler'.i >= 1 /\ handler'.at # "idle"
  <2>1. ASSUME NEW at \in {"ipRate", "flowRate"}, handler' = [handler EXCEPT !.at = at]
        PROVE  /\ handler' \in Handling /\ handler'.packet = handler.packet
               /\ handler'.i >= 1 /\ handler'.at # "idle"
    <3>1. handler' = [at |-> at, packet |-> handler.packet, i |-> handler.i,
                      to_send |-> handler.to_send]
      BY <1>3, <2>1
    <3> QED
      BY <1>3, <3>1 DEF Handling
  <2>2. CASE handler' = [handler EXCEPT !.i = @ + 1]
    <3>1. handler' = [at |-> handler.at, packet |-> handler.packet,
                      i |-> handler.i + 1, to_send |-> handler.to_send]
      BY <1>3, <2>2
    <3> QED
      BY <1>3, <1>4, <3>1 DEF Handling
  <2>3. CASE handler' = [handler EXCEPT !.at = "flow", !.i = 1]
    <3>1. handler' = [at |-> "flow", packet |-> handler.packet, i |-> 1,
                      to_send |-> handler.to_send]
      BY Zenon, <1>3, <2>3
    <3> QED
      BY <1>3, <3>1 DEF Handling
  <2>4. ASSUME NEW rates, NEW loop \in {"ip", "flow"}, DrawRate(rates, loop)
        PROVE  /\ handler' \in Handling /\ handler'.packet = handler.packet
               /\ handler'.i >= 1 /\ handler'.at # "idle"
    <3>1. PICK dropped : handler' = [handler EXCEPT !.at = loop, !.i = @ + 1,
                                                    !.to_send = @ /\ ~dropped]
      BY <2>4 DEF DrawRate
    <3> DEFINE sent == handler.to_send /\ ~dropped
    <3>2. sent \in BOOLEAN
      BY Zenon
    <3>3. handler' = [at |-> loop, packet |-> handler.packet, i |-> handler.i + 1,
                      to_send |-> sent]
      BY Zenon, <1>3, <3>1
    <3> HIDE DEF sent
    <3> QED
      BY <1>3, <3>2, <3>3 DEF Handling
  <2>5. CASE ipCompare \/ flowCompare
    BY <2>1, <2>2, <2>5, Zenon DEF ipCompare, flowCompare, Compare
  <2>6. CASE ipDone
    BY <2>3, <2>6, Zenon DEF ipDone
  <2>7. CASE ipDraw \/ flowDraw
    BY <2>4, <2>7, Zenon DEF ipDraw, flowDraw
  <2> QED
    BY <2>5, <2>6, <2>7
<1>6. TypeOK' /\ VectorsInv'
  BY Zenon, <1>a, <1>1, <1>5, VectorsKept DEF TypeOK
<1>7. MarksAreLocal' /\ HandledInv'
  BY <1>a, <1>1, <1>2, <1>5, <1>6 DEF MarksAreLocal, HandledInv
<1> QED
  BY <1>2, <1>5, <1>6, <1>7 DEF IInv

\* The packet leaves the limiter, for the wire or for good, without a mark.
LEMMA FlowDoneIInv ==
    ASSUME IInv, flowDone
    PROVE  IInv'
<1>a. TypeOK /\ MarksAreLocal /\ VectorsInv /\ HandledInv
  BY DEF IInv, MarksAreLocal
<1>1. PICK where \in {"wire", "dropped"} :
         /\ loc' = [loc EXCEPT ![handler.packet] = where]
         /\ handler' = Idle /\ limited' = {} /\ to_block' = to_block
         /\ UNCHANGED <<links, lists, rpc, calls>>
  BY Zenon DEF flowDone
<1>2. /\ handler.at # "idle"
      /\ \A i \in DOMAIN to_block : to_block[i] # handler.packet
  BY <1>a DEF flowDone, HandledInv
<1>3. /\ loc \in [Packets -> {"wire", "router", "dropped", "consumed"}]
      /\ to_block \in Seq(Packets)
  BY <1>a DEF TypeOK
<1>4. TypeOK' /\ VectorsInv'
  <2>1. loc' \in [Packets -> {"wire", "router", "dropped", "consumed"}]
    BY Zenon, <1>1, <1>3
  <2>2. handler' \in Handling
    BY <1>1 DEF Handling, Idle
  <2> QED
    BY <1>a, <1>1, <1>3, <2>1, <2>2, VectorsKept
<1>5. MarksAreLocal'
  <2>1. \A i \in DOMAIN to_block : loc'[to_block[i]] = loc[to_block[i]]
    BY <1>1, <1>2, <1>3
  <2> QED
    BY <1>a, <1>1, <1>4, <2>1 DEF MarksAreLocal
<1>6. HandledInv'
  BY <1>1 DEF HandledInv, Idle
<1> QED
  BY <1>4, <1>5, <1>6 DEF IInv

\* A packet that is delivered or discarded leaves its mark behind.
LEMMA ConsumeIInv ==
    ASSUME IInv, NEW p \in Packets, Consume(p)
    PROVE  IInv'
<1>a. TypeOK /\ MarksAreLocal /\ VectorsInv /\ HandledInv
  BY DEF IInv, MarksAreLocal
<1>1. TypeOK' /\ VectorsInv'
  BY <1>a, VectorsKept DEF Consume, TypeOK
<1>2. MarksAreLocal'
  BY <1>a, <1>1 DEF Consume, MarksAreLocal, TypeOK
<1>3. HandledInv'
  BY DEF Consume, HandledInv, Idle
<1> QED
  BY <1>1, <1>2, <1>3 DEF IInv

\* Every step of the two threads preserves the invariant.
LEMMA NextIInv == IInv /\ [Next]_vars => IInv'
<1> SUFFICES ASSUME IInv, [Next]_vars PROVE IInv'
  OBVIOUS
<1>1. CASE Setter
  BY <1>1, AddIPBlockRateIInv, ScanIInv, EraseIInv, PushIInv,
     AddFlowBlockRateIInv DEF Setter
<1>2. ASSUME NEW l \in 1..Slots, NEW r \in Rates, addLinkBlock(l, r) PROVE IInv'
  BY <1>2, AddLinkBlockIInv
<1>3. ASSUME NEW a \in Addresses, NEW r \in Rates, addIPBlock(a, r) PROVE IInv'
  BY <1>3, AddIPBlockIInv
<1>4. ASSUME NEW f \in Flows, NEW r \in Rates, addFlowBlock(f, r) PROVE IInv'
  BY <1>4, AddFlowBlockIInv
<1>5. ASSUME NEW p \in Packets, NEW l \in 1..Slots, FromPpp(p, l) PROVE IInv'
  BY <1>5, FromPppIInv
<1>6. ASSUME NEW p \in Packets, FromNetwork(p) PROVE IInv'
  BY <1>6, FromNetworkIInv
<1>7. ASSUME NEW p \in Packets, Consume(p) PROVE IInv'
  BY <1>7, ConsumeIInv
<1>8. CASE Handler
  BY Zenon, <1>8, LoopIInv, FlowDoneIInv DEF Handler
<1>9. CASE UNCHANGED vars
  BY <1>9 DEF vars, IInv, MarksAreLocal, TypeOK, VectorsInv, HandledInv
<1> QED
  BY <1>1, <1>2, <1>3, <1>4, <1>5, <1>6, <1>7, <1>8, <1>9 DEF Next

\* The inductive invariant holds in every reachable state.
THEOREM Invariance == Spec => []IInv
BY InitIInv, NextIInv, PTL DEF Spec

\* A mark belongs to one stay of a packet in one router, whatever the links,
\* the limits and the interleaving with the setters.
THEOREM MarksSafety == Spec => []MarksAreLocal
<1>1. IInv => MarksAreLocal
  BY DEF IInv
<1> QED
  BY <1>1, Invariance, PTL

-----------------------------------------------------------------------------
(* What a step may not do.                                                 *)

\* A comparison with a rate of 99 or more always drops.
LEMMA FullRate ==
    ASSUME NEW rate \in Nat, rate >= 99, NEW dropped \in Outcomes(rate)
    PROVE  dropped
<1>1. 0 <= rate /\ 99 <= rate
  OBVIOUS
<1>2. PICK probability \in {0, 99} : dropped = (probability <= rate)
  BY Zenon DEF Outcomes
<1>3. probability <= rate
  BY <1>1, <1>2, Zenon
<1> QED
  BY <1>2, <1>3, Zenon

\* What the invariant says of the two pairs of vectors.
LEMMA VectorFacts ==
    ASSUME IInv
    PROVE  /\ ip_block \in Seq(Addresses) /\ ip_block_rate \in Seq(Rates)
           /\ flow_block \in Seq(FlowKeys) /\ flow_block_rate \in Seq(Rates)
           /\ IsInjective(ip_block) /\ IsInjective(flow_block)
           /\ rpc \in Call
           /\ rpc.at \in {"idle", "scan"} =>
                 /\ Len(ip_block_rate) = Len(ip_block)
                 /\ Len(flow_block_rate) = Len(flow_block)
           /\ rpc.at = "scan" => rpc.i >= 1
           /\ rpc.at = "ipRate" => Len(ip_block) = Len(ip_block_rate) + 1
           /\ rpc.at = "flowRate" => Len(flow_block) = Len(flow_block_rate) + 1
<1>1. /\ ip_block \in Seq(Addresses) /\ ip_block_rate \in Seq(Rates)
      /\ flow_block \in Seq(FlowKeys) /\ flow_block_rate \in Seq(Rates)
      /\ rpc \in Call
  BY DEF IInv, MarksAreLocal, TypeOK
<1>2. VectorsInv
  BY DEF IInv
<1>3. /\ Len(ip_block) \in Nat /\ Len(ip_block_rate) \in Nat
      /\ Len(flow_block) \in Nat /\ Len(flow_block_rate) \in Nat
  BY Zenon, <1>1, LenProperties
<1> QED
  BY <1>1, <1>2, <1>3 DEF VectorsInv

\* The handling begins: the loops have the limits still before them.
LEMMA FromNetworkFull ==
    ASSUME IInv, NEW p \in Packets, FromNetwork(p)
    PROVE  FullInv'
<1>1. PICK to_send \in BOOLEAN :
         handler' = [at |-> "ip", packet |-> p, i |-> 1, to_send |-> to_send]
  BY DEF FromNetwork
<1>2. /\ handler'.at = "ip" /\ handler'.i = 1 /\ handler'.packet = p
      /\ Destination' = FlowOf[p].destination /\ Key' = FlowOf[p].key
  BY Zenon, <1>1 DEF Destination, Key
<1>3. UNCHANGED <<ip_block, ip_block_rate, flow_block, flow_block_rate, rpc>>
  BY DEF FromNetwork, lists
<1>4. "ip" \in limited' =>
         \E j \in DOMAIN ip_block : FullIP(j, FlowOf[p].destination)
  BY Zenon DEF FromNetwork
<1>5. "flow" \in limited' =>
         \E j \in DOMAIN flow_block : FullFlow(j, FlowOf[p].key)
  BY DEF FromNetwork
<1>6. DOMAIN ip_block = 1..Len(ip_block)
  BY DEF IInv, MarksAreLocal, TypeOK
<1>7. ASSUME "ip" \in limited'
      PROVE  \E j \in DOMAIN ip_block' : FullIP(j, Destination)' /\ 1 <= j
  <2>1. PICK j \in DOMAIN ip_block : FullIP(j, FlowOf[p].destination)
    BY Zenon, <1>4, <1>7
  <2>2. 1 <= j /\ FullIP(j, Destination)'
    BY <1>2, <1>3, <1>6, <2>1 DEF FullIP
  <2> QED
    BY <1>3, <2>2
<1>8. ASSUME "flow" \in limited'
      PROVE  \E j \in DOMAIN flow_block' : FullFlow(j, Key)'
  BY <1>2, <1>3, <1>5, <1>8 DEF FullFlow
<1> QED
  BY <1>2, <1>7, <1>8 DEF FullInv

\* The entries of a vector of rates.
LEMMA RateNat ==
    ASSUME NEW rates \in Seq(Rates), NEW j \in DOMAIN rates
    PROVE  j \in Nat /\ rates[j] \in Nat
<1>1. Rates \subseteq Nat
  BY ConstantsAssumption, Zenon
<1>2. DOMAIN rates = 1..Len(rates)
  BY LenProperties, Zenon
<1>3. rates[j] \in Rates
  BY <1>2, ElementOfSeq, Zenon
<1>4. j \in Nat
  BY <1>2
<1> QED
  BY <1>1, <1>3, <1>4, Zenon

\* A step of a loop over one of the pairs of vectors: the entry that is still
\* to be found is not passed, or the packet is dropped for it.
LEMMA LoopFinds ==
    ASSUME NEW K, NEW list \in Seq(K), NEW rates \in Seq(Rates), NEW entry,
           NEW j \in DOMAIN list \cap DOMAIN rates,
           list[j] = entry, rates[j] >= 99,
           NEW loop, NEW rateOf, handler \in Handling, handler.at # "idle",
           handler.to_send => handler.i <= j,
           Compare(list, entry, rateOf) \/ DrawRate(rates, loop)
    PROVE  handler'.to_send => handler'.i <= j
<1>1. /\ handler.i \in Nat /\ handler.to_send \in BOOLEAN
      /\ handler = [at |-> handler.at, packet |-> handler.packet,
                    i |-> handler.i, to_send |-> handler.to_send]
  BY HandlerFields
<1>2. j \in Nat /\ rates[j] \in Nat
  <2>1. j \in DOMAIN rates
    OBVIOUS
  <2> QED
    BY <2>1, RateNat
<1>3. CASE Compare(list, entry, rateOf)
  <2>1. CASE list[handler.i] = entry
    BY <1>1, <1>3, <2>1 DEF Compare
  <2>2. CASE list[handler.i] # entry
    <3>1. handler' = [at |-> handler.at, packet |-> handler.packet,
                      i |-> handler.i + 1, to_send |-> handler.to_send]
      BY Zenon, <1>1, <1>3, <2>2 DEF Compare
    <3>2. handler.to_send => handler.i # j
      BY <2>2
    <3> QED
      BY <1>1, <1>2, <3>1, <3>2
  <2> QED
    BY <2>1, <2>2
<1>4. CASE DrawRate(rates, loop)
  <2>1. PICK dropped \in Draw(rates, handler.i) :
           handler' = [at |-> loop, packet |-> handler.packet, i |-> handler.i + 1,
                       to_send |-> handler.to_send /\ ~dropped]
    BY Zenon, <1>1, <1>4 DEF DrawRate
  <2>2. /\ handler'.i = handler.i + 1
        /\ handler'.to_send = (handler.to_send /\ ~dropped)
    BY <2>1
  <2>3. CASE handler.i = j
    <3>1. dropped \in Outcomes(rates[j])
      BY <2>1, <2>3 DEF Draw
    <3>2. dropped
      BY <1>2, <3>1, FullRate
    <3> QED
      BY Zenon, <2>2, <3>2
  <2>4. CASE handler.i # j
    BY <1>1, <1>2, <2>2, <2>4
  <2> QED
    BY <2>3, <2>4
<1> QED
  BY <1>3, <1>4

\* The loop over ip_block.
LEMMA IPLoopFull ==
    ASSUME IInv, FullInv, ipCompare \/ ipDraw
    PROVE  FullInv'
<1>1. /\ UNCHANGED <<limited, ip_block, ip_block_rate, flow_block,
                     flow_block_rate, rpc>>
      /\ handler.at \in {"ip", "ipRate"}
      /\ \/ Compare(ip_block, Destination, "ipRate")
         \/ DrawRate(ip_block_rate, "ip")
  BY DEF ipCompare, ipDraw, lists
<1>2. /\ ip_block \in Seq(Addresses) /\ ip_block_rate \in Seq(Rates)
      /\ handler \in Handling
  BY Zenon DEF IInv, MarksAreLocal, TypeOK
<1>3. handler'.at \in {"ip", "ipRate"} /\ handler'.packet = handler.packet
  <2>1. handler'.packet = handler.packet
    BY LoopIInv
  <2>2. handler = [at |-> handler.at, packet |-> handler.packet,
                   i |-> handler.i, to_send |-> handler.to_send]
    BY <1>1, <1>2, HandlerFields
  <2>3. handler'.at \in {"ip", "ipRate"}
    BY Zenon, <1>1, <2>2 DEF Compare, DrawRate
  <2> QED
    BY <2>1, <2>3
<1>4. Destination' = Destination /\ Key' = Key
  BY <1>3 DEF Destination, Key
<1>5. ASSUME "ip" \in limited'
      PROVE  \E j \in DOMAIN ip_block' : /\ FullIP(j, Destination)'
                                         /\ handler'.to_send => handler'.i <= j
  <2>1. PICK j \in DOMAIN ip_block : /\ FullIP(j, Destination)
                                     /\ handler.to_send => handler.i <= j
    BY <1>1, <1>5 DEF FullInv
  <2>2. FullIP(j, Destination)'
    BY <1>1, <1>4, <2>1 DEF FullIP
  <2>3. /\ j \in DOMAIN ip_block \cap DOMAIN ip_block_rate
        /\ ip_block[j] = Destination /\ ip_block_rate[j] >= 99
    BY <2>1 DEF FullIP
  <2>4. handler'.to_send => handler'.i <= j
    BY <1>1, <1>2, <2>1, <2>3, LoopFinds
  <2> QED
    BY <1>1, <2>2, <2>4
<1>6. ASSUME "flow" \in limited'
      PROVE  \E j \in DOMAIN flow_block' : FullFlow(j, Key)'
  BY Zenon, <1>1, <1>4, <1>6 DEF FullInv, FullFlow
<1> QED
  BY <1>3, <1>5, <1>6 DEF FullInv

\* After that loop a full limit of the destination has had the packet dropped.
LEMMA IPDoneFull ==
    ASSUME IInv, FullInv, ipDone
    PROVE  FullInv'
<1>1. /\ UNCHANGED <<limited, flow_block, flow_block_rate>>
      /\ handler.at = "ip" /\ handler.i > Len(ip_block)
  BY DEF ipDone, lists
<1>2. /\ ip_block \in Seq(Addresses) /\ flow_block \in Seq(FlowKeys)
      /\ handler \in Handling
  BY DEF IInv, MarksAreLocal, TypeOK
<1>3. /\ handler'.at = "flow" /\ handler'.i = 1
      /\ handler'.to_send = handler.to_send /\ handler'.packet = handler.packet
      /\ handler.i \in Nat
  <2>1. /\ handler.i \in Nat
        /\ handler = [at |-> handler.at, packet |-> handler.packet,
                      i |-> handler.i, to_send |-> handler.to_send]
    BY <1>1, <1>2, HandlerFields
  <2> QED
    BY Zenon, <2>1 DEF ipDone
<1>4. ASSUME "ip" \in limited' PROVE ~handler'.to_send
  <2>1. PICK j \in 1..Len(ip_block) : handler.to_send => handler.i <= j
    BY <1>1, <1>2, <1>4 DEF FullInv
  <2>2. ~(handler.i <= j)
    BY <1>1, <1>2, <1>3
  <2> QED
    BY <1>3, <2>1, <2>2
<1>5. ASSUME "flow" \in limited'
      PROVE  \E j \in DOMAIN flow_block' : FullFlow(j, Key)' /\ 1 <= j
  <2>1. PICK j \in DOMAIN flow_block : FullFlow(j, Key)
    BY Zenon, <1>1, <1>5 DEF FullInv
  <2>2. FullFlow(j, Key)' /\ 1 <= j
    BY <1>1, <1>2, <1>3, <2>1 DEF FullFlow, Key
  <2> QED
    BY <1>1, <2>2
<1> QED
  BY <1>3, <1>4, <1>5 DEF FullInv

\* The loop over flow_block.
LEMMA FlowLoopFull ==
    ASSUME IInv, FullInv, flowCompare \/ flowDraw
    PROVE  FullInv'
<1>1. /\ UNCHANGED <<limited, flow_block, flow_block_rate>>
      /\ handler.at \in {"flow", "flowRate"}
      /\ \/ Compare(flow_block, Key, "flowRate")
         \/ DrawRate(flow_block_rate, "flow")
  BY DEF flowCompare, flowDraw, lists
<1>2. /\ flow_block \in Seq(FlowKeys) /\ flow_block_rate \in Seq(Rates)
      /\ handler \in Handling
  BY DEF IInv, MarksAreLocal, TypeOK
<1>3. /\ handler.to_send \in BOOLEAN
      /\ handler = [at |-> handler.at, packet |-> handler.packet,
                    i |-> handler.i, to_send |-> handler.to_send]
  BY <1>1, <1>2, HandlerFields
<1>4. handler'.at \in {"flow", "flowRate"} /\ (handler'.to_send => handler.to_send)
  <2>1. CASE Compare(flow_block, Key, "flowRate")
    BY Zenon, <1>1, <1>3, <2>1 DEF Compare
  <2>2. CASE DrawRate(flow_block_rate, "flow")
    <3>1. PICK dropped \in Draw(flow_block_rate, handler.i) :
             handler' = [at |-> "flow", packet |-> handler.packet,
                         i |-> handler.i + 1,
                         to_send |-> handler.to_send /\ ~dropped]
      BY Zenon, <1>3, <2>2 DEF DrawRate
    <3> QED
      BY <1>3, <3>1
  <2> QED
    BY <1>1, <2>1, <2>2
<1>5. Key' = Key
  <2>1. handler'.packet = handler.packet
    BY LoopIInv
  <2> QED
    BY <2>1 DEF Key
<1>6. ASSUME "flow" \in limited'
      PROVE  \E j \in DOMAIN flow_block' :
                FullFlow(j, Key)' /\ (handler'.to_send => handler'.i <= j)
  <2>1. PICK j \in DOMAIN flow_block :
           FullFlow(j, Key) /\ (handler.to_send => handler.i <= j)
    BY <1>1, <1>6 DEF FullInv
  <2>2. FullFlow(j, Key)'
    BY <1>1, <1>5, <2>1 DEF FullFlow
  <2>3. /\ j \in DOMAIN flow_block \cap DOMAIN flow_block_rate
        /\ flow_block[j] = Key /\ flow_block_rate[j] >= 99
    BY <2>1 DEF FullFlow
  <2>4. handler'.to_send => handler'.i <= j
    BY <1>1, <1>2, <2>1, <2>3, LoopFinds
  <2> QED
    BY <1>1, <2>2, <2>4
<1>7. "ip" \in limited' => ~handler'.to_send
  BY Zenon, <1>1, <1>4 DEF FullInv
<1> QED
  BY <1>4, <1>6, <1>7 DEF FullInv

\* A setter keeps the limits it does not lift where the loops find them.
LEMMA SetterFull ==
    ASSUME IInv, FullInv, UNCHANGED handler, limited' \subseteq limited,
           \A j \in DOMAIN ip_block :
              FullIP(j, Destination) /\ "ip" \in limited' =>
                 j \in DOMAIN ip_block' /\ FullIP(j, Destination)',
           \A j \in DOMAIN flow_block :
              FullFlow(j, Key) => j \in DOMAIN flow_block' /\ FullFlow(j, Key)'
    PROVE  FullInv'
BY DEF FullInv

\* An entry appended to one of the vectors leaves the others as they are.
LEMMA AppendedKept ==
    ASSUME NEW S, NEW s \in Seq(S), NEW e, NEW t, t = s \/ t = Append(s, e)
    PROVE  \A j \in DOMAIN s : j \in DOMAIN t /\ t[j] = s[j]
OBVIOUS

\* The setters that append.
LEMMA AppendFull ==
    ASSUME IInv, FullInv, UNCHANGED traffic, rpc.at # "eraseRate",
           rpc'.at # "eraseRate", NEW e1, NEW e2, NEW e3, NEW e4,
           ip_block' = ip_block \/ ip_block' = Append(ip_block, e1),
           \/ ip_block_rate' = ip_block_rate
           \/ ip_block_rate' = Append(ip_block_rate, e2),
           flow_block' = flow_block \/ flow_block' = Append(flow_block, e3),
           \/ flow_block_rate' = flow_block_rate
           \/ flow_block_rate' = Append(flow_block_rate, e4)
    PROVE  FullInv'
<1>1. /\ ip_block \in Seq(Addresses) /\ ip_block_rate \in Seq(Rates)
      /\ flow_block \in Seq(FlowKeys) /\ flow_block_rate \in Seq(Rates)
  BY DEF IInv, MarksAreLocal, TypeOK
<1>2. /\ \A j \in DOMAIN ip_block : j \in DOMAIN ip_block' /\ ip_block'[j] = ip_block[j]
      /\ \A j \in DOMAIN ip_block_rate :
            j \in DOMAIN ip_block_rate' /\ ip_block_rate'[j] = ip_block_rate[j]
  BY Zenon, <1>1, AppendedKept
<1>3. /\ \A j \in DOMAIN flow_block :
            j \in DOMAIN flow_block' /\ flow_block'[j] = flow_block[j]
      /\ \A j \in DOMAIN flow_block_rate :
            j \in DOMAIN flow_block_rate' /\ flow_block_rate'[j] = flow_block_rate[j]
  BY Zenon, <1>1, AppendedKept
<1>4. handler' = handler /\ limited' = limited
  BY Zenon DEF traffic
<1>5. \A j \in DOMAIN ip_block : FullIP(j, Destination) =>
         j \in DOMAIN ip_block' /\ FullIP(j, Destination)'
  BY Zenon, <1>2, <1>4 DEF FullIP, Destination
<1>6. \A j \in DOMAIN flow_block : FullFlow(j, Key) =>
         j \in DOMAIN flow_block' /\ FullFlow(j, Key)'
  BY <1>3, <1>4 DEF FullFlow, Key
<1> QED
  BY Zenon, <1>4, <1>5, <1>6, SetterFull

\* addFlowBlock erases an entry: a limit in front of it stays in its place.
LEMMA ScanFull ==
    ASSUME IInv, FullInv, addFlowBlockScan
    PROVE  FullInv'
<1>a. /\ ip_block \in Seq(Addresses) /\ IsInjective(ip_block)
      /\ rpc \in Call /\ rpc.at = "scan" /\ rpc.i \in 1..Len(ip_block)
      /\ rpc = [at |-> rpc.at, flow |-> rpc.flow, rate |-> rpc.rate, i |-> rpc.i]
  <2>1. rpc.at = "scan" /\ rpc.i <= Len(ip_block)
    BY DEF addFlowBlockScan
  <2> QED
    BY <2>1, VectorFacts, CallFields, LenProperties
<1>b. /\ UNCHANGED <<handler, ip_block_rate, flow_block, flow_block_rate>>
      /\ Destination' = Destination /\ Key' = Key
  BY DEF addFlowBlockScan, Destination, Key
<1>c. \A j \in DOMAIN flow_block : FullFlow(j, Key) =>
         j \in DOMAIN flow_block' /\ FullFlow(j, Key)'
  BY Zenon, <1>b DEF FullFlow
<1>1. CASE OtherDestination(rpc.i)
  <2>1. /\ ip_block' = Erase(ip_block, rpc.i)
        /\ limited' = {k \in limited :
                         k = "ip" => LimitedBefore(Destination, rpc.i)}
        /\ rpc'.i = rpc.i
    BY Zenon, <1>a, <1>1 DEF addFlowBlockScan
  <2>2. ASSUME NEW j \in DOMAIN ip_block, FullIP(j, Destination), "ip" \in limited'
        PROVE  j \in DOMAIN ip_block' /\ FullIP(j, Destination)'
    <3>1. PICK k \in 1..(rpc.i - 1) : ip_block[k] = Destination
      BY Zenon, <2>1, <2>2 DEF LimitedBefore
    <3>2. k \in DOMAIN ip_block /\ ip_block[j] = Destination
      BY <1>a, <2>2 DEF FullIP
    <3>3. k = j
      BY <3>1, <3>2, <1>a DEF IsInjective
    <3>4. j \in 1..(Len(ip_block) - 1) /\ j < rpc.i
      BY <1>a, <3>1, <3>3
    <3>5. ip_block'[j] = ip_block[j] /\ DOMAIN ip_block' = 1..(Len(ip_block) - 1)
      BY <1>a, <2>1, <3>4, EraseResult
    <3> QED
      BY <1>b, <2>1, <2>2, <3>4, <3>5 DEF FullIP
  <2>3. limited' \subseteq limited
    BY Zenon, <2>1
  <2> QED
    BY <1>b, <1>c, <2>2, <2>3, SetterFull
<1>2. CASE ~OtherDestination(rpc.i)
  <2>1. ip_block' = ip_block /\ limited' = limited /\ rpc'.at = "scan"
    BY Zenon, <1>a, <1>2 DEF addFlowBlockScan
  <2>2. \A j \in DOMAIN ip_block : FullIP(j, Destination) =>
           j \in DOMAIN ip_block' /\ FullIP(j, Destination)'
    BY Zenon, <1>b, <2>1 DEF FullIP
  <2> QED
    BY Zenon, <1>b, <1>c, <2>1, <2>2, SetterFull
<1> QED
  BY Zenon, <1>1, <1>2

\* Its rate follows: the rates in front of it stay in their places.
LEMMA EraseFull ==
    ASSUME IInv, FullInv, addFlowBlockErase
    PROVE  FullInv'
<1>a. /\ ip_block_rate \in Seq(Rates) /\ rpc.at = "eraseRate"
      /\ rpc.i \in 1..Len(ip_block_rate)
      /\ rpc = [at |-> rpc.at, flow |-> rpc.flow, rate |-> rpc.rate, i |-> rpc.i]
  BY CallFields DEF addFlowBlockErase, IInv, MarksAreLocal, TypeOK, VectorsInv
<1>b. /\ UNCHANGED <<handler, limited, ip_block, flow_block, flow_block_rate>>
      /\ Destination' = Destination /\ Key' = Key
      /\ ip_block_rate' = Erase(ip_block_rate, rpc.i)
  BY DEF addFlowBlockErase, traffic, Destination, Key
<1>c. rpc'.at = "scan"
  BY Zenon, <1>a DEF addFlowBlockErase
<1>1. \A j \in DOMAIN flow_block : FullFlow(j, Key) =>
         j \in DOMAIN flow_block' /\ FullFlow(j, Key)'
  BY Zenon, <1>b DEF FullFlow
<1>2. ASSUME NEW j \in DOMAIN ip_block, FullIP(j, Destination)
      PROVE  j \in DOMAIN ip_block' /\ FullIP(j, Destination)'
  <2>1. j < rpc.i /\ j \in 1..Len(ip_block_rate)
    BY <1>a, <1>2 DEF FullIP
  <2>2. j \in 1..(Len(ip_block_rate) - 1)
    BY <1>a, <2>1
  <2>3. /\ ip_block_rate'[j] = ip_block_rate[j]
        /\ DOMAIN ip_block_rate' = 1..(Len(ip_block_rate) - 1)
    BY <1>a, <1>b, <2>1, <2>2, EraseResult
  <2> QED
    BY Zenon, <1>b, <1>c, <1>2, <2>2, <2>3 DEF FullIP
<1> QED
  BY Zenon, <1>b, <1>1, <1>2, SetterFull

\* Every step of the two threads keeps a full limit in force.
LEMMA NextFull ==
    ASSUME IInv, FullInv, [Next]_vars
    PROVE  FullInv'
<1>1. CASE Setter
  <2>1. CASE addIPBlockRate
    <3>1. /\ UNCHANGED traffic /\ rpc.at # "eraseRate" /\ rpc'.at # "eraseRate"
          /\ UNCHANGED <<ip_block, flow_block, flow_block_rate>>
          /\ ip_block_rate' = Append(ip_block_rate, rpc.rate)
      BY <2>1 DEF addIPBlockRate, Idle
    <3> QED
      BY Zenon, <3>1, AppendFull
  <2>2. CASE addFlowBlockPush
    <3>1. /\ UNCHANGED traffic /\ rpc.at # "eraseRate" /\ rpc'.at # "eraseRate"
          /\ UNCHANGED <<ip_block, ip_block_rate, flow_block_rate>>
          /\ \/ flow_block' = flow_block
             \/ flow_block' = Append(flow_block, rpc.flow.key)
      BY <2>2 DEF addFlowBlockPush, Idle
    <3> QED
      BY Zenon, <3>1, AppendFull
  <2>3. CASE addFlowBlockRate
    <3>1. /\ UNCHANGED traffic /\ rpc.at # "eraseRate" /\ rpc'.at # "eraseRate"
          /\ UNCHANGED <<ip_block, ip_block_rate, flow_block>>
          /\ flow_block_rate' = Append(flow_block_rate, rpc.rate)
      BY <2>3 DEF addFlowBlockRate, Idle
    <3> QED
      BY Zenon, <3>1, AppendFull
  <2> QED
    BY Zenon, <1>1, <2>1, <2>2, <2>3, ScanFull, EraseFull DEF Setter
<1>2. ASSUME NEW l \in 1..Slots, NEW r \in Rates, addLinkBlock(l, r) PROVE FullInv'
  <2>1. /\ UNCHANGED traffic /\ rpc.at # "eraseRate" /\ rpc'.at # "eraseRate"
        /\ UNCHANGED <<ip_block, ip_block_rate, flow_block, flow_block_rate>>
    BY <1>2 DEF addLinkBlock, StartCall, Idle, lists
  <2> QED
    BY Zenon, <2>1, AppendFull
<1>3. ASSUME NEW a \in Addresses, NEW r \in Rates, addIPBlock(a, r) PROVE FullInv'
  <2>1. /\ UNCHANGED traffic /\ rpc.at # "eraseRate" /\ rpc'.at # "eraseRate"
        /\ UNCHANGED <<ip_block_rate, flow_block, flow_block_rate>>
        /\ ip_block' = ip_block \/ ip_block' = Append(ip_block, a)
    BY <1>3 DEF addIPBlock, StartCall, Idle
  <2> QED
    BY Zenon, <2>1, AppendFull
<1>4. ASSUME NEW f \in Flows, NEW r \in Rates, addFlowBlock(f, r) PROVE FullInv'
  <2>1. /\ UNCHANGED traffic /\ rpc.at # "eraseRate" /\ rpc'.at # "eraseRate"
        /\ UNCHANGED <<ip_block, ip_block_rate, flow_block, flow_block_rate>>
    BY Zenon, <1>4 DEF addFlowBlock, StartCall, Idle, lists
  <2> QED
    BY Zenon, <2>1, AppendFull
<1>5. ASSUME handler = Idle, handler' = handler, limited' = limited PROVE FullInv'
  BY Zenon, <1>5 DEF FullInv, Idle
<1>6. ASSUME NEW p \in Packets, NEW l \in 1..Slots, FromPpp(p, l) PROVE FullInv'
  BY Zenon, <1>5, <1>6 DEF FromPpp
<1>7. ASSUME NEW p \in Packets, Consume(p) PROVE FullInv'
  BY Zenon, <1>5, <1>7 DEF Consume
<1>8. CASE flowDone
  BY Zenon, <1>8 DEF flowDone, FullInv, Idle
<1>9. CASE UNCHANGED vars
  BY <1>9 DEF vars, FullInv, FullIP, FullFlow, Destination, Key
<1> QED
  BY <1>1, <1>2, <1>3, <1>4, <1>6, <1>7, <1>8, <1>9, FromNetworkFull, IPLoopFull,
     IPDoneFull, FlowLoopFull DEF Next, Handler

\* A packet with a full limit on its destination or its flow is not sent on,
\* whatever the setters do to the lists under the loops of handleMessage, but
\* for the erase of the limit itself or of an entry in front of it.
THEOREM FullLimitSafety == Spec => FullLimitHolds
<1> DEFINE Holds == \A p \in Packets :
                      loc[p] = "router" /\ loc'[p] = "wire" => limited = {}
<1>1. Init => FullInv
  BY Zenon DEF Init, FullInv, Idle
<1>2. ASSUME IInv, FullInv, [Next]_vars PROVE [Holds]_vars
  <2> SUFFICES ASSUME NEW p \in Packets, loc[p] = "router", loc'[p] = "wire", Next
               PROVE  limited = {}
    BY Zenon, <1>2
  <2>a. /\ loc \in [Packets -> {"wire", "router", "dropped", "consumed"}]
        /\ limited \subseteq {"ip", "flow"} /\ handler \in Handling
        /\ flow_block \in Seq(FlowKeys)
    BY <1>2 DEF IInv, MarksAreLocal, TypeOK
  <2>1. CASE flowDone
    <3>1. /\ handler.at = "flow" /\ handler.i > Len(flow_block)
          /\ handler.i \in Nat /\ handler.packet \in Packets
      BY Zenon, <2>1, <2>a, HandlerFields DEF flowDone
    <3>2. handler.to_send
      BY Zenon, <2>1, <2>a, <3>1 DEF flowDone
    <3>3. "ip" \notin limited
      BY Zenon, <1>2, <3>1, <3>2 DEF FullInv
    <3>4. "flow" \notin limited
      <4>1. \A j \in DOMAIN flow_block : ~(handler.i <= j)
        BY <2>a, <3>1
      <4> QED
        BY Zenon, <1>2, <3>1, <3>2, <4>1 DEF FullInv
    <3> QED
      BY Zenon, <2>a, <3>3, <3>4
  <2>2. ASSUME NEW q \in Packets, NEW l \in 1..Slots, FromPpp(q, l) PROVE FALSE
    BY Zenon, <2>2, <2>a DEF FromPpp
  <2>3. ASSUME NEW q \in Packets, FromNetwork(q) \/ Consume(q) PROVE FALSE
    BY <2>3, <2>a DEF FromNetwork, Consume
  <2>4. CASE loc' = loc
    BY Zenon, <2>4
  <2> QED
    BY Zenon, <2>1, <2>2, <2>3, <2>4 DEF Next, Handler, Setter, addIPBlockRate,
       addFlowBlockScan, addFlowBlockErase, addFlowBlockPush, addFlowBlockRate,
       addLinkBlock, addIPBlock, addFlowBlock, traffic, ipCompare, ipDraw,
       ipDone, flowCompare, flowDraw
<1> QED
  BY <1>1, <1>2, NextFull, Invariance, PTL DEF Spec, FullLimitHolds

-----------------------------------------------------------------------------
(* The implementation of LimitTable.                                       *)

\* The entries of two vectors that are in both.
Paired(keys, rates) == {i \in 1..Len(keys) : i <= Len(rates)}

\* The map m has the entries with an index in n, and no other.
Maps(m, keys, rates, n) ==
    /\ m = [k \in DOMAIN m |-> m[k]]
    /\ DOMAIN m = {keys[i] : i \in n}
    /\ \A i \in n : m[keys[i]] = rates[i]

\* A pair of vectors without duplicate keys, read as a map.
LEMMA AsMapValues ==
    ASSUME NEW K, NEW R, NEW keys \in Seq(K), NEW rates \in Seq(R),
           IsInjective(keys)
    PROVE  Maps(AsMap(keys, rates), keys, rates, Paired(keys, rates))
<1> DEFINE n == Paired(keys, rates)
           m == AsMap(keys, rates)
<1>1. DOMAIN keys = 1..Len(keys) /\ DOMAIN rates = 1..Len(rates)
  OBVIOUS
<1>2. DOMAIN keys \cap DOMAIN rates = n /\ n \subseteq DOMAIN keys
  BY <1>1 DEF Paired
<1>3. m = [k \in {keys[i] : i \in n} |->
             rates[CHOOSE i \in DOMAIN keys : keys[i] = k]]
  BY <1>2 DEF AsMap
<1>4. ASSUME NEW i \in n PROVE m[keys[i]] = rates[i]
  <2>1. i \in DOMAIN keys /\ \A j \in DOMAIN keys : keys[j] = keys[i] => j = i
    BY <1>2 DEF IsInjective
  <2>2. (CHOOSE j \in DOMAIN keys : keys[j] = keys[i]) = i
    BY Zenon, <2>1
  <2> HIDE DEF n, m
  <2> QED
    BY Zenon, <1>3, <2>2
<1> HIDE DEF m
<1>5. m = [k \in DOMAIN m |-> m[k]] /\ DOMAIN m = {keys[i] : i \in n}
  BY <1>3
<1> QED
  BY <1>4, <1>5 DEF m, Maps

\* A key without a rate is not in the map.
LEMMA KeyAppended ==
    ASSUME NEW K, NEW R, NEW keys \in Seq(K), NEW rates \in Seq(R), NEW e \in K,
           Len(rates) <= Len(keys), IsInjective(keys), e \notin Range(keys)
    PROVE  AsMap(Append(keys, e), rates) = AsMap(keys, rates)
<1> DEFINE more == Append(keys, e)
           n == Paired(keys, rates)
           m == AsMap(keys, rates)
           l == AsMap(more, rates)
<1>1. /\ more \in Seq(K) /\ IsInjective(more) /\ Len(more) = Len(keys) + 1
      /\ \A i \in 1..Len(keys) : more[i] = keys[i]
  BY AppendFresh, AppendProperties
<1> HIDE DEF more
<1>2. n = Paired(more, rates)
  BY <1>1 DEF Paired
<1>3. Maps(m, keys, rates, n)
  BY Zenon, AsMapValues
<1>4. Maps(l, more, rates, n)
  BY <1>1, <1>2, AsMapValues
<1> HIDE DEF m, l
<1>5. \A i \in n : more[i] = keys[i]
  BY Zenon, <1>1 DEF Paired
<1> HIDE DEF n
<1>6. DOMAIN l = DOMAIN m
  BY Zenon, <1>3, <1>4, <1>5 DEF Maps
<1>7. \A k \in DOMAIN m : l[k] = m[k]
  BY <1>3, <1>4, <1>5 DEF Maps
<1>8. l = m
  BY Zenon, <1>3, <1>4, <1>6, <1>7 DEF Maps
<1> QED
  BY Zenon, <1>8 DEF l, m, more

\* The missing rate puts the last key into the map.
LEMMA RateAppended ==
    ASSUME NEW K, NEW R, NEW keys \in Seq(K), NEW rates \in Seq(R), NEW r \in R,
           Len(keys) = Len(rates) + 1, IsInjective(keys)
    PROVE  /\ keys[Len(keys)] \in K
           /\ keys[Len(keys)] \notin DOMAIN AsMap(keys, rates)
           /\ AsMap(keys, Append(rates, r))
                 = Table!Extend(AsMap(keys, rates), keys[Len(keys)], r)
<1> DEFINE more == Append(rates, r)
           last == keys[Len(keys)]
           n == Paired(keys, rates)
           m == AsMap(keys, rates)
           l == AsMap(keys, more)
           t == Table!Extend(m, last, r)
<1>0. Len(keys) \in Nat /\ Len(rates) \in Nat /\ DOMAIN keys = 1..Len(keys)
  OBVIOUS
<1>1. /\ more \in Seq(R) /\ Len(more) = Len(keys) /\ more[Len(keys)] = r
      /\ \A i \in 1..Len(rates) : more[i] = rates[i]
  BY AppendProperties
<1> HIDE DEF more
<1>2. Paired(keys, more) = n \cup {Len(keys)}
  <2>1. n = 1..Len(rates)
    BY <1>0 DEF Paired
  <2>2. Paired(keys, more) = 1..Len(keys)
    BY <1>0, <1>1 DEF Paired
  <2> QED
    BY <1>0, <2>1, <2>2
<1>3. Maps(m, keys, rates, n)
  BY AsMapValues
<1>4. Maps(l, keys, more, n \cup {Len(keys)})
  <2>1. Maps(l, keys, more, Paired(keys, more))
    BY Zenon, <1>1, AsMapValues
  <2> QED
    BY Zenon, <1>2, <2>1
<1> HIDE DEF m, l
<1>5. \A i \in n : more[i] = rates[i]
  BY <1>0, <1>1 DEF Paired
<1>6. \A i \in n : keys[i] # last
  BY <1>0 DEF IsInjective, Paired
<1>7. last \in K
  BY <1>0
<1> HIDE DEF n
<1>8. last \notin DOMAIN m
  BY Zenon, <1>3, <1>6 DEF Maps
<1>9. DOMAIN l = DOMAIN m \cup {last}
  BY Zenon, <1>3, <1>4 DEF Maps
<1>10. ASSUME NEW k \in DOMAIN l PROVE l[k] = IF k = last THEN r ELSE m[k]
  <2>1. PICK i \in n \cup {Len(keys)} : k = keys[i] /\ l[k] = more[i]
    BY Zenon, <1>4 DEF Maps
  <2>2. CASE i = Len(keys)
    BY Zenon, <1>1, <1>5, <2>1, <2>2
  <2>3. CASE i \in n
    BY Zenon, <1>1, <1>3, <1>5, <1>6, <2>1, <2>3 DEF Maps
  <2> QED
    BY Zenon, <2>1, <2>2, <2>3
<1>11. l = t
  <2>1. t = [k \in DOMAIN m \cup {last} |-> IF k = last THEN r ELSE m[k]]
    BY DEF Table!Extend
  <2>2. l = [k \in DOMAIN l |-> l[k]]
    BY Zenon, <1>4 DEF Maps
  <2> QED
    BY Zenon, <1>9, <1>10, <2>1, <2>2
<1> QED
  BY Zenon, <1>7, <1>8, <1>11 DEF l, m, more

\* A map without one of its keys.
WithoutKey(m, k) == Restrict(m, DOMAIN m \ {k})

\* Erasing an entry of both vectors takes its key out of the map.
LEMMA EntryRemoved ==
    ASSUME NEW K, NEW R, NEW keys \in Seq(K), NEW rates \in Seq(R),
           NEW i \in 1..Len(keys), Len(rates) = Len(keys), IsInjective(keys)
    PROVE  /\ keys[i] \in K
           /\ keys[i] \in DOMAIN AsMap(keys, rates)
           /\ AsMap(Erase(keys, i), Erase(rates, i))
                 = WithoutKey(AsMap(keys, rates), keys[i])
<1> DEFINE ks == Erase(keys, i)
           rs == Erase(rates, i)
           m == AsMap(keys, rates)
           l == AsMap(ks, rs)
           old(j) == IF j < i THEN j ELSE j + 1
<1>0. Len(keys) \in Nat /\ DOMAIN keys = 1..Len(keys)
  OBVIOUS
<1>1. /\ ks \in Seq(K) /\ Len(ks) = Len(keys) - 1 /\ IsInjective(ks)
      /\ \A j \in 1..(Len(keys) - 1) : ks[j] = IF j < i THEN keys[j] ELSE keys[j + 1]
  <2>1. /\ ks \in Seq(K) /\ Len(ks) = Len(keys) - 1
        /\ \A j \in 1..(Len(keys) - 1) :
              ks[j] = IF j < i THEN keys[j] ELSE keys[j + 1]
    BY EraseResult, Zenon
  <2>2. IsInjective(ks)
    BY Zenon, EraseInjective
  <2> QED
    BY <2>1, <2>2
<1>2. /\ rs \in Seq(R) /\ Len(rs) = Len(keys) - 1
      /\ \A j \in 1..(Len(keys) - 1) : rs[j] = IF j < i THEN rates[j] ELSE rates[j + 1]
  <2>1. /\ rs \in Seq(R) /\ Len(rs) = Len(rates) - 1
        /\ \A j \in 1..(Len(rates) - 1) :
              rs[j] = IF j < i THEN rates[j] ELSE rates[j + 1]
    <3>1. i \in 1..Len(rates)
      BY Zenon
    <3> QED
      BY <3>1, EraseResult, Zenon
  <2> QED
    BY <2>1
<1> HIDE DEF ks, rs
<1>3. /\ Paired(keys, rates) = 1..Len(keys)
      /\ Paired(ks, rs) = 1..(Len(keys) - 1)
  BY <1>0, <1>1, <1>2 DEF Paired
<1>4. Maps(m, keys, rates, 1..Len(keys))
  BY Zenon, <1>3, AsMapValues
<1>5. Maps(l, ks, rs, 1..(Len(keys) - 1))
  BY Zenon, <1>1, <1>2, <1>3, AsMapValues
<1> HIDE DEF m, l
<1>6. \A j \in 1..(Len(keys) - 1) :
         /\ old(j) \in 1..Len(keys) /\ old(j) # i
         /\ ks[j] = keys[old(j)] /\ rs[j] = rates[old(j)]
  BY <1>0, <1>1, <1>2
<1>7. \A h \in 1..Len(keys) : h # i => \E j \in 1..(Len(keys) - 1) : old(j) = h
  <2> TAKE h \in 1..Len(keys)
  <2>1. CASE h < i
    BY <1>0, <2>1
  <2>2. CASE h > i
    <3>1. h - 1 \in 1..(Len(keys) - 1) /\ old(h - 1) = h
      BY <1>0, <2>2
    <3> QED
      BY <3>1
  <2> QED
    BY <1>0, <2>1, <2>2
<1> HIDE DEF old
<1>8. \A h \in 1..Len(keys) : h # i => keys[h] # keys[i]
  BY <1>0 DEF IsInjective
<1>9. DOMAIN l = DOMAIN m \ {keys[i]}
  <2>1. DOMAIN l \subseteq DOMAIN m \ {keys[i]}
    BY <1>4, <1>5, <1>6, <1>8 DEF Maps
  <2>2. ASSUME NEW k \in DOMAIN m \ {keys[i]} PROVE k \in DOMAIN l
    <3>1. PICK h \in 1..Len(keys) : k = keys[h]
      BY Zenon, <1>4 DEF Maps
    <3>2. PICK j \in 1..(Len(keys) - 1) : old(j) = h
      BY Zenon, <1>7, <3>1
    <3>3. ks[j] = k
      BY Zenon, <1>6, <3>1, <3>2
    <3> QED
      BY Zenon, <1>5, <3>3 DEF Maps
  <2> QED
    BY <2>1, <2>2, Zenon
<1>10. ASSUME NEW k \in DOMAIN l PROVE l[k] = m[k]
  <2>1. PICK j \in 1..(Len(keys) - 1) : k = ks[j]
    BY Zenon, <1>5 DEF Maps
  <2>2. /\ old(j) \in 1..Len(keys)
        /\ ks[j] = keys[old(j)] /\ rs[j] = rates[old(j)]
    BY Zenon, <1>6
  <2>3. l[k] = rs[j]
    BY Zenon, <1>5, <2>1 DEF Maps
  <2>4. m[keys[old(j)]] = rates[old(j)]
    BY Zenon, <1>4, <2>2 DEF Maps
  <2> QED
    BY <2>1, <2>2, <2>3, <2>4
<1>11. l = WithoutKey(m, keys[i])
  <2>1. WithoutKey(m, keys[i]) = [k \in DOMAIN m \ {keys[i]} |-> m[k]]
    BY DEF WithoutKey, Restrict
  <2>2. l = [k \in DOMAIN l |-> l[k]]
    BY <1>5 DEF Maps
  <2> QED
    BY Zenon, <1>9, <1>10, <2>1, <2>2
<1>12. keys[i] \in K /\ keys[i] \in DOMAIN m
  BY <1>4 DEF Maps
<1> QED
  BY Zenon, <1>11, <1>12 DEF l, m, ks, rs

\* The lists are empty, and so is the table.
LEMMA InitImplements == Init => Table!Init
<1> SUFFICES ASSUME Init PROVE Table!Init
  OBVIOUS
<1>1. ip_block = <<>> /\ flow_block = <<>>
  BY Zenon DEF Init
<1> QED
  BY <1>1 DEF AsMap, Table!Init
\* A step that leaves the vectors alone leaves the table alone.
LEMMA ListsUnchanged ==
    ASSUME UNCHANGED <<lists, rpc>>
    PROVE  UNCHANGED <<AsMap(ip_block, LiveRates),
                       AsMap(flow_block, flow_block_rate)>>
BY Zenon DEF lists, LiveRates

\* addIPBlock: a destination has no limit before its rate is appended.
LEMMA AddIPBlockImplements ==
    ASSUME IInv, NEW a \in Addresses, NEW r \in Rates, addIPBlock(a, r)
    PROVE  UNCHANGED <<AsMap(ip_block, LiveRates),
                       AsMap(flow_block, flow_block_rate)>>
<1>a. /\ ip_block \in Seq(Addresses) /\ ip_block_rate \in Seq(Rates)
      /\ IsInjective(ip_block)
      /\ Len(ip_block_rate) = Len(ip_block) /\ rpc.at = "idle"
  <2>1. rpc.at = "idle"
    BY Zenon DEF addIPBlock, StartCall, Idle
  <2> QED
    BY Zenon, <2>1, VectorFacts
<1>b. rpc'.at \in {"idle", "ipRate"} /\ ip_block_rate' = ip_block_rate
  BY <1>a DEF addIPBlock
<1>1. LiveRates = ip_block_rate /\ LiveRates' = ip_block_rate
  BY Zenon, <1>a, <1>b DEF LiveRates
<1>2. \/ ip_block' = ip_block
      \/ ip_block' = Append(ip_block, a) /\ a \notin Range(ip_block)
  BY Zenon DEF addIPBlock
<1>3. AsMap(ip_block', ip_block_rate) = AsMap(ip_block, ip_block_rate)
  <2>1. CASE ip_block' = ip_block
    BY Zenon, <2>1
  <2>2. CASE /\ ip_block' = Append(ip_block, a)
             /\ a \notin Range(ip_block)
    <3>1. AsMap(Append(ip_block, a), ip_block_rate)
             = AsMap(ip_block, ip_block_rate)
      BY <1>a, <2>2, KeyAppended
    <3> QED
      BY Zenon, <2>2, <3>1
  <2> QED
    BY Zenon, <1>2, <2>1, <2>2
<1> QED
  BY Zenon, <1>1, <1>3 DEF addIPBlock

\* addIPBlock, its last statement: the limit exists.
LEMMA AddIPBlockRateImplements ==
    ASSUME IInv, addIPBlockRate
    PROVE  Table!Next
<1>a. /\ ip_block \in Seq(Addresses) /\ ip_block_rate \in Seq(Rates)
      /\ IsInjective(ip_block) /\ rpc.rate \in Rates
      /\ Len(ip_block) = Len(ip_block_rate) + 1 /\ rpc.at = "ipRate"
  <2>1. rpc.at = "ipRate"
    BY Zenon DEF addIPBlockRate
  <2> QED
    BY <2>1, VectorFacts, CallFields
<1>b. rpc'.at = "idle" /\ ip_block_rate' = Append(ip_block_rate, rpc.rate)
      /\ ip_block' = ip_block
  BY Zenon DEF addIPBlockRate, Idle
<1>1. LiveRates = ip_block_rate /\ LiveRates' = Append(ip_block_rate, rpc.rate)
  BY Zenon, <1>a, <1>b DEF LiveRates
<1>2. /\ ip_block[Len(ip_block)] \in Addresses
      /\ ip_block[Len(ip_block)] \notin DOMAIN AsMap(ip_block, ip_block_rate)
      /\ AsMap(ip_block, Append(ip_block_rate, rpc.rate))
           = Table!Extend(AsMap(ip_block, ip_block_rate),
                          ip_block[Len(ip_block)], rpc.rate)
  <2> DEFINE r == rpc.rate
  <2>1. r \in Rates
    BY Zenon, <1>a
  <2> HIDE DEF r
  <2>2. /\ ip_block[Len(ip_block)] \in Addresses
        /\ ip_block[Len(ip_block)] \notin DOMAIN AsMap(ip_block, ip_block_rate)
        /\ AsMap(ip_block, Append(ip_block_rate, r))
             = Table!Extend(AsMap(ip_block, ip_block_rate),
                            ip_block[Len(ip_block)], r)
    BY <1>a, <2>1, RateAppended
  <2> QED
    BY <2>2 DEF r
<1>3. Table!LimitIP(ip_block[Len(ip_block)], rpc.rate)
  BY Zenon, <1>b, <1>1, <1>2 DEF Table!LimitIP, addIPBlockRate
<1> QED
  BY Zenon, <1>a, <1>2, <1>3 DEF Table!Next

\* addFlowBlock: an entry is erased, and with it, at once, the limit.
LEMMA ScanImplements ==
    ASSUME IInv, addFlowBlockScan
    PROVE  \/ Table!Next
           \/ UNCHANGED <<AsMap(ip_block, LiveRates),
                          AsMap(flow_block, flow_block_rate)>>
<1>a. /\ ip_block \in Seq(Addresses) /\ ip_block_rate \in Seq(Rates)
      /\ IsInjective(ip_block) /\ rpc.i \in 1..Len(ip_block)
      /\ Len(ip_block_rate) = Len(ip_block) /\ rpc.at = "scan"
      /\ rpc = [at |-> rpc.at, flow |-> rpc.flow, rate |-> rpc.rate, i |-> rpc.i]
  <2>1. rpc.at = "scan" /\ rpc.i <= Len(ip_block)
    BY Zenon DEF addFlowBlockScan
  <2> QED
    BY <2>1, VectorFacts, CallFields, LenProperties
<1>1. CASE OtherDestination(rpc.i)
  <2>1. /\ ip_block' = Erase(ip_block, rpc.i) /\ ip_block_rate' = ip_block_rate
        /\ rpc'.at = "eraseRate" /\ rpc'.i = rpc.i
    BY Zenon, <1>a, <1>1 DEF addFlowBlockScan
  <2>2. /\ LiveRates = ip_block_rate
        /\ LiveRates' = Erase(ip_block_rate, rpc.i)
    BY Zenon, <1>a, <2>1 DEF LiveRates
  <2> DEFINE i == rpc.i
  <2>a. /\ ip_block \in Seq(Addresses) /\ ip_block_rate \in Seq(Rates)
        /\ IsInjective(ip_block) /\ i \in 1..Len(ip_block)
        /\ Len(ip_block_rate) = Len(ip_block)
    BY Zenon, <1>a
  <2> HIDE DEF i
  <2>3. /\ ip_block[i] \in Addresses
        /\ ip_block[i] \in DOMAIN AsMap(ip_block, ip_block_rate)
        /\ AsMap(Erase(ip_block, i), Erase(ip_block_rate, i))
             = WithoutKey(AsMap(ip_block, ip_block_rate), ip_block[i])
    BY <2>a, EntryRemoved
  <2> USE DEF i
  <2>4. Table!LiftIP(ip_block[rpc.i])
    BY <2>1, <2>2, <2>3, SMTT(20) DEF WithoutKey, Table!LiftIP, Table!Restrict,
       Restrict, addFlowBlockScan
  <2> QED
    BY <2>3, <2>4 DEF Table!Next
<1>2. CASE ~OtherDestination(rpc.i)
  <2>1. /\ ip_block' = ip_block /\ ip_block_rate' = ip_block_rate
        /\ rpc'.at = "scan"
    BY <1>a, <1>2 DEF addFlowBlockScan
  <2> QED
    BY <1>a, <2>1 DEF LiveRates, addFlowBlockScan
<1> QED
  BY Zenon, <1>1, <1>2

\* addFlowBlock: the rate of the erased entry did not count any more.
LEMMA EraseImplements ==
    ASSUME IInv, addFlowBlockErase
    PROVE  UNCHANGED <<AsMap(ip_block, LiveRates),
                       AsMap(flow_block, flow_block_rate)>>
<1>a. /\ rpc.at = "eraseRate"
      /\ rpc = [at |-> rpc.at, flow |-> rpc.flow, rate |-> rpc.rate, i |-> rpc.i]
  BY CallFields DEF IInv, MarksAreLocal, TypeOK, addFlowBlockErase
<1>1. rpc'.at = "scan"
  BY Zenon, <1>a DEF addFlowBlockErase
<1> QED
  BY <1>a, <1>1 DEF LiveRates, addFlowBlockErase

\* addFlowBlock: a flow has no limit before its rate is appended.
LEMMA PushImplements ==
    ASSUME IInv, addFlowBlockPush
    PROVE  UNCHANGED <<AsMap(ip_block, LiveRates),
                       AsMap(flow_block, flow_block_rate)>>
<1>a. /\ flow_block \in Seq(FlowKeys) /\ flow_block_rate \in Seq(Rates)
      /\ IsInjective(flow_block) /\ rpc.flow.key \in FlowKeys
      /\ Len(flow_block_rate) = Len(flow_block) /\ rpc.at = "scan"
  <2>1. rpc.at = "scan"
    BY Zenon DEF addFlowBlockPush
  <2> QED
    BY Zenon, <2>1, VectorFacts, CallFields
<1>1. rpc'.at \in {"idle", "flowRate"}
  BY DEF addFlowBlockPush, Idle
<1>2. LiveRates' = LiveRates /\ ip_block' = ip_block
  BY Zenon, <1>a, <1>1 DEF LiveRates, addFlowBlockPush
<1>3. \/ flow_block' = flow_block
      \/ /\ flow_block' = Append(flow_block, rpc.flow.key)
         /\ rpc.flow.key \notin Range(flow_block)
  BY Zenon DEF addFlowBlockPush
<1>4. AsMap(flow_block', flow_block_rate) = AsMap(flow_block, flow_block_rate)
  <2>1. CASE flow_block' = flow_block
    BY Zenon, <2>1
  <2>2. CASE /\ flow_block' = Append(flow_block, rpc.flow.key)
             /\ rpc.flow.key \notin Range(flow_block)
    <3>1. AsMap(Append(flow_block, rpc.flow.key), flow_block_rate)
             = AsMap(flow_block, flow_block_rate)
      BY <1>a, <2>2, KeyAppended
    <3> QED
      BY Zenon, <2>2, <3>1
  <2> QED
    BY <1>3, <2>1, <2>2
<1> QED
  BY Zenon, <1>2, <1>4 DEF addFlowBlockPush

\* addFlowBlock, its last statement: the limit exists.
LEMMA AddFlowBlockRateImplements ==
    ASSUME IInv, addFlowBlockRate
    PROVE  Table!Next
<1>a. /\ flow_block \in Seq(FlowKeys) /\ flow_block_rate \in Seq(Rates)
      /\ IsInjective(flow_block) /\ rpc.rate \in Rates
      /\ Len(flow_block) = Len(flow_block_rate) + 1 /\ rpc.at = "flowRate"
  <2>1. rpc.at = "flowRate"
    BY Zenon DEF addFlowBlockRate
  <2> QED
    BY Zenon, <2>1, VectorFacts, CallFields
<1>b. /\ rpc'.at = "idle" /\ flow_block' = flow_block
      /\ flow_block_rate' = Append(flow_block_rate, rpc.rate)
  BY Zenon DEF addFlowBlockRate, Idle
<1>1. LiveRates' = LiveRates /\ ip_block' = ip_block
  BY Zenon, <1>a, <1>b DEF LiveRates, addFlowBlockRate
<1>2. /\ flow_block[Len(flow_block)] \in FlowKeys
      /\ flow_block[Len(flow_block)] \notin DOMAIN AsMap(flow_block, flow_block_rate)
      /\ AsMap(flow_block, Append(flow_block_rate, rpc.rate))
           = Table!Extend(AsMap(flow_block, flow_block_rate),
                          flow_block[Len(flow_block)], rpc.rate)
  <2> DEFINE r == rpc.rate
  <2>1. r \in Rates
    BY Zenon, <1>a
  <2> HIDE DEF r
  <2>2. /\ flow_block[Len(flow_block)] \in FlowKeys
        /\ flow_block[Len(flow_block)] \notin DOMAIN AsMap(flow_block, flow_block_rate)
        /\ AsMap(flow_block, Append(flow_block_rate, r))
             = Table!Extend(AsMap(flow_block, flow_block_rate),
                            flow_block[Len(flow_block)], r)
    BY <1>a, <2>1, RateAppended
  <2> QED
    BY <2>2 DEF r
<1>3. Table!LimitFlow(flow_block[Len(flow_block)], rpc.rate)
  BY <1>b, <1>1, <1>2 DEF Table!LimitFlow
<1> QED
  BY <1>a, <1>2, <1>3 DEF Table!Next

\* The vectors of the rate limiters implement the two maps of LimitTable: every
\* step of either thread is a step of the table or leaves it as it is.
THEOREM Refinement == Spec => ImplementsLimitTable
<1>1. ASSUME IInv, [Next]_vars
      PROVE  [Table!Next]_<<AsMap(ip_block, LiveRates),
                            AsMap(flow_block, flow_block_rate)>>
  <2>1. CASE Setter
    BY Zenon, <1>1, <2>1, AddIPBlockRateImplements, ScanImplements, EraseImplements,
       PushImplements, AddFlowBlockRateImplements DEF Setter
  <2>2. ASSUME NEW a \in Addresses, NEW r \in Rates, addIPBlock(a, r)
        PROVE  UNCHANGED <<AsMap(ip_block, LiveRates),
                           AsMap(flow_block, flow_block_rate)>>
    BY Zenon, <1>1, <2>2, AddIPBlockImplements
  <2>3. ASSUME NEW f \in Flows, NEW r \in Rates, addFlowBlock(f, r)
        PROVE  UNCHANGED <<AsMap(ip_block, LiveRates),
                           AsMap(flow_block, flow_block_rate)>>
    BY <2>3, SMTT(20) DEF addFlowBlock, StartCall, Idle, lists, LiveRates
  <2>4. ASSUME NEW l \in 1..Slots, NEW r \in Rates, addLinkBlock(l, r)
        PROVE  UNCHANGED <<lists, rpc>>
    BY <2>4 DEF addLinkBlock
  <2>5. ASSUME NEW p \in Packets, NEW l \in 1..Slots, FromPpp(p, l)
        PROVE  UNCHANGED <<lists, rpc>>
    BY Zenon, <2>5 DEF FromPpp
  <2>6. ASSUME NEW p \in Packets, FromNetwork(p) \/ Consume(p)
        PROVE  UNCHANGED <<lists, rpc>>
    BY <2>6 DEF FromNetwork, Consume
  <2>8. CASE Handler
    <3>1. UNCHANGED <<lists, rpc>>
      BY <2>8, Zenon DEF Handler, ipCompare, ipDraw, ipDone, flowCompare, flowDraw,
         flowDone
    <3> QED
      BY <3>1, ListsUnchanged
  <2>7. CASE UNCHANGED vars
    BY <2>7, ListsUnchanged DEF vars, lists
  <2> QED
    BY Zenon, <1>1, <2>1, <2>2, <2>3, <2>4, <2>5, <2>6, <2>7, <2>8, ListsUnchanged,
       SMTT(20)
       DEF Next
<1> QED
  BY <1>1, InitImplements, Invariance, PTL DEF Spec, ImplementsLimitTable,
     Table!Spec
=============================================================================
