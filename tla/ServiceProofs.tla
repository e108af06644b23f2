--------------------------- MODULE ServiceProofs ---------------------------
(***************************************************************************)
(* The services of the hosts and of the policy engine, three components    *)
(* that do not share any state, each on its own.                           *)
(*                                                                         *)
(* ResilienceLoop, for any hosts, flows, links and rate limiters, and      *)
(* every order in which the threads of the policy engine and of the        *)
(* simulation run.  A limit on a flow is several messages away from the    *)
(* report of an intrusion: event, connection, policy, remote call, export, *)
(* event again.  The invariant says of each stage that nothing but the     *)
(* calls of the load policy is on its way while no host is blocked.        *)
(*                                                                         *)
(* UDPWormVictim, for any hosts; and the server of GenericUDPApplication,  *)
(* for any clients, sessions and thread limit.                             *)
(***************************************************************************)
EXTENDS ResilienceLoop, UDPWormVictim, GenericUDPApplication, FiniteSetTheorems, TLAPS

-----------------------------------------------------------------------------
(* The resilience loop.                                                    *)

\* The remote calls of the load policy, and all of them.
LoadCall == [op : {"limitlink"}, arg : 1..Links] \cup [op : {"togglereport"}]
RemoteCall == LoadCall
              \cup [op : {"setthreshold"}]
              \cup [op : {"limitip"}, name : STRING, arg : Addresses]
              \cup [op : {"limitflow"}, arg : AttackFlows]

\* The sensors remember every report.
SensorInv ==
    \A i \in DOMAIN sent :
        /\ sent[i].type = "intrusion" => ratio_table[sent[i].arg].blocked
        /\ sent[i].type = "load" => triggered_count[sent[i].arg] = TriggerCount

CallsInv == todo \in Seq(Seq(RemoteCall)) /\ Len(todo) = Len(sent)

Intruded == \E a \in Addresses : ratio_table[a].blocked

\* Before the first intrusion only links are limited, which needs no loop.
QuietInv ==
    \/ Intruded
    \/ /\ enabled = FALSE
       /\ \A i \in DOMAIN sent : sent[i].type = "load"
       /\ \A id \in DOMAIN todo : todo[id] \in Seq(LoadCall)
       /\ rpc = RL!Idle /\ flow_block = <<>>

IInv == ReportedOnce /\ SensorInv /\ CallsInv /\ QuietInv

\* What the policies do for an event; the load policy only limits links.
LEMMA PolicyCalls ==
    ASSUME NEW e \in Event
    PROVE  /\ Policy(e) \in Seq(RemoteCall)
           /\ e.type = "load" => Policy(e) \in Seq(LoadCall)
<1>1. CASE e.type = "intrusion"
  <2> DEFINE first == <<[op |-> "setthreshold"]>>
             rest == [i \in 1..Len(Limiters) |->
                        [op |-> "limitip", name |-> Limiters[i], arg |-> e.arg]]
  <2>1. e.arg \in Addresses
    BY <1>1 DEF Event
  <2>2. Len(Limiters) \in Nat /\ \A i \in 1..Len(Limiters) : Limiters[i] \in STRING
    BY LoopAssumption
  <2>3. rest \in Seq(RemoteCall)
    BY <2>1, <2>2 DEF RemoteCall
  <2>4. first \in Seq(RemoteCall)
    <3>1. [op |-> "setthreshold"] \in RemoteCall
      BY DEF RemoteCall
    <3> QED
      BY <3>1
  <2>5. Policy(e) = first \o rest
    BY <1>1 DEF Policy
  <2> HIDE DEF first, rest
  <2> QED
    BY <1>1, <2>3, <2>4, <2>5
<1>2. CASE e.type = "load"
  <2>1. e.arg \in 1..Links
    BY <1>2 DEF Event
  <2>2. [op |-> "limitlink", arg |-> e.arg] \in LoadCall /\ [op |-> "togglereport"] \in LoadCall
    BY <2>1 DEF LoadCall
  <2>3. Policy(e) = <<[op |-> "limitlink", arg |-> e.arg], [op |-> "togglereport"]>>
    BY <1>2 DEF Policy
  <2>4. Policy(e) \in Seq(LoadCall)
    BY <2>2, <2>3
  <2>5. LoadCall \subseteq RemoteCall
    BY DEF RemoteCall
  <2> QED
    BY <2>4, <2>5
<1>3. CASE e.type = "classification"
  <2>1. e.arg \in AttackFlows
    BY <1>3 DEF Event
  <2>2. [op |-> "limitflow", arg |-> e.arg] \in RemoteCall
    BY <2>1 DEF RemoteCall
  <2>3. Policy(e) = <<[op |-> "limitflow", arg |-> e.arg]>>
    BY <1>3 DEF Policy
  <2> QED
    BY <1>3, <2>2, <2>3
<1> QED
  BY <1>1, <1>2, <1>3 DEF Event

\* The shape of the sequences.
LEMMA Shapes ==
    ASSUME IInv
    PROVE  /\ sent \in Seq(Event) /\ Len(sent) \in Nat /\ DOMAIN sent = 1..Len(sent)
           /\ todo \in Seq(Seq(RemoteCall)) /\ DOMAIN todo = DOMAIN sent
           /\ \A i \in DOMAIN sent : sent[i] \in Event
BY DEF IInv, ReportedOnce, TypeOK, CallsInv

\* An event that is published is the last; its policy has made no call yet.
LEMMA Published ==
    ASSUME IInv, NEW e \in Event, Publish(e)
    PROVE  /\ sent' \in Seq(Event) /\ CallsInv'
           /\ DOMAIN todo' = DOMAIN sent'
           /\ \A i \in DOMAIN sent' : i \in DOMAIN sent \/ i = Len(sent) + 1
           /\ \A i \in DOMAIN sent : sent'[i] = sent[i] /\ todo'[i] = todo[i]
           /\ sent'[Len(sent) + 1] = e /\ todo'[Len(sent) + 1] = <<>>
           /\ conns' \subseteq DOMAIN sent' /\ accepted' \subseteq DOMAIN sent'
<1>1. sent' = Append(sent, e) /\ todo' = Append(todo, <<>>) /\ accepted' = accepted
      /\ (conns' = conns \cup {Len(sent')} \/ conns' = conns)
  BY DEF Publish
<1>2. /\ sent' \in Seq(Event) /\ Len(sent') = Len(sent) + 1
      /\ \A i \in 1..Len(sent) : sent'[i] = sent[i]
      /\ sent'[Len(sent) + 1] = e
  BY <1>1, Shapes
<1>3. <<>> \in Seq(RemoteCall) /\ Len(todo) = Len(sent)
  BY DEF IInv, CallsInv
<1>4. /\ todo' \in Seq(Seq(RemoteCall)) /\ Len(todo') = Len(sent) + 1
      /\ \A i \in 1..Len(sent) : todo'[i] = todo[i]
      /\ todo'[Len(sent) + 1] = <<>>
  BY <1>1, <1>3, Shapes
<1>5. DOMAIN sent' = 1..(Len(sent) + 1) /\ DOMAIN todo' = 1..(Len(sent) + 1)
  BY <1>2, <1>4
<1>6. conns \subseteq DOMAIN sent /\ accepted \subseteq DOMAIN sent
  BY DEF IInv, ReportedOnce, TypeOK
<1>7. conns' \subseteq DOMAIN sent' /\ accepted' \subseteq DOMAIN sent'
  BY <1>1, <1>2, <1>5, <1>6, Shapes
<1>8. \A i \in DOMAIN sent' : i \in DOMAIN sent \/ i = Len(sent) + 1
  BY <1>5, Shapes
<1> QED
  BY <1>2, <1>4, <1>5, <1>7, <1>8, Shapes DEF CallsInv

\* A report that the sensor has not made before: no event is the same.
LEMMA NewReport ==
    ASSUME IInv, NEW e \in Event, Publish(e),
           e.type # "classification" => \A i \in DOMAIN sent : sent[i] # e
    PROVE  \A i, j \in DOMAIN sent' :
               sent'[i] = sent'[j] /\ sent'[i].type # "classification" => i = j
<1> SUFFICES ASSUME NEW i \in DOMAIN sent', NEW j \in DOMAIN sent',
                    sent'[i] = sent'[j], sent'[i].type # "classification"
             PROVE  i = j
  OBVIOUS
<1>1. \A k \in DOMAIN sent' : k \in DOMAIN sent \/ k = Len(sent) + 1
  BY Published
<1>2. CASE i \in DOMAIN sent /\ j \in DOMAIN sent
  BY <1>2, Published DEF IInv, ReportedOnce
<1>3. CASE i = Len(sent) + 1 /\ j \in DOMAIN sent
  BY <1>3, Published
<1>4. CASE i \in DOMAIN sent /\ j = Len(sent) + 1
  BY <1>4, Published
<1> QED
  BY <1>1, <1>2, <1>3, <1>4

\* No event is published and no call is decided on, made or lost.
LEMMA EventsKept ==
    ASSUME IInv, UNCHANGED events
    PROVE  /\ sent' = sent /\ CallsInv' /\ todo' = todo
           /\ conns' \subseteq DOMAIN sent' /\ accepted' \subseteq DOMAIN sent'
           /\ \A i, j \in DOMAIN sent' :
               sent'[i] = sent'[j] /\ sent'[i].type # "classification" => i = j
BY DEF events, IInv, CallsInv, ReportedOnce, TypeOK

\* Nothing is reported at the start.
LEMMA InitIInv == Init => IInv
<1> SUFFICES ASSUME Init PROVE IInv
  OBVIOUS
<1>1. sent \in Seq(Event) /\ todo \in Seq(Seq(RemoteCall)) /\ Len(todo) = Len(sent)
      /\ DOMAIN sent = {} /\ DOMAIN todo = {}
  BY DEF Init
<1>2. ratio_table \in [Addresses -> [ghost: 0..MaxRatio, real: 1..MaxRatio, blocked: BOOLEAN]]
  BY LoopAssumption DEF Init
<1>3. triggered_count \in [1..Links -> 0..TriggerCount]
  BY LoopAssumption DEF Init
<1>4. TypeOK
  <2>1. conns = {} /\ accepted = {} /\ lost \in 0..MaxLost /\ enabled \in BOOLEAN
    <3>1. conns = {} /\ accepted = {} /\ lost = 0 /\ enabled = FALSE
      BY DEF Init
    <3>2. lost \in 0..MaxLost
      BY <3>1, LoopAssumption
    <3> QED
      BY <3>1, <3>2, Zenon
  <2> QED
    BY <1>1, <1>2, <1>3, <2>1 DEF TypeOK
<1>5. QuietInv
  BY <1>1 DEF Init, QuietInv, RL!Init
<1> QED
  BY <1>1, <1>4, <1>5 DEF IInv, ReportedOnce, SensorInv, CallsInv

-----------------------------------------------------------------------------
(* The steps.                                                              *)

Ratio == [ghost: 0..MaxRatio, real: 1..MaxRatio, blocked: BOOLEAN]

\* A step of the IDS that publishes nothing blocks no host.
LEMMA NoReport ==
    ASSUME IInv, ratio_table' \in [Addresses -> Ratio],
           \A b \in Addresses : ratio_table'[b].blocked = ratio_table[b].blocked,
           UNCHANGED <<triggered_count, events, lost, enabled, limiter>>
    PROVE  IInv'
<1>1. TypeOK' /\ ReportedOnce'
  BY EventsKept DEF Ratio, IInv, ReportedOnce, TypeOK
<1>2. SensorInv'
  <2> SUFFICES ASSUME NEW i \in DOMAIN sent'
               PROVE  /\ sent'[i].type = "intrusion" => ratio_table'[sent'[i].arg].blocked
                      /\ sent'[i].type = "load" => triggered_count'[sent'[i].arg] = TriggerCount
    BY DEF SensorInv
  <2>1. i \in DOMAIN sent /\ sent'[i] = sent[i] /\ sent[i] \in Event
    BY EventsKept, Shapes
  <2>2. sent[i].type = "intrusion" => sent[i].arg \in Addresses
    BY <2>1 DEF Event
  <2> QED
    BY <2>1, <2>2 DEF IInv, SensorInv
<1>3. QuietInv'
  <2>1. CASE Intruded
    BY <2>1 DEF Intruded, QuietInv
  <2>2. CASE ~Intruded
    BY Zenon, <2>2, EventsKept DEF IInv, QuietInv, limiter
  <2> QED
    BY <2>1, <2>2
<1> QED
  BY Zenon, <1>1, <1>2, <1>3, EventsKept DEF IInv

\* A connection of host a is counted.
LEMMA IncRealIInv ==
    ASSUME IInv, NEW a \in Addresses, IncReal(a)
    PROVE  IInv'
<1>1. ratio_table \in [Addresses -> Ratio] /\ ratio_table[a].real < MaxRatio
  BY DEF IInv, ReportedOnce, TypeOK, IncReal, Ratio
<1> DEFINE r == [ratio_table[a] EXCEPT !.real = @ + 1]
<1>2. r \in Ratio /\ r.blocked = ratio_table[a].blocked
  BY SMTT(30), <1>1, LoopAssumption DEF Ratio
<1>3. ratio_table' = [ratio_table EXCEPT ![a] = r]
  BY DEF IncReal
<1> HIDE DEF r
<1>4. ratio_table' \in [Addresses -> Ratio]
  BY <1>1, <1>2, <1>3
<1>5. \A b \in Addresses : ratio_table'[b].blocked = ratio_table[b].blocked
  BY <1>1, <1>2, <1>3
<1> QED
  BY <1>4, <1>5, NoReport DEF IncReal

\* A ghost connection: host a is reported when it has not been yet.
LEMMA IncGhostIInv ==
    ASSUME IInv, NEW a \in Addresses, IncGhost(a)
    PROVE  IInv'
<1>1. ratio_table \in [Addresses -> Ratio] /\ ratio_table[a].ghost < MaxRatio
  BY DEF IInv, ReportedOnce, TypeOK, IncGhost, Ratio
<1> DEFINE r == [ratio_table[a] EXCEPT !.ghost = @ + 1]
           s == [r EXCEPT !.blocked = TRUE]
           e == [type |-> "intrusion", arg |-> a]
<1>2. r \in Ratio /\ r.blocked = ratio_table[a].blocked
  BY SMTT(30), <1>1, LoopAssumption DEF Ratio
<1>3. CASE ~r.blocked /\ AboveDropRatio(r)
  <2>1. /\ ratio_table' = [ratio_table EXCEPT ![a] = s] /\ Publish(e)
        /\ UNCHANGED <<triggered_count, lost, enabled, limiter>>
    BY <1>3 DEF IncGhost
  <2>2. s \in Ratio /\ s.blocked
    BY Zenon, <1>2 DEF Ratio
  <2>3. e \in Event /\ e.type = "intrusion" /\ e.arg = a
    BY DEF Event
  <2>4. ~ratio_table[a].blocked
    BY <1>2, <1>3
  <2> HIDE DEF r, s, e
  <2>5. /\ ratio_table' \in [Addresses -> Ratio] /\ ratio_table'[a].blocked
        /\ \A b \in Addresses : ratio_table[b].blocked => ratio_table'[b].blocked
    BY <1>1, <2>1, <2>2
  <2>6. \A i \in DOMAIN sent : sent[i] # e
    BY <2>3, <2>4 DEF IInv, SensorInv
  <2>7. ReportedOnce'
    BY Zenon, <2>1, <2>3, <2>5, <2>6, Published, NewReport DEF Ratio, IInv,
       ReportedOnce, TypeOK
  <2>8. SensorInv'
    <3> SUFFICES ASSUME NEW i \in DOMAIN sent'
                 PROVE  /\ sent'[i].type = "intrusion" => ratio_table'[sent'[i].arg].blocked
                        /\ sent'[i].type = "load" => triggered_count'[sent'[i].arg] = TriggerCount
      BY DEF SensorInv
    <3>1. CASE i \in DOMAIN sent
      <4>1. sent'[i] = sent[i] /\ (sent[i].type = "intrusion" => sent[i].arg \in Addresses)
        BY Zenon, <2>1, <2>3, <3>1, Published, Shapes DEF Event
      <4> QED
        BY Zenon, <2>1, <2>5, <3>1, <4>1 DEF IInv, SensorInv
    <3>2. CASE i = Len(sent) + 1
      BY <2>1, <2>3, <2>5, <3>2, Published
    <3> QED
      BY <2>1, <2>3, <3>1, <3>2, Published
  <2>9. QuietInv'
    BY <2>5 DEF QuietInv, Intruded
  <2> QED
    BY <2>1, <2>3, <2>7, <2>8, <2>9, Published DEF IInv
<1>4. CASE ~(~r.blocked /\ AboveDropRatio(r))
  <2>1. /\ ratio_table' = [ratio_table EXCEPT ![a] = r]
        /\ UNCHANGED <<triggered_count, events, lost, enabled, limiter>>
    BY <1>4 DEF IncGhost
  <2> HIDE DEF r
  <2>2. ratio_table' \in [Addresses -> Ratio]
    BY Zenon, <1>1, <1>2, <2>1
  <2>3. \A b \in Addresses : ratio_table'[b].blocked = ratio_table[b].blocked
    BY <1>1, <1>2, <2>1
  <2> QED
    BY <2>1, <2>2, <2>3, NoReport
<1> QED
  BY <1>3, <1>4

\* An overload of link l: the last one that counts is reported.
LEMMA OverloadIInv ==
    ASSUME IInv, NEW l \in 1..Links, Overload(l)
    PROVE  IInv'
<1> DEFINE e == [type |-> "load", arg |-> l]
<1>1. triggered_count \in [1..Links -> 0..TriggerCount] /\ triggered_count[l] < TriggerCount
  BY DEF IInv, ReportedOnce, TypeOK, Overload
<1>2. /\ triggered_count' = [triggered_count EXCEPT ![l] = @ + 1]
      /\ UNCHANGED <<ratio_table, lost, enabled, limiter>>
  BY DEF Overload
<1>3. /\ triggered_count' \in [1..Links -> 0..TriggerCount]
      /\ \A m \in 1..Links : triggered_count[m] = TriggerCount => triggered_count'[m] = TriggerCount
  BY <1>1, <1>2, LoopAssumption
<1>4. Intruded' <=> Intruded
  BY <1>2 DEF Intruded
<1>5. CASE triggered_count'[l] = TriggerCount
  <2>1. Publish(e)
    BY <1>5 DEF Overload
  <2>2. e \in Event /\ e.type = "load" /\ e.arg = l
    BY DEF Event
  <2> HIDE DEF e
  <2>3. \A i \in DOMAIN sent : sent[i] # e
    BY <1>1, <2>2 DEF IInv, SensorInv
  <2>4. ReportedOnce'
    BY Zenon, <1>2, <1>3, <2>1, <2>2, <2>3, Published, NewReport DEF IInv,
       ReportedOnce, TypeOK
  <2>5. SensorInv'
    <3> SUFFICES ASSUME NEW i \in DOMAIN sent'
                 PROVE  /\ sent'[i].type = "intrusion" => ratio_table'[sent'[i].arg].blocked
                        /\ sent'[i].type = "load" => triggered_count'[sent'[i].arg] = TriggerCount
      BY DEF SensorInv
    <3>1. CASE i \in DOMAIN sent
      <4>1. sent'[i] = sent[i] /\ (sent[i].type = "load" => sent[i].arg \in 1..Links)
        BY Zenon, <2>1, <2>2, <3>1, Published, Shapes DEF Event
      <4> QED
        BY Zenon, <1>2, <1>3, <3>1, <4>1 DEF IInv, SensorInv
    <3>2. CASE i = Len(sent) + 1
      BY <1>5, <2>1, <2>2, <3>2, Published
    <3> QED
      BY Zenon, <2>1, <2>2, <3>1, <3>2, Published
  <2>6. QuietInv'
    <3>1. CASE Intruded
      BY <1>4, <3>1 DEF QuietInv
    <3>2. CASE ~Intruded
      <4>1. ASSUME NEW i \in DOMAIN sent'
            PROVE  sent'[i].type = "load" /\ todo'[i] \in Seq(LoadCall)
        <5>1. CASE i \in DOMAIN sent
          <6>1. sent'[i] = sent[i] /\ todo'[i] = todo[i] /\ i \in DOMAIN todo
            BY Zenon, <2>1, <2>2, <5>1, Published, Shapes
          <6> QED
            BY Zenon, <3>2, <5>1, <6>1 DEF IInv, QuietInv
        <5>2. CASE i = Len(sent) + 1
          <6>1. sent'[i] = e /\ todo'[i] = <<>>
            BY Zenon, <2>1, <2>2, <5>2, Published
          <6> QED
            BY <2>2, <6>1
        <5> QED
          BY Zenon, <2>1, <2>2, <5>1, <5>2, Published
      <4>2. DOMAIN todo' = DOMAIN sent'
        BY <2>1, <2>2, Published
      <4> QED
        BY Zenon, <1>2, <3>2, <4>1, <4>2 DEF IInv, QuietInv, limiter
    <3> QED
      BY <3>1, <3>2
  <2> QED
    BY Zenon, <2>1, <2>2, <2>4, <2>5, <2>6, Published DEF IInv
<1>6. CASE triggered_count'[l] # TriggerCount
  <2>1. UNCHANGED events
    BY Zenon, <1>6 DEF Overload
  <2>2. ReportedOnce'
    BY Zenon, <1>2, <1>3, <2>1, EventsKept DEF IInv, ReportedOnce, TypeOK
  <2>3. SensorInv'
    <3> SUFFICES ASSUME NEW i \in DOMAIN sent
                 PROVE  /\ sent[i].type = "intrusion" => ratio_table'[sent[i].arg].blocked
                        /\ sent[i].type = "load" => triggered_count'[sent[i].arg] = TriggerCount
      BY <2>1, EventsKept DEF SensorInv
    <3>1. sent[i].type = "load" => sent[i].arg \in 1..Links
      BY Zenon, Shapes DEF Event
    <3> QED
      BY Zenon, <1>2, <1>3, <3>1 DEF IInv, SensorInv
  <2>4. QuietInv'
    BY Zenon, <1>2, <1>4, <2>1, EventsKept DEF IInv, QuietInv, limiter
  <2> QED
    BY Zenon, <2>1, <2>2, <2>3, <2>4, EventsKept DEF IInv
<1> QED
  BY Zenon, <1>5, <1>6

\* A flow is classified, possibly again: an exporter that is enabled had its call
\* from the intrusion policy.
LEMMA ClassifyIInv ==
    ASSUME IInv, NEW f \in AttackFlows, Classify(f)
    PROVE  IInv'
<1> DEFINE e == [type |-> "classification", arg |-> f]
<1>1. enabled /\ Publish(e) /\ UNCHANGED <<sensors, lost, enabled, limiter>>
  BY DEF Classify
<1>2. e \in Event /\ e.type = "classification"
  BY DEF Event
<1> HIDE DEF e
<1>3. Intruded /\ Intruded'
  BY Zenon, <1>1 DEF IInv, QuietInv, Intruded, sensors
<1>4. ReportedOnce'
  BY Zenon, <1>1, <1>2, Published, NewReport DEF sensors, IInv, ReportedOnce, TypeOK
<1>5. SensorInv'
  <2> SUFFICES ASSUME NEW i \in DOMAIN sent'
               PROVE  /\ sent'[i].type = "intrusion" => ratio_table'[sent'[i].arg].blocked
                      /\ sent'[i].type = "load" => triggered_count'[sent'[i].arg] = TriggerCount
    BY DEF SensorInv
  <2>1. CASE i \in DOMAIN sent
    BY Zenon, <1>1, <1>2, <2>1, Published DEF sensors, IInv, SensorInv
  <2>2. CASE i = Len(sent) + 1
    BY Zenon, <1>1, <1>2, <2>2, Published
  <2> QED
    BY Zenon, <1>1, <1>2, <2>1, <2>2, Published
<1> QED
  BY <1>1, <1>2, <1>3, <1>4, <1>5, Published DEF IInv, QuietInv

\* A step of the policy engine or of the server leaves the sensors and their events
\* alone; the calls stay calls, and those of the load policy while no host is
\* blocked.
LEMMA SensorsKept ==
    ASSUME IInv, UNCHANGED <<sensors, sent>>,
           conns' \subseteq DOMAIN sent, accepted' \subseteq DOMAIN sent,
           lost' \in 0..MaxLost, enabled' \in BOOLEAN,
           todo' \in Seq(Seq(RemoteCall)), Len(todo') = Len(todo),
           \/ Intruded
           \/ /\ enabled' = FALSE /\ rpc' = RL!Idle /\ flow_block' = <<>>
              /\ \A k \in DOMAIN todo' : todo'[k] \in Seq(LoadCall)
    PROVE  IInv'
<1>1. CallsInv' /\ DOMAIN todo' = DOMAIN sent
  BY Shapes DEF IInv, CallsInv
<1>2. ReportedOnce'
  BY Zenon, <1>1 DEF sensors, IInv, ReportedOnce, TypeOK
<1>3. SensorInv'
  BY DEF sensors, IInv, SensorInv
<1>4. QuietInv'
  BY DEF sensors, IInv, QuietInv, Intruded
<1> QED
  BY Zenon, <1>1, <1>2, <1>3, <1>4 DEF IInv

\* One thread of the policy engine replaces its calls.
LEMMA CallsReplaced ==
    ASSUME IInv, NEW id \in DOMAIN todo, NEW rest \in Seq(RemoteCall),
           ~Intruded => rest \in Seq(LoadCall),
           todo' = [todo EXCEPT ![id] = rest]
    PROVE  /\ todo' \in Seq(Seq(RemoteCall)) /\ Len(todo') = Len(todo)
           /\ ~Intruded => \A k \in DOMAIN todo' : todo'[k] \in Seq(LoadCall)
<1>1. todo \in Seq(Seq(RemoteCall)) /\ id \in 1..Len(todo) /\ DOMAIN todo = 1..Len(todo)
  BY Shapes
<1>2. /\ todo' \in Seq(Seq(RemoteCall)) /\ Len(todo') = Len(todo)
      /\ \A k \in 1..Len(todo) : todo'[k] = IF k = id THEN rest ELSE todo[k]
  BY <1>1
<1>3. DOMAIN todo' = DOMAIN todo
  OBVIOUS
<1> QED
  BY <1>1, <1>2, <1>3 DEF IInv, QuietInv

\* A thread of the policy engine has a next call.
LEMMA NextCall ==
    ASSUME IInv, NEW id \in DOMAIN todo, todo[id] # <<>>
    PROVE  /\ Head(todo[id]) \in RemoteCall /\ Tail(todo[id]) \in Seq(RemoteCall)
           /\ ~Intruded => /\ Head(todo[id]) \in LoadCall
                           /\ Tail(todo[id]) \in Seq(LoadCall)
<1>1. todo[id] \in Seq(RemoteCall)
  BY Shapes
<1>2. ~Intruded => todo[id] \in Seq(LoadCall)
  BY DEF IInv, QuietInv
<1> QED
  BY <1>1, <1>2

\* The broker accepts an event; its policy is that of the event.
LEMMA AcceptIInv ==
    ASSUME IInv, NEW id \in DOMAIN sent, Accept(id)
    PROVE  IInv'
<1> DEFINE rest == Policy(sent[id])
<1>1. /\ conns' = conns \ {id} /\ accepted' = accepted \cup {id}
      /\ todo' = [todo EXCEPT ![id] = rest]
      /\ UNCHANGED <<sensors, sent, lost, enabled, limiter>>
  BY DEF Accept
<1>2. rest \in Seq(RemoteCall) /\ (~Intruded => rest \in Seq(LoadCall))
  BY Zenon, Shapes, PolicyCalls DEF IInv, QuietInv
<1> HIDE DEF rest
<1>3. /\ todo' \in Seq(Seq(RemoteCall)) /\ Len(todo') = Len(todo)
      /\ ~Intruded => \A k \in DOMAIN todo' : todo'[k] \in Seq(LoadCall)
  BY Zenon, <1>1, <1>2, Shapes, CallsReplaced
<1>4. ~Intruded => enabled' = FALSE /\ rpc' = RL!Idle /\ flow_block' = <<>>
  BY <1>1 DEF IInv, QuietInv, limiter
<1>5. /\ conns' \subseteq DOMAIN sent /\ accepted' \subseteq DOMAIN sent
      /\ lost' \in 0..MaxLost /\ enabled' \in BOOLEAN
  BY Zenon, <1>1 DEF IInv, ReportedOnce, TypeOK
<1> QED
  BY Zenon, <1>1, <1>3, <1>4, <1>5, SensorsKept

\* A call fails: the policy goes on with the next.
LEMMA LoseCallIInv ==
    ASSUME IInv, NEW id \in DOMAIN sent, LoseCall(id)
    PROVE  IInv'
<1> DEFINE rest == Tail(todo[id])
<1>1. /\ todo[id] # <<>> /\ lost < MaxLost /\ lost' = lost + 1
      /\ todo' = [todo EXCEPT ![id] = rest]
      /\ UNCHANGED <<sensors, sent, conns, accepted, enabled, limiter>>
  BY DEF LoseCall
<1>2. rest \in Seq(RemoteCall) /\ (~Intruded => rest \in Seq(LoadCall))
  BY <1>1, Shapes, NextCall
<1> HIDE DEF rest
<1>3. /\ todo' \in Seq(Seq(RemoteCall)) /\ Len(todo') = Len(todo)
      /\ ~Intruded => \A k \in DOMAIN todo' : todo'[k] \in Seq(LoadCall)
  BY Zenon, <1>1, <1>2, Shapes, CallsReplaced
<1>4. ~Intruded => enabled' = FALSE /\ rpc' = RL!Idle /\ flow_block' = <<>>
  BY <1>1 DEF IInv, QuietInv, limiter
<1>5. conns' \subseteq DOMAIN sent /\ accepted' \subseteq DOMAIN sent /\ enabled' \in BOOLEAN
  BY <1>1 DEF IInv, ReportedOnce, TypeOK
<1>6. lost' \in 0..MaxLost
  BY <1>1, LoopAssumption DEF IInv, ReportedOnce, TypeOK
<1> QED
  BY Zenon, <1>1, <1>3, <1>4, <1>5, <1>6, SensorsKept

\* A call is executed; a call of the load policy limits a link and no more.
LEMMA InvokeIInv ==
    ASSUME IInv, NEW id \in DOMAIN todo, Invoke(id)
    PROVE  IInv'
<1> DEFINE c == Head(todo[id])
           rest == Tail(todo[id])
<1>1. /\ todo[id] # <<>> /\ Execute(c) /\ todo' = [todo EXCEPT ![id] = rest]
      /\ UNCHANGED <<sensors, sent, conns, accepted, lost>>
  BY DEF Invoke
<1>2. rest \in Seq(RemoteCall) /\ (~Intruded => c \in LoadCall /\ rest \in Seq(LoadCall))
  BY <1>1, NextCall
<1> HIDE DEF c, rest
<1>3. /\ todo' \in Seq(Seq(RemoteCall)) /\ Len(todo') = Len(todo)
      /\ ~Intruded => \A k \in DOMAIN todo' : todo'[k] \in Seq(LoadCall)
  BY Zenon, <1>1, <1>2, CallsReplaced
<1>4. ASSUME ~Intruded
      PROVE  enabled' = FALSE /\ rpc' = RL!Idle /\ flow_block' = <<>>
  <2>1. c.op \in {"limitlink", "togglereport"}
    BY <1>2, <1>4 DEF LoadCall
  <2>2. ToggleReport(c) \/ LimitLink(c)
    BY <1>1, <2>1 DEF Execute, SetThreshold, LimitFlow, LimitIP
  <2>3. UNCHANGED <<enabled, rpc, flow_block>>
    <3>1. CASE ToggleReport(c)
      BY <3>1 DEF ToggleReport, limiter
    <3>2. CASE LimitLink(c)
      BY <3>2 DEF LimitLink, RL!addLinkBlock, RL!lists
    <3> QED
      BY <2>2, <3>1, <3>2
  <2> QED
    BY <1>4, <2>3 DEF IInv, QuietInv
<1>5. enabled' \in BOOLEAN
  BY Zenon, <1>1 DEF Execute, SetThreshold, ToggleReport, LimitLink, LimitFlow,
     LimitIP,
              IInv, ReportedOnce, TypeOK
<1>6. /\ conns' \subseteq DOMAIN sent /\ accepted' \subseteq DOMAIN sent
      /\ lost' \in 0..MaxLost
  BY SMTT(30), <1>1 DEF IInv, ReportedOnce, TypeOK
<1> QED
  BY Zenon, <1>1, <1>3, <1>4, <1>5, <1>6, SensorsKept

\* A setter of the rate limiters goes on: it was called for an intrusion or a flow.
LEMMA ContinueIInv == ASSUME IInv, Continue PROVE IInv'
<1>1. RL!Setter /\ UNCHANGED <<sensors, events, lost, enabled>>
  BY DEF Continue
<1>2. rpc # RL!Idle
  BY <1>1 DEF RL!Setter, RL!addIPBlockRate, RL!addFlowBlockScan,
     RL!addFlowBlockErase,
              RL!addFlowBlockPush, RL!addFlowBlockRate, RL!Idle
<1>3. Intruded
  BY <1>2 DEF IInv, QuietInv
<1>4. UNCHANGED <<sent, conns, accepted, todo>>
  BY <1>1 DEF events
<1>5. /\ conns' \subseteq DOMAIN sent /\ accepted' \subseteq DOMAIN sent
      /\ lost' \in 0..MaxLost /\ enabled' \in BOOLEAN
  BY <1>1, <1>4 DEF IInv, ReportedOnce, TypeOK
<1> QED
  BY SMTT(30), <1>1, <1>3, <1>4, <1>5, Shapes, SensorsKept

\* The invariant holds in every reachable state.
THEOREM Invariance == Spec => []IInv
<1>1. ASSUME IInv, [Next]_vars PROVE IInv'
  <2>1. CASE UNCHANGED vars
    <3>1. UNCHANGED <<sensors, events, lost, enabled, limiter>>
      BY <2>1 DEF vars
    <3>2. ratio_table' \in [Addresses -> Ratio]
      BY <1>1, <3>1 DEF sensors, Ratio, IInv, ReportedOnce, TypeOK
    <3> QED
      BY SMTT(30), <1>1, <3>1, <3>2, NoReport DEF sensors
  <2>2. CASE \E a \in Addresses : IncReal(a) \/ IncGhost(a)
    BY <1>1, <2>2, IncRealIInv, IncGhostIInv
  <2>3. CASE \E l \in 1..Links : Overload(l)
    BY SMTT(30), <1>1, <2>3, OverloadIInv
  <2>4. CASE \E f \in AttackFlows : Classify(f)
    BY SMTT(30), <1>1, <2>4, ClassifyIInv
  <2>5. CASE \E id \in DOMAIN sent : Accept(id) \/ LoseCall(id)
    BY SMTT(30), <1>1, <2>5, AcceptIInv, LoseCallIInv
  <2>6. CASE RPCServer
    BY SMTT(30), <1>1, <2>6, ContinueIInv, InvokeIInv DEF RPCServer
  <2> QED
    BY Zenon, <1>1, <2>1, <2>2, <2>3, <2>4, <2>5, <2>6 DEF Next
<1> QED
  BY <1>1, InitIInv, PTL DEF Spec

\* No intrusion of a host and no load of a link is reported twice.
THEOREM ReportsSafety == Spec => []ReportedOnce
<1>1. IInv => ReportedOnce
  BY SMTT(30) DEF IInv
<1> QED
  BY <1>1, Invariance, PTL

\* However the threads interleave and whatever is lost, a flow is limited only
\* after the report of an intrusion.
THEOREM FlowLimitSafety == Spec => []FlowLimitFollowsIntrusion
<1>1. IInv => FlowLimitFollowsIntrusion
  BY DEF IInv, QuietInv, Intruded, FlowLimitFollowsIntrusion
<1> QED
  BY <1>1, Invariance, PTL

-----------------------------------------------------------------------------
(* The worm.                                                               *)

\* The two invariants are inductive together: the timer of a vulnerable host does
\* not run, so only a probing packet infects a host, and that counts it.
WormInv == TimerOfInfected /\ InfectionsCounted

\* The set of the infected hosts and the number of all hosts are finite.
LEMMA HostsFinite ==
    /\ IsFiniteSet(Infected) /\ Cardinality(Infected) \in Nat
    /\ Cardinality(Hosts) \in Nat /\ Cardinality(Infected) <= Cardinality(Hosts)
<1>1. Infected \subseteq Hosts
  BY DEF Infected
<1> QED
  BY SMTT(30), <1>1, HostsAssumption, FS_Subset, FS_CardinalityType

\* The start: the hosts that are infected are counted and have their timers.
LEMMA WormInitInv == WormInit => WormInv
<1> SUFFICES ASSUME WormInit PROVE WormInv
  OBVIOUS
<1>1. infectedHosts \in 0..Cardinality(Hosts) /\ InfectionsCounted
  BY HostsFinite DEF WormInit, InfectionsCounted
<1>2. IF MaxProbingPackets < 0
      THEN maxProbingPackets = [h \in Hosts |-> MaxProbingPackets]
      ELSE maxProbingPackets \in [Hosts -> 0..MaxProbingPackets]
  BY HostsAssumption DEF WormInit
<1> QED
  BY SMTT(30), <1>1, <1>2 DEF WormInv, WormInit, TimerOfInfected, WormTypeOK

\* The timer of an infected host: a probing packet, or the end of probing.
LEMMA HandleTimerInv ==
    ASSUME WormInv, NEW h \in Hosts, NEW targets \in Targets, HandleTimer(h, targets)
    PROVE  WormInv'
<1>1. Infected' = Infected
  BY DEF HandleTimer, Infected
<1>2. IF MaxProbingPackets < 0
      THEN maxProbingPackets' = [g \in Hosts |-> MaxProbingPackets]
      ELSE maxProbingPackets' \in [Hosts -> 0..MaxProbingPackets]
  <2>1. CASE MaxProbingPackets < 0
    BY SMTT(30), <2>1, HostsAssumption DEF HandleTimer, WormInv, TimerOfInfected, WormTypeOK
  <2>2. CASE ~(MaxProbingPackets < 0)
    BY SMTT(30), <2>2, HostsAssumption DEF HandleTimer, WormInv, TimerOfInfected, WormTypeOK
  <2> QED
    BY Zenon, <2>1, <2>2
<1>3. probes' \subseteq Hosts
  BY DEF HandleTimer, Targets, WormInv, TimerOfInfected, WormTypeOK
<1>4. /\ probingTimer' \in [Hosts -> BOOLEAN]
      /\ \A g \in Hosts : probingTimer'[g] => probingTimer[g]
  BY Zenon DEF HandleTimer, WormInv, TimerOfInfected, WormTypeOK
<1>5. UNCHANGED <<isActive, infectedHosts>>
  BY DEF HandleTimer
<1> QED
  BY Zenon, <1>1, <1>2, <1>3, <1>4, <1>5
     DEF WormInv, TimerOfInfected, WormTypeOK, InfectionsCounted

\* A probing packet: a host that is not infected yet is one more.
LEMMA HandleProbeInv ==
    ASSUME WormInv, NEW h \in Hosts, HandleProbe(h)
    PROVE  WormInv'
<1>1. /\ probes' \subseteq Hosts /\ UNCHANGED maxProbingPackets
  BY DEF HandleProbe, WormInv, TimerOfInfected, WormTypeOK
<1>2. CASE isActive[h]
  <2>1. UNCHANGED <<isActive, infectedHosts, probingTimer>>
    BY <1>2 DEF HandleProbe
  <2>2. Infected' = Infected
    BY Zenon, <2>1 DEF Infected
  <2> QED
    BY Zenon, <1>1, <2>1, <2>2 DEF WormInv, TimerOfInfected, WormTypeOK,
       InfectionsCounted
<1>3. CASE ~isActive[h]
  <2>1. /\ isActive' = [isActive EXCEPT ![h] = TRUE]
        /\ infectedHosts' = infectedHosts + 1
        /\ probingTimer' = [probingTimer EXCEPT ![h] = TRUE]
    BY Zenon, <1>3 DEF HandleProbe
  <2>2. /\ isActive' \in [Hosts -> BOOLEAN] /\ probingTimer' \in [Hosts -> BOOLEAN]
        /\ \A g \in Hosts : probingTimer'[g] => isActive'[g]
        /\ \A g \in Hosts : isActive'[g] <=> isActive[g] \/ g = h
    BY <2>1 DEF WormInv, TimerOfInfected, WormTypeOK
  <2>3. Infected' = Infected \cup {h} /\ h \notin Infected
    BY <1>3, <2>2 DEF Infected
  <2>4. Cardinality(Infected') = Cardinality(Infected) + 1
    BY SMTT(30), <2>3, HostsFinite, FS_AddElement
  <2>5. Cardinality(Infected') <= Cardinality(Hosts)
    <3>1. Infected' \subseteq Hosts
      BY DEF Infected
    <3> QED
      BY <3>1, HostsAssumption, FS_Subset
  <2>6. /\ infectedHosts' = Cardinality(Infected')
        /\ infectedHosts' \in 0..Cardinality(Hosts)
    BY SMTT(30), <2>1, <2>4, <2>5, HostsFinite DEF WormInv, InfectionsCounted
  <2> QED
    BY Zenon, <1>1, <2>2, <2>6 DEF WormInv, TimerOfInfected, WormTypeOK,
       InfectionsCounted
<1> QED
  BY SMTT(30), <1>2, <1>3

\* A lost packet has no effect.
LEMMA LoseProbeInv ==
    ASSUME WormInv, NEW h \in Hosts, LoseProbe(h)
    PROVE  WormInv'
BY DEF LoseProbe, WormInv, TimerOfInfected, WormTypeOK, InfectionsCounted, Infected

\* Both invariants hold in every reachable state, for any number of hosts and any
\* limit.
THEOREM WormInvariance == WormSpec => []WormInv
<1>1. ASSUME WormInv, [WormNext]_wormVars PROVE WormInv'
  <2>1. CASE UNCHANGED wormVars
    BY <1>1, <2>1 DEF wormVars, WormInv, TimerOfInfected, WormTypeOK,
       InfectionsCounted, Infected
  <2>2. CASE WormNext
    <3>1. PICK h \in Hosts : TimerOf(h) \/ HandleProbe(h) \/ LoseProbe(h)
      BY <2>2 DEF WormNext
    <3> QED
      BY Zenon, <1>1, <3>1, HandleTimerInv, HandleProbeInv, LoseProbeInv DEF TimerOf
  <2> QED
    BY Zenon, <1>1, <2>1, <2>2
<1> QED
  BY <1>1, WormInitInv, PTL DEF WormSpec

\* The timer of a host that is not infected never runs, so the infection never
\* schedules it twice.
THEOREM TimerSafety == WormSpec => []TimerOfInfected
<1>1. WormInv => TimerOfInfected
  BY DEF WormInv
<1> QED
  BY <1>1, WormInvariance, PTL

\* The statistics count every infected host once.
THEOREM CountSafety == WormSpec => []InfectionsCounted
<1>1. WormInv => InfectionsCounted
  BY DEF WormInv
<1> QED
  BY <1>1, WormInvariance, PTL

-----------------------------------------------------------------------------
(* The UDP server.                                                         *)

\* What a client thread can be.
ClientThread == [state : {"none", "CONNECTED", "DISCONNECTED", "FINISH"},
                 left : -1..RequestsPerSession]

\* The requests of n sessions; a session sends one even if it should send none.
Sent(n) == n * (RequestsPerSession + 1)

\* A client that is connected has as many requests left as the session has room
\* for.
ClientInv ==
    /\ client \in [Clients -> ClientThread]
    /\ \A c \in Clients :
        /\ requests[c] <= Sent(sessions[c])
        /\ client[c].state = "CONNECTED" =>
              /\ client[c].left >= 0
              /\ requests[c] + client[c].left + 1 <= Sent(sessions[c])
    /\ \A m \in replies : m.last = FALSE

ServerThread == [id : Nat, to : Clients, state : {"CONNECTED", "DISCONNECTED"},
                 left : -1..ReplyPerRequest, number : Nat]

\* The sockets of the threads differ, so two threads are never one.
ThreadsInv ==
    /\ IsFiniteSet(threads)
    /\ threads \subseteq ServerThread
    /\ \A t \in threads : t.state = "CONNECTED" => t.left >= 0
    /\ \A t, u \in threads : t.id = u.id => t = u

ServerInv == WelcomeWhileRoom /\ ClientInv /\ ThreadsInv

-----------------------------------------------------------------------------

\* The requests of all sessions of a client.
LEMMA SentResult ==
    /\ \A n \in Nat : /\ Sent(n) \in Nat
                      /\ Sent(n + 1) = Sent(n) + RequestsPerSession + 1
    /\ \A n \in 0..MaxSessions : Sent(n) <= MaxRequests
    /\ MaxRequests \in Nat
<1> DEFINE K == RequestsPerSession + 1
<1>1. K \in Nat /\ MaxSessions \in Nat
  BY ConstantsAssumption
<1>2. \A n \in Nat : Sent(n) = n * K
  BY DEF Sent
<1>3. MaxRequests = MaxSessions * K
  BY DEF MaxRequests
<1> HIDE DEF K
<1>4. \A n \in Nat : n * K \in Nat
  BY <1>1
<1>5. \A n \in Nat : (n + 1) * K = n * K + K
  BY <1>1
<1>6. \A n, d \in Nat : (n + d) * K = n * K + d * K
  BY <1>1
<1>7. ASSUME NEW n \in 0..MaxSessions PROVE n * K <= MaxSessions * K
  <2>1. MaxSessions - n \in Nat /\ n + (MaxSessions - n) = MaxSessions
    BY <1>1
  <2>2. MaxSessions * K = n * K + (MaxSessions - n) * K
    BY <2>1, <1>6
  <2>3. n * K \in Nat /\ (MaxSessions - n) * K \in Nat
    BY <2>1, <1>4
  <2> QED
    BY <2>2, <2>3
<1> QED
  BY SMTT(30), <1>1, <1>2, <1>3, <1>4, <1>5, <1>7, ConstantsAssumption DEF K

\* The socket of a new thread: there are fewer ids in use than numbers up to the
\* number of threads, and of those that are free there is a least one.
LEMMA FreeIdResult ==
    ASSUME IsFiniteSet(threads), threads \subseteq ServerThread
    PROVE  FreeId \in Nat /\ \A t \in threads : t.id # FreeId
<1> DEFINE used == {t.id : t \in threads}
           n == Cardinality(threads)
           f == [t \in threads |-> t.id]
           Less == OpToRel(<, Nat)
           free == (0..n) \ used
<1>1. n \in Nat
  BY FS_CardinalityType
<1>2. IsFiniteSet(used) /\ Cardinality(used) <= n
  <2>1. f \in Surjection(threads, used)
    BY DEF Surjection
  <2> HIDE DEF f, used
  <2> QED
    BY Zenon, <2>1, FS_Surjection
<1>3. free # {}
  <2> HIDE DEF used, n
  <2> SUFFICES ASSUME 0..n \subseteq used PROVE FALSE
    OBVIOUS
  <2>1. IsFiniteSet(0..n) /\ Cardinality(0..n) = n + 1
    BY <1>1, FS_Interval
  <2>2. Cardinality(0..n) <= Cardinality(used)
    BY Zenon, <1>2, FS_Subset
  <2>3. Cardinality(used) \in Nat
    BY <1>2, FS_CardinalityType
  <2> QED
    BY SMTT(30), <1>1, <1>2, <2>1, <2>2, <2>3
<1>4. PICK m \in free : \A y \in free : ~(<<y, m>> \in Less)
  <2> HIDE DEF Less, free
  <2>1. IsWellFoundedOn(Less, Nat)
    BY NatLessThanWellFounded DEF Less
  <2>2. free \subseteq Nat
    BY <1>1 DEF free
  <2> QED
    BY Zenon, <1>3, <2>1, <2>2, WFMin
<1>5. m \in 0..n /\ m \notin used
  BY <1>4
<1>6. \A j \in 0..(m - 1) : j \in used
  <2> SUFFICES ASSUME NEW j \in 0..(m - 1), j \notin used PROVE FALSE
    OBVIOUS
  <2> HIDE DEF used, n
  <2>1. j \in Nat /\ m \in Nat /\ j < m /\ j \in 0..n
    BY <1>1, <1>5
  <2>2. <<j, m>> \in Less
    BY <2>1 DEF OpToRel
  <2> QED
    BY Zenon, <1>4, <2>1, <2>2
<1>7. FreeId \in 0..n /\ FreeId \notin used
  BY SMTT(30), <1>5, <1>6 DEF FreeId
<1> QED
  BY <1>1, <1>7

-----------------------------------------------------------------------------
(* The steps.                                                              *)

\* At the start there is no session, no thread and no request.
LEMMA ServerInit == UDPInit => ServerInv
<1> SUFFICES ASSUME UDPInit PROVE ServerInv
  OBVIOUS
<1>1. ClientInv
  BY SentResult, ConstantsAssumption DEF UDPInit, ClientInv, ClientThread, NoThread
<1>2. ThreadsInv /\ Cardinality(threads) = 0
  BY Zenon, FS_EmptySet DEF UDPInit, ThreadsInv
<1>3. UDPTypeOK
  BY SentResult, ConstantsAssumption DEF UDPInit, UDPTypeOK, NoThread
<1> QED
  BY SMTT(30), <1>1, <1>2, <1>3, ConstantsAssumption DEF UDPInit, ServerInv, WelcomeWhileRoom

\* Steps of clients and of the network leave the threads alone.
LEMMA ServerKept ==
    ASSUME ServerInv, UNCHANGED <<threads, threadCount, welcome>>, UDPTypeOK', ClientInv'
    PROVE  ServerInv'
BY DEF ServerInv, WelcomeWhileRoom, ThreadsInv

\* The type of the clients follows from their invariant.
LEMMA ClientTypes ==
    ASSUME ClientInv' PROVE \A c \in Clients :
          /\ client'[c].state \in {"none", "CONNECTED", "DISCONNECTED", "FINISH"}
          /\ client'[c].left \in -1..RequestsPerSession
BY DEF ClientInv, ClientThread

\* A new session has room for its requests.
LEMMA StartServer ==
    ASSUME ServerInv, NEW c \in Clients, transmissionStart(c)
    PROVE  ServerInv'
<1>0. RequestsPerSession \in Nat /\ MaxSessions \in Nat
  BY Zenon, ConstantsAssumption
<1>1. /\ sessions[c] \in Nat /\ sessions' = [sessions EXCEPT ![c] = sessions[c] + 1]
      /\ sessions' \in [Clients -> 0..MaxSessions]
  BY <1>0 DEF transmissionStart, ServerInv, WelcomeWhileRoom, UDPTypeOK
<1>2. UNCHANGED <<requests, net, inbox, threads, threadCount, welcome, replies>>
  BY Zenon DEF transmissionStart, server
<1>3. ClientInv'
  <2>1. client' = [client EXCEPT
                     ![c] = [state |-> "CONNECTED", left |-> RequestsPerSession]]
    BY Zenon DEF transmissionStart
  <2>2. client' \in [Clients -> ClientThread]
    BY <1>0, <2>1 DEF ServerInv, ClientInv, ClientThread
  <2>3. /\ Sent(sessions[c]) \in Nat
        /\ Sent(sessions'[c]) = Sent(sessions[c]) + RequestsPerSession + 1
    BY Zenon, <1>1, SentResult DEF ServerInv, WelcomeWhileRoom, UDPTypeOK
  <2>4. requests[c] \in Nat /\ requests[c] <= Sent(sessions[c])
    BY SentResult DEF ServerInv, WelcomeWhileRoom, UDPTypeOK, ClientInv
  <2>5. /\ client'[c].state = "CONNECTED" /\ client'[c].left = RequestsPerSession
        /\ \A d \in Clients \ {c} : client'[d] = client[d] /\ sessions'[d] = sessions[d]
    BY Zenon, <1>1, <2>1 DEF ServerInv, ClientInv, WelcomeWhileRoom, UDPTypeOK
  <2>6. /\ requests[c] <= Sent(sessions'[c])
        /\ requests[c] + RequestsPerSession + 1 <= Sent(sessions'[c])
    BY <1>0, <2>3, <2>4
  <2>7. ASSUME NEW d \in Clients
        PROVE  /\ requests'[d] <= Sent(sessions'[d])
               /\ client'[d].state = "CONNECTED" =>
                    /\ client'[d].left >= 0
                    /\ requests'[d] + client'[d].left + 1 <= Sent(sessions'[d])
    <3>1. CASE d = c
      BY SMTT(30), <1>0, <1>2, <2>5, <2>6, <3>1
    <3>2. CASE d # c
      BY Zenon, <1>2, <2>5, <3>2 DEF ServerInv, ClientInv
    <3> QED
      BY Zenon, <3>1, <3>2
  <2> QED
    BY Zenon, <1>2, <2>2, <2>7 DEF ServerInv, ClientInv, Sent
<1>4. UDPTypeOK'
  BY Zenon, <1>1, <1>2, <1>3, ClientTypes DEF ServerInv, WelcomeWhileRoom, UDPTypeOK
<1> QED
  BY <1>2, <1>3, <1>4, ServerKept

\* A request: one more sent, one fewer left, and its number is within its bound.
LEMMA RequestServer ==
    ASSUME ServerInv, NEW c \in Clients, sendRequest(c)
    PROVE  ServerInv'
<1> DEFINE left == client[c].left - 1
<1>0. RequestsPerSession \in Nat
  BY Zenon, ConstantsAssumption
<1>1. /\ requests' = [requests EXCEPT ![c] = requests[c] + 1]
      /\ client' = [client EXCEPT ![c] =
             [state |-> IF left <= 0 THEN "DISCONNECTED" ELSE "CONNECTED",
              left |-> left]]
      /\ net' = net \cup {<<c, requests[c] + 1>>}
      /\ UNCHANGED <<sessions, inbox, threads, threadCount, welcome, replies>>
  BY Zenon DEF sendRequest, server
<1>2. /\ requests[c] \in Nat /\ client[c].left \in 0..RequestsPerSession
      /\ requests[c] + client[c].left + 1 <= Sent(sessions[c])
      /\ Sent(sessions[c]) \in Nat /\ Sent(sessions[c]) <= MaxRequests
      /\ MaxRequests \in Nat
  <2>1. /\ client[c].left \in -1..RequestsPerSession /\ client[c].left >= 0
        /\ requests[c] + client[c].left + 1 <= Sent(sessions[c])
    BY Zenon, <1>0 DEF sendRequest, ServerInv, ClientInv, ClientThread
  <2>2. requests[c] \in Nat /\ sessions[c] \in 0..MaxSessions /\ sessions[c] \in Nat
    BY SMTT(30), SentResult, ConstantsAssumption DEF ServerInv, WelcomeWhileRoom, UDPTypeOK
  <2> QED
    BY <1>0, <2>1, <2>2, SentResult
<1>3. /\ left \in -1..RequestsPerSession
      /\ requests[c] + 1 \in 1..MaxRequests /\ requests[c] + 1 <= Sent(sessions[c])
      /\ (requests[c] + 1) + left + 1 <= Sent(sessions[c])
  BY <1>0, <1>2
<1>4. ClientInv'
  <2>1. client' \in [Clients -> ClientThread]
    <3> HIDE DEF left
    <3> QED
      BY Zenon, <1>1, <1>3 DEF ServerInv, ClientInv, ClientThread
  <2>2. /\ client'[c].state = "CONNECTED" => left > 0
        /\ client'[c].left = left /\ requests'[c] = requests[c] + 1
    <3> HIDE DEF left
    <3> QED
      BY <1>0, <1>1, <1>3 DEF ServerInv, ClientInv, WelcomeWhileRoom, UDPTypeOK
  <2> HIDE DEF left
  <2>4. ASSUME NEW d \in Clients, d # c
        PROVE  client'[d] = client[d] /\ requests'[d] = requests[d]
    BY Zenon, <1>1, <2>4 DEF ServerInv, ClientInv, WelcomeWhileRoom, UDPTypeOK
  <2>3. ASSUME NEW d \in Clients
        PROVE  /\ requests'[d] <= Sent(sessions[d])
               /\ client'[d].state = "CONNECTED" =>
                    /\ client'[d].left >= 0
                    /\ requests'[d] + client'[d].left + 1 <= Sent(sessions[d])
    <3>1. CASE d = c
      <4>1. left > 0 => left >= 0
        BY <1>0, <1>3
      <4> QED
        BY Zenon, <1>3, <2>2, <3>1, <4>1
    <3>2. CASE d # c
      BY Zenon, <2>4, <3>2 DEF ServerInv, ClientInv
    <3> QED
      BY Zenon, <3>1, <3>2
  <2> QED
    BY Zenon, <1>1, <2>1, <2>3 DEF ServerInv, ClientInv, Sent
<1>5. /\ requests' \in [Clients -> 0..MaxRequests]
      /\ net' \subseteq Request
  <2> DEFINE n == requests[c] + 1
  <2>1. n \in 0..MaxRequests
    BY <1>2, <1>3
  <2>2. <<c, n>> \in Request
    BY <1>3 DEF Request
  <2> HIDE DEF n
  <2>3. requests' = [requests EXCEPT ![c] = n] /\ net' = net \cup {<<c, n>>}
    BY Zenon, <1>1 DEF n
  <2> QED
    BY Zenon, <2>1, <2>2, <2>3 DEF ServerInv, WelcomeWhileRoom, UDPTypeOK
<1>6. UDPTypeOK'
  BY Zenon, <1>1, <1>4, <1>5, ClientTypes DEF ServerInv, WelcomeWhileRoom, UDPTypeOK
<1> QED
  BY Zenon, <1>1, <1>4, <1>6, ServerKept

\* The other steps of a client: it is not connected after them, and has sent
\* nothing.
LEMMA ClientRests ==
    ASSUME ServerInv, NEW c \in Clients, NEW new \in ClientThread,
           new.state # "CONNECTED", client' = [client EXCEPT ![c] = new],
           UNCHANGED <<sessions, requests, net, server>>
    PROVE  ServerInv'
<1>1. UNCHANGED <<inbox, threads, threadCount, welcome, replies>>
  BY Zenon DEF server
<1>2. ClientInv'
  <2>1. /\ client' \in [Clients -> ClientThread] /\ client'[c] = new
        /\ \A d \in Clients \ {c} : client'[d] = client[d]
    BY Zenon DEF ServerInv, ClientInv
  <2>2. ASSUME NEW d \in Clients
        PROVE  /\ requests[d] <= Sent(sessions[d])
               /\ client'[d].state = "CONNECTED" =>
                    /\ client'[d].left >= 0
                    /\ requests[d] + client'[d].left + 1 <= Sent(sessions[d])
    BY Zenon, <2>1 DEF ServerInv, ClientInv
  <2> QED
    BY Zenon, <1>1, <2>1, <2>2 DEF ServerInv, ClientInv, Sent
<1>3. UDPTypeOK'
  BY Zenon, <1>1, <1>2, ClientTypes DEF ServerInv, WelcomeWhileRoom, UDPTypeOK
<1> QED
  BY Zenon, <1>1, <1>2, <1>3, ServerKept

\* The end of a session, and of its thread.
LEMMA ClientEndsServer ==
    ASSUME ServerInv, NEW c \in Clients, Disconnect(c) \/ Finish(c)
    PROVE  ServerInv'
<1>1. client[c] \in ClientThread
  BY DEF ServerInv, ClientInv
<1>2. CASE Disconnect(c)
  <2> DEFINE new == [client[c] EXCEPT !.state = "FINISH"]
  <2>1. client' = [client EXCEPT ![c] = new]
    BY <1>2 DEF Disconnect
  <2>2. new \in ClientThread /\ new.state # "CONNECTED"
    BY <1>1 DEF ClientThread
  <2> HIDE DEF new
  <2> QED
    BY Zenon, <1>2, <2>1, <2>2, ClientRests DEF Disconnect
<1>3. CASE Finish(c)
  <2>1. NoThread \in ClientThread /\ NoThread.state # "CONNECTED"
    BY ConstantsAssumption DEF NoThread, ClientThread
  <2> QED
    BY Zenon, <1>3, <2>1, ClientRests DEF Finish
<1> QED
  BY Zenon, <1>2, <1>3

\* A reply: the flag of the last one is never set, so it is deleted.
LEMMA HandleReplyServer ==
    ASSUME ServerInv, NEW m \in replies, HandleReply(m)
    PROVE  ServerInv'
<1>1. m.last = FALSE
  BY DEF ServerInv, ClientInv
<1>2. /\ UNCHANGED <<client, sessions, requests, net, inbox, threads, threadCount,
                     welcome>>
      /\ replies' \subseteq replies
  BY Zenon, <1>1 DEF HandleReply
<1>3. ClientInv' /\ UDPTypeOK'
  BY <1>2 DEF ServerInv, ClientInv, WelcomeWhileRoom, UDPTypeOK, Sent
<1> QED
  BY Zenon, <1>2, <1>3, ServerKept

\* The network: a request is lost, or copied for every socket that matches.
LEMMA NetworkServer ==
    ASSUME ServerInv, NEW r \in net, Lose(r) \/ Deliver(r)
    PROVE  ServerInv'
<1>1. /\ UNCHANGED <<client, sessions, requests, threads, threadCount, welcome, replies>>
      /\ net' \subseteq net
  BY Zenon DEF Lose, Deliver, server
<1>2. inbox' \in [Request -> Nat]
  <2>1. CASE Lose(r)
    BY <2>1 DEF Lose, server, ServerInv, WelcomeWhileRoom, UDPTypeOK
  <2>2. CASE Deliver(r)
    <3> DEFINE matches == Cardinality(ThreadsOf(r[1])) + (IF welcome THEN 1 ELSE 0)
    <3>1. Cardinality(ThreadsOf(r[1])) \in Nat
      <4>1. ThreadsOf(r[1]) \in SUBSET threads
        BY DEF ThreadsOf
      <4> QED
        BY Zenon, <4>1, FS_Subset, FS_CardinalityType DEF ServerInv, ThreadsInv
    <3>2. matches \in Nat
      BY <3>1
    <3>3. inbox' = [inbox EXCEPT ![r] = inbox[r] + matches]
      BY Zenon, <2>2 DEF Deliver
    <3> HIDE DEF matches
    <3>4. inbox \in [Request -> Nat] /\ r \in Request
      BY Zenon DEF ServerInv, WelcomeWhileRoom, UDPTypeOK
    <3> QED
      BY <3>2, <3>3, <3>4
  <2> QED
    BY Zenon, <2>1, <2>2
<1>3. ClientInv' /\ UDPTypeOK'
  BY Zenon, <1>1, <1>2 DEF ServerInv, ClientInv, WelcomeWhileRoom, UDPTypeOK, Sent
<1> QED
  BY Zenon, <1>1, <1>3, ServerKept

\* A step of the server leaves the clients alone.
LEMMA ClientsKept ==
    ASSUME ServerInv, UNCHANGED <<client, sessions, requests, net>>,
           \A m \in replies' : m.last = FALSE,
           inbox' \in [Request -> Nat], ThreadsInv',
           threadCount' \in Nat, welcome' \in BOOLEAN
    PROVE  ClientInv' /\ UDPTypeOK'
<1>1. \A t \in threads' : t.to \in Clients /\ t.left \in -1..ReplyPerRequest
  BY DEF ThreadsInv, ServerThread
<1> QED
  BY Zenon, <1>1 DEF ServerInv, ClientInv, WelcomeWhileRoom, UDPTypeOK, Sent

\* A request: a thread with a socket of its own, so there is one more; the
\* welcome socket is closed with the last that has room.
LEMMA HandleRequestServer ==
    ASSUME ServerInv, NEW r \in Request, HandleRequest(r)
    PROVE  ServerInv'
<1> DEFINE new == [id |-> FreeId, to |-> r[1], state |-> "CONNECTED",
                   left |-> ReplyPerRequest, number |-> FirstNumber]
<1>1. /\ threads' = threads \cup {new} /\ threadCount' = threadCount + 1
      /\ welcome' = (welcome /\ Accepts(threadCount + 1))
      /\ inbox[r] > 0 /\ inbox' = [inbox EXCEPT ![r] = inbox[r] - 1]
      /\ UNCHANGED <<client, sessions, requests, net, replies>>
  BY DEF HandleRequest
<1>2. FreeId \in Nat /\ \A t \in threads : t.id # FreeId
  BY Zenon, FreeIdResult DEF ServerInv, ThreadsInv
<1>3. new \in ServerThread /\ new.id = FreeId /\ new.left >= 0
  <2>1. r[1] \in Clients /\ ReplyPerRequest \in Nat /\ FirstNumber \in Nat
    BY ConstantsAssumption DEF Request, FirstNumber
  <2> QED
    BY <1>2, <2>1 DEF ServerThread
<1> HIDE DEF new
<1>4. new \notin threads
  BY Zenon, <1>2, <1>3
<1>5. ThreadsInv' /\ Cardinality(threads') = Cardinality(threads) + 1
  <2>1. IsFiniteSet(threads') /\ Cardinality(threads') = Cardinality(threads) + 1
    BY Zenon, <1>1, <1>4, FS_AddElement DEF ServerInv, ThreadsInv
  <2>2. \A t, u \in threads' : t.id = u.id => t = u
    BY Zenon, <1>1, <1>2, <1>3 DEF ServerInv, ThreadsInv
  <2>3. /\ threads' \subseteq ServerThread
        /\ \A t \in threads' : t.state = "CONNECTED" => t.left >= 0
    BY <1>1, <1>3 DEF ServerInv, ThreadsInv
  <2> QED
    BY Zenon, <2>1, <2>2, <2>3 DEF ThreadsInv, ServerThread
<1>6. inbox' \in [Request -> Nat]
  <2>1. inbox \in [Request -> Nat]
    BY Zenon DEF ServerInv, WelcomeWhileRoom, UDPTypeOK
  <2>2. inbox[r] - 1 \in Nat
    BY <1>1, <2>1
  <2> QED
    BY Zenon, <1>1, <2>1, <2>2
<1>7. /\ threadCount \in Nat /\ threadCount' \in Nat /\ welcome' \in BOOLEAN
      /\ threadCount' = Cardinality(threads')
      /\ welcome' <=> threadCount' < MaxThreadCount
  <2>1. /\ threadCount \in Nat /\ threadCount = Cardinality(threads)
        /\ welcome <=> threadCount < MaxThreadCount
    BY Zenon DEF ServerInv, WelcomeWhileRoom, UDPTypeOK
  <2>2. threadCount' = Cardinality(threads') /\ threadCount' \in Nat
    BY SMTT(30), <1>1, <1>5, <2>1
  <2>3. threadCount < MaxThreadCount /\ threadCount + 1 # MaxThreadCount
        <=> threadCount' < MaxThreadCount
    BY <1>1, <2>1, ConstantsAssumption
  <2>4. welcome' <=> welcome /\ threadCount + 1 # MaxThreadCount
    BY Zenon, <1>1 DEF Accepts
  <2>5. welcome' \in BOOLEAN
    BY <1>1, Zenon
  <2> QED
    BY Zenon, <2>1, <2>2, <2>3, <2>4, <2>5
<1>8. ClientInv' /\ UDPTypeOK'
  BY Zenon, <1>1, <1>5, <1>6, <1>7, ClientsKept DEF ServerInv, ClientInv
<1> QED
  BY Zenon, <1>5, <1>7, <1>8 DEF ServerInv, WelcomeWhileRoom

\* A reply of a thread: the thread goes on under its own id.
LEMMA sendReplyServer ==
    ASSUME ServerInv, NEW t \in threads, sendReply(t)
    PROVE  ServerInv'
<1> DEFINE new == [t EXCEPT !.left = t.left - 1, !.number = t.number + 1,
                            !.state = IF t.left - 1 <= 0 THEN "DISCONNECTED"
                                                         ELSE "CONNECTED"]
<1>1. /\ threads' = (threads \ {t}) \cup {new}
      /\ UNCHANGED <<client, sessions, requests, net, inbox, threadCount, welcome>>
      /\ \A m \in replies' : m \in replies \/ m.last = FALSE
  BY DEF sendReply
<1>2. t \in ServerThread /\ t.left >= 0 /\ ReplyPerRequest \in Nat
  BY Zenon, ConstantsAssumption DEF sendReply, ServerInv, ThreadsInv
<1>3. /\ new \in ServerThread /\ new.id = t.id
      /\ new.state = "CONNECTED" => new.left >= 0
  <2>1. /\ t.left - 1 \in -1..ReplyPerRequest /\ t.number + 1 \in Nat
    BY <1>2 DEF ServerThread
  <2> DEFINE state == IF t.left - 1 <= 0 THEN "DISCONNECTED" ELSE "CONNECTED"
             left == t.left - 1
             number == t.number + 1
  <2>2. /\ state \in {"CONNECTED", "DISCONNECTED"}
        /\ state = "CONNECTED" => left >= 0
    BY <2>1
  <2>3. new = [t EXCEPT !.left = left, !.number = number, !.state = state]
    BY Zenon
  <2> HIDE DEF state, left, number, new
  <2>4. /\ new \in ServerThread /\ new.id = t.id
        /\ new.state = state /\ new.left = left
    BY Zenon, <1>2, <2>1, <2>2, <2>3 DEF ServerThread, left, number
  <2> QED
    BY <2>2, <2>4
<1> HIDE DEF new
<1>4. new \notin threads \ {t}
  BY Zenon, <1>3 DEF ServerInv, ThreadsInv
<1>5. ThreadsInv' /\ Cardinality(threads') = Cardinality(threads)
  <2>1. /\ IsFiniteSet(threads \ {t})
        /\ Cardinality(threads \ {t}) = Cardinality(threads) - 1
        /\ Cardinality(threads) \in Nat
    BY Zenon, FS_RemoveElement, FS_CardinalityType DEF ServerInv, ThreadsInv
  <2>2. /\ IsFiniteSet(threads')
        /\ Cardinality(threads') = Cardinality(threads \ {t}) + 1
    BY Zenon, <1>1, <1>4, <2>1, FS_AddElement
  <2>3. Cardinality(threads') = Cardinality(threads)
    BY <2>1, <2>2
  <2>4. \A u, v \in threads' : u.id = v.id => u = v
    BY Zenon, <1>1, <1>3 DEF ServerInv, ThreadsInv
  <2>5. /\ threads' \subseteq ServerThread
        /\ \A u \in threads' : u.state = "CONNECTED" => u.left >= 0
    BY <1>1, <1>3 DEF ServerInv, ThreadsInv
  <2> QED
    BY Zenon, <2>2, <2>3, <2>4, <2>5 DEF ThreadsInv, ServerThread
<1>6. ClientInv' /\ UDPTypeOK'
  <2>1. \A m \in replies' : m.last = FALSE
    BY Zenon, <1>1 DEF ServerInv, ClientInv
  <2>2. inbox' \in [Request -> Nat] /\ threadCount' \in Nat /\ welcome' \in BOOLEAN
    <3>1. inbox \in [Request -> Nat] /\ threadCount \in Nat /\ welcome \in BOOLEAN
      BY Zenon DEF ServerInv, WelcomeWhileRoom, UDPTypeOK
    <3> QED
      BY <1>1, <3>1, Zenon
  <2> QED
    BY Zenon, <1>1, <1>5, <2>1, <2>2, ClientsKept
<1> QED
  BY Zenon, <1>1, <1>5, <1>6 DEF ServerInv, WelcomeWhileRoom

\* The end of a thread: there is one fewer, and the welcome socket is bound when
\* there is room again.
LEMMA removeThreadServer ==
    ASSUME ServerInv, NEW t \in threads, removeThread(t)
    PROVE  ServerInv'
<1>1. /\ threads' = threads \ {t} /\ threadCount' = threadCount - 1
      /\ welcome' = (welcome \/ threadCount - 1 = MaxThreadCount - 1)
      /\ UNCHANGED <<client, sessions, requests, net, inbox, replies>>
  BY Zenon DEF removeThread
<1>2. /\ threadCount \in Nat /\ threadCount = Cardinality(threads)
      /\ welcome <=> threadCount < MaxThreadCount
      /\ MaxThreadCount \in Nat
  BY Zenon, ConstantsAssumption DEF ServerInv, WelcomeWhileRoom, UDPTypeOK
<1>3. /\ ThreadsInv' /\ Cardinality(threads') = Cardinality(threads) - 1
      /\ Cardinality(threads') \in Nat
  <2>1. IsFiniteSet(threads') /\ Cardinality(threads') = Cardinality(threads) - 1
    BY Zenon, <1>1, FS_RemoveElement DEF ServerInv, ThreadsInv
  <2>2. Cardinality(threads') \in Nat
    BY Zenon, <2>1, FS_CardinalityType
  <2>3. threads' \subseteq threads
    BY Zenon, <1>1
  <2> QED
    BY Zenon, <2>1, <2>2, <2>3 DEF ServerInv, ThreadsInv, ServerThread
<1>4. /\ threadCount' \in Nat /\ threadCount' = Cardinality(threads')
      /\ welcome' <=> threadCount' < MaxThreadCount
      /\ welcome' \in BOOLEAN
  <2>1. threadCount' = Cardinality(threads') /\ threadCount' \in Nat
    BY Zenon, <1>1, <1>2, <1>3
  <2>2. threadCount < MaxThreadCount \/ threadCount - 1 = MaxThreadCount - 1
        <=> threadCount' < MaxThreadCount
    BY <1>1, <1>2
  <2>3. welcome' <=> welcome \/ threadCount - 1 = MaxThreadCount - 1
    BY Zenon, <1>1
  <2>4. welcome' \in BOOLEAN
    BY <1>1, Zenon
  <2> QED
    BY Zenon, <1>2, <2>1, <2>2, <2>3, <2>4
<1>5. ClientInv' /\ UDPTypeOK'
  <2>1. \A m \in replies' : m.last = FALSE
    BY Zenon, <1>1 DEF ServerInv, ClientInv
  <2>2. inbox' \in [Request -> Nat]
    BY Zenon, <1>1 DEF ServerInv, WelcomeWhileRoom, UDPTypeOK
  <2> QED
    BY Zenon, <1>1, <1>3, <1>4, <2>1, <2>2, ClientsKept
<1> QED
  BY Zenon, <1>3, <1>4, <1>5 DEF ServerInv, WelcomeWhileRoom

\* The counter, the threads and the welcome socket agree in every reachable
\* state, for any clients, sessions and limit.
THEOREM ServerInvariance == UDPSpec => []ServerInv
<1>1. ASSUME ServerInv, [UDPNext]_udpVars PROVE ServerInv'
  <2>1. CASE UNCHANGED udpVars
    <3>1. UNCHANGED <<client, sessions, requests, net, inbox, threads, threadCount,
                      welcome, replies>>
      BY Zenon, <2>1 DEF udpVars
    <3>2. ClientInv' /\ UDPTypeOK'
      BY Zenon, <1>1, <3>1 DEF ServerInv, ClientInv, WelcomeWhileRoom, UDPTypeOK,
         Sent
    <3> QED
      BY Zenon, <1>1, <3>1, <3>2, ServerKept
  <2>2. ASSUME NEW c \in Clients, transmissionStart(c) \/ ClientTimer(c) PROVE ServerInv'
    BY Zenon, <1>1, <2>2, StartServer, RequestServer, ClientEndsServer
       DEF ClientTimer
  <2>3. ASSUME NEW r \in net, Lose(r) \/ Deliver(r) PROVE ServerInv'
    BY <1>1, <2>3, NetworkServer
  <2>4. ASSUME NEW m \in replies, HandleReply(m) PROVE ServerInv'
    BY Zenon, <1>1, <2>4, HandleReplyServer
  <2>5. ASSUME ServerStep PROVE ServerInv'
    BY Zenon, <1>1, <2>5, HandleRequestServer, sendReplyServer, removeThreadServer
       DEF ServerStep
  <2> QED
    BY Zenon, <1>1, <2>1, <2>2, <2>3, <2>4, <2>5 DEF UDPNext
<1> QED
  BY <1>1, ServerInit, PTL DEF UDPSpec

\* The counter of the server is the number of its threads and its welcome socket
\* is bound exactly while there is room, although requests that come in through
\* connected sockets pass the limit.
THEOREM WelcomeSafety == UDPSpec => []WelcomeWhileRoom
<1>1. ServerInv => WelcomeWhileRoom
  BY DEF ServerInv
<1> QED
  BY <1>1, ServerInvariance, PTL

=============================================================================
