---------------------------- MODULE TrafficProofs ----------------------------
(***************************************************************************)
(* What makes traffic and what counts it, three components that do not     *)
(* share any state, each on its own: the flow exporter, for any number of  *)
(* keys, any timeouts and any length of the simulation; the zombie of      *)
(* TribeFloodNetwork, for any number of attacks and any limits; and the    *)
(* choice of a transmission (TrafficGenerator), for every set of networks, *)
(* profiles and servers and every limit of the runs.                       *)
(***************************************************************************)
EXTENDS FlowExporter, TribeFloodNetwork, TrafficGenerator, WellFoundedInduction,
        TLAPS

\* The timeouts in use are ones that were set, and a packet is handled only
\* with both of them set.
SettingsInv ==
    /\ flow_timeout # -1 => \E s \in Settings : flow_timeout = s[1]
    /\ idle_timeout # -1 => \E s \in Settings : idle_timeout = s[2]
    /\ rpc # -1 => \E s \in Settings : rpc = s[2]
    /\ handler.at # "idle" => Enabled
    /\ handler.at = "compare" =>
          /\ InTable(handler.key)
          /\ \E s \in Settings : handler.flow = s[1]

\* The message of a packet in the handler is fresh: not scheduled, not freed
\* and not yet known to a record.
FreshInv ==
    /\ deleted \subseteq {i \in Nat : i < nextId}
    /\ \A e \in fes : e.id < nextId
    /\ handler.at # "idle" =>
          /\ handler.msg < nextId
          /\ handler.msg \notin deleted
          /\ \A e \in fes : e.id # handler.msg
          /\ \A k \in Keys : InTable(k) => table[k].pointer # handler.msg

\* A record points to an allocated message, which is not freed; if it is
\* scheduled, it is an expiry message of the record's own key.
PointerInv ==
    \A k \in Keys : InTable(k) =>
        /\ table[k].pointer < nextId
        /\ table[k].pointer \notin deleted
        /\ \A e \in fes :
              e.id = table[k].pointer => e.key = k /\ e.kind = "expiry"

\* A record, also the one about to be inserted, has a timeout message.
HasTimeout(k, start) ==
    \E e \in fes : /\ e.key = k
                   /\ e.kind = "timeout"
                   /\ \E s \in Settings : e.time <= start + s[1]

TimeoutInv ==
    /\ \A k \in Keys : InTable(k) => HasTimeout(k, table[k].start)
    /\ handler.at = "expiry" /\ ~InTable(handler.key)
          => HasTimeout(handler.key, now)

\* Some message of a record's key is due before the record has been idle for
\* idle_timeout, except while a packet of the flow is being handled.
Handling(k) == handler.at # "idle" /\ handler.key = k

IdleInv ==
    \A k \in Keys : InTable(k) =>
        IF Handling(k)
        THEN table[k].end = now
        ELSE \E e \in fes : /\ e.key = k
                            /\ \E s \in Settings : e.time <= table[k].end + s[2]

\* The inductive invariant.
IInv ==
    /\ TypeOK
    /\ SettingsInv
    /\ NothingInThePast
    /\ FreshInv
    /\ PointerInv
    /\ TimeoutInv
    /\ PacketsAccounted
    /\ OneSetting => IdleInv

-----------------------------------------------------------------------------

\* The initial state, with an empty table and no timeouts, satisfies IInv.
LEMMA InitIInv == Init => IInv
<1> SUFFICES ASSUME Init PROVE IInv
  OBVIOUS
<1>1. TypeOK
  BY ConstantsAssumption DEF Init, TypeOK, Handler, Idle, Flow
<1>2. SettingsInv /\ NothingInThePast /\ FreshInv
  BY DEF Init, SettingsInv, NothingInThePast, FreshInv, Idle
<1>3. PointerInv /\ TimeoutInv /\ PacketsAccounted /\ IdleInv
  BY DEF Init, PointerInv, TimeoutInv, PacketsAccounted, IdleInv, InTable,
         InHand, Idle
<1> QED
  BY <1>1, <1>2, <1>3 DEF IInv

\* setTimeouts: the first write.
LEMMA SetFlowTimeoutIInv ==
    ASSUME IInv, NEW s \in Settings, SetFlowTimeout(s)
    PROVE  IInv'
<1> USE ConstantsAssumption
<1>a. TypeOK /\ SettingsInv /\ NothingInThePast /\ FreshInv /\ PointerInv
      /\ TimeoutInv /\ PacketsAccounted /\ (OneSetting => IdleInv)
  BY DEF IInv
<1>1. TypeOK'
  BY <1>a DEF SetFlowTimeout, TypeOK, Flow, Event, Handler, Idle
<1>2. SettingsInv'
  BY <1>a DEF SetFlowTimeout, SettingsInv, TypeOK, Enabled, InTable,
     Handler, Idle, Flow
<1>3. NothingInThePast'
  BY <1>a DEF SetFlowTimeout, NothingInThePast, TypeOK, Event, SettingsInv,
     Enabled, Idle
<1>4. FreshInv'
  BY <1>a DEF SetFlowTimeout, FreshInv, PointerInv, TypeOK, Event, Handler,
     Idle, InTable, Flow
<1>5. PointerInv'
  BY <1>a DEF SetFlowTimeout, PointerInv, FreshInv, TypeOK, Event, Handler,
     Idle, InTable, Flow
<1>6. TimeoutInv'
  BY <1>a DEF SetFlowTimeout, TimeoutInv, HasTimeout, PointerInv,
     SettingsInv, Enabled, TypeOK, Event, Handler, Idle, InTable, Flow
<1>7. PacketsAccounted'
  BY <1>a DEF SetFlowTimeout, PacketsAccounted, InHand, SettingsInv, TypeOK,
     Handler, Idle, InTable, Flow
<1>8. (OneSetting => IdleInv)'
  BY <1>a DEF SetFlowTimeout, OneSetting, IdleInv, Handling, TimeoutInv,
     HasTimeout, PointerInv, SettingsInv, Enabled, TypeOK, Event, Handler,
     Idle, InTable, Flow
<1> QED
  BY <1>1, <1>2, <1>3, <1>4, <1>5, <1>6, <1>7, <1>8 DEF IInv

\* setTimeouts: the second write.
LEMMA SetIdleTimeoutIInv ==
    ASSUME IInv, SetIdleTimeout
    PROVE  IInv'
<1> USE ConstantsAssumption
<1>a. TypeOK /\ SettingsInv /\ NothingInThePast /\ FreshInv /\ PointerInv
      /\ TimeoutInv /\ PacketsAccounted /\ (OneSetting => IdleInv)
  BY DEF IInv
<1>1. TypeOK'
  BY <1>a DEF SetIdleTimeout, TypeOK, Flow, Event, Handler, Idle
<1>2. SettingsInv'
  BY <1>a DEF SetIdleTimeout, SettingsInv, TypeOK, Enabled, InTable,
     Handler, Idle, Flow
<1>3. NothingInThePast'
  BY <1>a DEF SetIdleTimeout, NothingInThePast, TypeOK, Event, SettingsInv,
     Enabled, Idle
<1>4. FreshInv'
  BY <1>a DEF SetIdleTimeout, FreshInv, PointerInv, TypeOK, Event, Handler,
     Idle, InTable, Flow
<1>5. PointerInv'
  BY <1>a DEF SetIdleTimeout, PointerInv, FreshInv, TypeOK, Event, Handler,
     Idle, InTable, Flow
<1>6. TimeoutInv'
  BY <1>a DEF SetIdleTimeout, TimeoutInv, HasTimeout, PointerInv,
     SettingsInv, Enabled, TypeOK, Event, Handler, Idle, InTable, Flow
<1>7. PacketsAccounted'
  BY <1>a DEF SetIdleTimeout, PacketsAccounted, InHand, SettingsInv, TypeOK,
     Handler, Idle, InTable, Flow
<1>8. (OneSetting => IdleInv)'
  BY <1>a DEF SetIdleTimeout, OneSetting, IdleInv, Handling, TimeoutInv,
     HasTimeout, PointerInv, SettingsInv, Enabled, TypeOK, Event, Handler,
     Idle, InTable, Flow
<1> QED
  BY <1>1, <1>2, <1>3, <1>4, <1>5, <1>6, <1>7, <1>8 DEF IInv

\* A packet of a known flow cancels only an expiry message of its own key.
LEMMA KnownFlowIInv ==
    ASSUME IInv, NEW k \in Keys, PacketOfKnownFlow(k)
    PROVE  IInv'
<1> USE ConstantsAssumption
<1>a. TypeOK /\ SettingsInv /\ NothingInThePast /\ FreshInv /\ PointerInv
      /\ TimeoutInv /\ PacketsAccounted /\ (OneSetting => IdleInv)
  BY DEF IInv
<1>b. table[k] \in Flow /\ nextId \in Nat /\ now \in Nat
  BY <1>a DEF PacketOfKnownFlow, TypeOK
<1>c. /\ table'[k] \in Flow
      /\ table'[k].start = table[k].start
      /\ table'[k].pointer = table[k].pointer
      /\ table'[k].end = now
      /\ table'[k].packet_count = table[k].packet_count + 1
  <2> DEFINE f == [table[k] EXCEPT !.packet_count = table[k].packet_count + 1]
             g == [f EXCEPT !.end = now]
  <2>1. /\ f \in Flow
        /\ f.start = table[k].start
        /\ f.pointer = table[k].pointer
        /\ f.packet_count = table[k].packet_count + 1
    BY <1>b DEF Flow
  <2> HIDE DEF f
  <2>2. /\ g \in Flow
        /\ g.start = f.start
        /\ g.pointer = f.pointer
        /\ g.end = now
        /\ g.packet_count = f.packet_count
    BY <1>b, <2>1 DEF Flow
  <2>3. table'[k] = g
    BY <1>a DEF PacketOfKnownFlow, TypeOK, f
  <2> HIDE DEF g
  <2> QED
    BY <2>1, <2>2, <2>3
<1>d. \A j \in Keys : j # k => table'[j] = table[j]
  BY <1>a DEF PacketOfKnownFlow, TypeOK
<1>e. handler' = [at |-> "compare", key |-> k, flow |-> flow_timeout,
                  msg |-> nextId]
  BY DEF PacketOfKnownFlow, ExpiryMessage
<1>1. TypeOK'
  <2>1. table' \in [Keys -> Flow \cup {NoFlow}]
    BY <1>a, <1>c, <1>d DEF PacketOfKnownFlow, TypeOK
  <2>2. handler' \in Handler
    BY <1>a, <1>b, <1>e DEF TypeOK, Handler
  <2> QED
    BY <1>a, <2>1, <2>2 DEF PacketOfKnownFlow, CancelEvent, TypeOK
<1>2. SettingsInv'
  <2>1. flow_timeout # -1 /\ Enabled' /\ InTable(k)'
    BY Zenon, <1>a, <1>b, <1>c, ConstantsAssumption
       DEF PacketOfKnownFlow, Enabled, InTable, Flow
  <2> QED
    BY <1>a, <1>e, <2>1 DEF PacketOfKnownFlow, SettingsInv
<1>3. NothingInThePast'
  BY <1>a DEF PacketOfKnownFlow, CancelEvent, ExpiryMessage,
     NothingInThePast, TypeOK, Event, SettingsInv, Enabled, Idle
<1>4. FreshInv'
  BY <1>a DEF PacketOfKnownFlow, CancelEvent, ExpiryMessage, FreshInv,
     PointerInv, TypeOK, Event, Handler, Idle, InTable, Flow
<1>5. PointerInv'
  BY <1>a DEF PacketOfKnownFlow, CancelEvent, ExpiryMessage, PointerInv,
     FreshInv, TypeOK, Event, Handler, Idle, InTable, Flow
<1>6. TimeoutInv'
  <2>1. ASSUME NEW j \in Keys, InTable(j)'
        PROVE  HasTimeout(j, table[j].start)'
    <3>1. InTable(j) /\ table'[j].start = table[j].start
      BY <1>c, <1>d, <2>1 DEF InTable, PacketOfKnownFlow
    <3>2. PICK e \in fes :
              /\ e.key = j
              /\ e.kind = "timeout"
              /\ \E s \in Settings : e.time <= table[j].start + s[1]
      BY <1>a, <3>1 DEF TimeoutInv, HasTimeout
    <3>3. e \in fes'
      BY <1>a, <3>2 DEF PacketOfKnownFlow, CancelEvent, PointerInv, InTable
    <3> QED
      BY <3>1, <3>2, <3>3 DEF HasTimeout
  <2> QED
    BY <1>e, <2>1 DEF TimeoutInv
<1>7. PacketsAccounted'
  <2> SUFFICES ASSUME NEW j \in Keys
               PROVE  counted'[j] = exported'[j] + InHand(j)'
                         + (IF InTable(j)' THEN table'[j].packet_count ELSE 0)
    BY DEF PacketsAccounted
  <2>1. InHand(j) = 0 /\ InHand(j)' = 0 /\ exported' = exported
    BY <1>e DEF InHand, PacketOfKnownFlow, Idle
  <2>2. counted[j] = exported[j] + InHand(j)
                     + (IF InTable(j) THEN table[j].packet_count ELSE 0)
    BY <1>a DEF PacketsAccounted
  <2>3. CASE j = k
    <3>1. InTable(j) /\ InTable(j)'
      BY Zenon, <1>c, <2>3, ConstantsAssumption DEF InTable, PacketOfKnownFlow, Flow
    <3>2. counted'[j] = counted[j] + 1
      BY <1>a, <2>3 DEF PacketOfKnownFlow, TypeOK
    <3>3. table[j].packet_count \in Nat /\ exported[j] \in Nat
      BY <1>a, <1>b, <2>3 DEF TypeOK, Flow
    <3> QED
      BY <1>c, <2>1, <2>2, <2>3, <3>1, <3>2, <3>3
  <2>4. CASE j # k
    <3>1. counted'[j] = counted[j]
      BY <1>a, <2>4 DEF PacketOfKnownFlow, TypeOK
    <3> QED
      BY <1>d, <2>1, <2>2, <2>4, <3>1 DEF InTable
  <2> QED
    BY <2>3, <2>4
<1>8. (OneSetting => IdleInv)'
  BY <1>a DEF PacketOfKnownFlow, CancelEvent, ExpiryMessage, OneSetting,
     IdleInv, Handling, TimeoutInv, HasTimeout, PointerInv, SettingsInv,
     Enabled, TypeOK, Event, Handler, Idle, InTable, Flow
<1> QED
  BY <1>1, <1>2, <1>3, <1>4, <1>5, <1>6, <1>7, <1>8 DEF IInv

\* If the expiry message is not rescheduled, the timeout comes soon enough.
LEMMA CompareIInv ==
    ASSUME IInv, CompareDeadlines
    PROVE  IInv'
<1> USE ConstantsAssumption
<1>a. TypeOK /\ SettingsInv /\ NothingInThePast /\ FreshInv /\ PointerInv
      /\ TimeoutInv /\ PacketsAccounted /\ (OneSetting => IdleInv)
  BY DEF IInv
<1>1. TypeOK'
  BY <1>a DEF CompareDeadlines, ExpiresBeforeTimeout, TypeOK, Flow, Event,
     Handler, Idle
<1>2. SettingsInv'
  BY <1>a DEF CompareDeadlines, ExpiresBeforeTimeout, SettingsInv, TypeOK,
     Enabled, InTable, Handler, Idle, Flow
<1>3. NothingInThePast'
  BY <1>a DEF CompareDeadlines, ExpiresBeforeTimeout, NothingInThePast,
     TypeOK, Event, SettingsInv, Enabled, Idle
<1>4. FreshInv'
  BY <1>a DEF CompareDeadlines, ExpiresBeforeTimeout, FreshInv, PointerInv,
     TypeOK, Event, Handler, Idle, InTable, Flow
<1>5. PointerInv'
  BY <1>a DEF CompareDeadlines, ExpiresBeforeTimeout, PointerInv, FreshInv,
     TypeOK, Event, Handler, Idle, InTable, Flow
<1>6. TimeoutInv'
  BY SMTT(30), <1>a DEF CompareDeadlines, ExpiresBeforeTimeout, TimeoutInv,
     HasTimeout, PointerInv, SettingsInv, Enabled, TypeOK, Event, Handler,
     Idle, InTable, Flow
<1>7. PacketsAccounted'
  BY SMTT(30), <1>a DEF CompareDeadlines, ExpiresBeforeTimeout, PacketsAccounted,
     InHand, SettingsInv, TypeOK, Handler, Idle, InTable, Flow
<1>8. (OneSetting => IdleInv)'
  BY SMTT(30), <1>a DEF CompareDeadlines, ExpiresBeforeTimeout, OneSetting, IdleInv,
     Handling, TimeoutInv, HasTimeout, PointerInv, SettingsInv, Enabled,
     TypeOK, Event, Handler, Idle, InTable, Flow
<1> QED
  BY <1>1, <1>2, <1>3, <1>4, <1>5, <1>6, <1>7, <1>8 DEF IInv

\* A packet of a new flow schedules a timeout with a fresh message.
LEMMA NewFlowIInv ==
    ASSUME IInv, NEW k \in Keys, PacketOfNewFlow(k)
    PROVE  IInv'
<1> USE ConstantsAssumption
<1>a. TypeOK /\ SettingsInv /\ NothingInThePast /\ FreshInv /\ PointerInv
      /\ TimeoutInv /\ PacketsAccounted /\ (OneSetting => IdleInv)
  BY DEF IInv
<1>b. nextId \in Nat /\ now \in Nat /\ flow_timeout \in Nat
  BY <1>a DEF PacketOfNewFlow, TypeOK, Enabled
<1>c. handler' = [at |-> "expiry", key |-> k, msg |-> nextId]
  BY DEF PacketOfNewFlow, ExpiryMessage
<1>1. TypeOK'
  <2>1. fes' \subseteq Event
    BY <1>a, <1>b DEF PacketOfNewFlow, TimeoutMessage, TypeOK, Event
  <2>2. handler' \in Handler
    BY Zenon, <1>b, <1>c DEF Handler
  <2> QED
    BY SMTT(30), <1>a, <1>b, <2>1, <2>2 DEF PacketOfNewFlow, TypeOK
<1>2. SettingsInv'
  BY SMTT(30), <1>a DEF PacketOfNewFlow, ExpiryMessage, TimeoutMessage, SettingsInv,
     TypeOK, Enabled, InTable, Handler, Idle, Flow
<1>3. NothingInThePast'
  BY SMTT(30), <1>a DEF PacketOfNewFlow, ExpiryMessage, TimeoutMessage,
     NothingInThePast, TypeOK, Event, SettingsInv, Enabled, Idle
<1>4. FreshInv'
  BY SMTT(30), <1>a DEF PacketOfNewFlow, ExpiryMessage, TimeoutMessage, FreshInv,
     PointerInv, TypeOK, Event, Handler, Idle, InTable, Flow
<1>5. PointerInv'
  BY <1>a DEF PacketOfNewFlow, ExpiryMessage, TimeoutMessage, PointerInv,
     FreshInv, TypeOK, Event, Handler, Idle, InTable, Flow
<1>6. TimeoutInv'
  <2>1. ASSUME NEW j \in Keys, InTable(j)'
        PROVE  HasTimeout(j, table[j].start)'
    BY <1>a, <2>1 DEF PacketOfNewFlow, TimeoutInv, HasTimeout, InTable
  <2>2. HasTimeout(k, now)'
    <3> DEFINE e == [id |-> TimeoutMessage, key |-> k,
                     time |-> now + flow_timeout, kind |-> "timeout"]
    <3>1. e \in fes' /\ now' = now
      BY DEF PacketOfNewFlow
    <3>2. PICK s \in Settings : flow_timeout = s[1]
      BY <1>a, <1>b DEF SettingsInv
    <3>3. e.time <= now' + s[1]
      BY SMTT(30), <1>b, <3>1, <3>2
    <3> QED
      BY SMTT(30), <3>1, <3>3 DEF HasTimeout
  <2> QED
    BY SMTT(30), <1>c, <2>1, <2>2 DEF TimeoutInv
<1>7. PacketsAccounted'
  BY SMTT(30), <1>a DEF PacketOfNewFlow, ExpiryMessage, TimeoutMessage,
     PacketsAccounted, InHand, SettingsInv, TypeOK, Handler, Idle, InTable,
     Flow
<1>8. (OneSetting => IdleInv)'
  BY <1>a DEF PacketOfNewFlow, ExpiryMessage, TimeoutMessage, OneSetting,
     IdleInv, Handling, TimeoutInv, HasTimeout, PointerInv, SettingsInv,
     Enabled, TypeOK, Event, Handler, Idle, InTable, Flow
<1> QED
  BY <1>1, <1>2, <1>3, <1>4, <1>5, <1>6, <1>7, <1>8 DEF IInv

\* The record points to the fresh message that is scheduled.
LEMMA ScheduleExpiryIInv ==
    ASSUME IInv, ScheduleExpiry
    PROVE  IInv'
<1> USE ConstantsAssumption
<1>a. TypeOK /\ SettingsInv /\ NothingInThePast /\ FreshInv /\ PointerInv
      /\ TimeoutInv /\ PacketsAccounted /\ (OneSetting => IdleInv)
  BY DEF IInv
<1>b. /\ handler.key \in Keys /\ handler.msg \in Nat
      /\ now \in Nat /\ idle_timeout \in Nat
  BY <1>a DEF ScheduleExpiry, TypeOK, SettingsInv, Enabled, Handler
<1> DEFINE k == handler.key
<1>c. /\ table'[k] \in Flow
      /\ table'[k].pointer = handler.msg
      /\ table[k] = NoFlow => /\ table'[k].start = now
                              /\ table'[k].end = now
                              /\ table'[k].packet_count = 1
      /\ table[k] # NoFlow =>
            /\ table'[k].start = table[k].start
            /\ table'[k].end = table[k].end
            /\ table'[k].packet_count = table[k].packet_count
  BY <1>a, <1>b DEF ScheduleExpiry, TypeOK, Flow
<1>d. \A j \in Keys : j # k => table'[j] = table[j]
  BY <1>a, <1>b DEF ScheduleExpiry, TypeOK
<1>1. TypeOK'
  <2>1. table' \in [Keys -> Flow \cup {NoFlow}]
    BY <1>a, <1>b, <1>c, <1>d DEF ScheduleExpiry, TypeOK
  <2>2. fes' \subseteq Event
    BY <1>a, <1>b DEF ScheduleExpiry, TypeOK, Event
  <2> QED
    BY <1>a, <2>1, <2>2 DEF ScheduleExpiry, TypeOK, Handler, Idle
<1>2. SettingsInv'
  BY <1>a DEF ScheduleExpiry, SettingsInv, TypeOK, Enabled, InTable,
     Handler, Idle, Flow
<1>3. NothingInThePast'
  BY <1>a DEF ScheduleExpiry, NothingInThePast, TypeOK, Event, SettingsInv,
     Enabled, Idle
<1>4. FreshInv'
  BY <1>a DEF ScheduleExpiry, FreshInv, PointerInv, TypeOK, Event, Handler,
     Idle, InTable, Flow
<1>5. PointerInv'
  BY <1>a DEF ScheduleExpiry, PointerInv, FreshInv, TypeOK, Event, Handler,
     Idle, InTable, Flow
<1>6. TimeoutInv'
  BY <1>a DEF ScheduleExpiry, TimeoutInv, HasTimeout, PointerInv,
     SettingsInv, Enabled, TypeOK, Event, Handler, Idle, InTable, Flow
<1>7. PacketsAccounted'
  BY <1>a DEF ScheduleExpiry, PacketsAccounted, InHand, SettingsInv, TypeOK,
     Handler, Idle, InTable, Flow
<1>8. (OneSetting => IdleInv)'
  <2> SUFFICES ASSUME OneSetting, NEW j \in Keys, InTable(j)'
               PROVE  \E e \in fes' :
                         /\ e.key = j
                         /\ \E s \in Settings : e.time <= table'[j].end + s[2]
    BY Zenon DEF ScheduleExpiry, Idle, OneSetting, IdleInv, Handling
  <2>1. CASE j = k
    <3> DEFINE e == [id |-> handler.msg, key |-> k,
                     time |-> now + idle_timeout, kind |-> "expiry"]
    <3>1. e \in fes'
      BY DEF ScheduleExpiry
    <3>2. table'[k].end = now
      BY <1>a, <1>b, <1>c DEF ScheduleExpiry, IdleInv, Handling, InTable
    <3>3. PICK s \in Settings : idle_timeout = s[2]
      BY SMTT(30), <1>a, <1>b DEF SettingsInv
    <3>4. e.time <= table'[k].end + s[2]
      BY <1>b, <3>2, <3>3
    <3> QED
      BY <2>1, <3>1, <3>4
  <2>2. CASE j # k
    BY <1>a, <1>d, <2>2 DEF ScheduleExpiry, IdleInv, Handling, InTable
  <2> QED
    BY <2>1, <2>2
<1> QED
  BY <1>1, <1>2, <1>3, <1>4, <1>5, <1>6, <1>7, <1>8 DEF IInv

\* A self message frees itself and erases the only record that may know it.
LEMMA SelfMessageIInv ==
    ASSUME IInv, NEW e \in fes, HandleSelfMessage(e)
    PROVE  IInv'
<1> USE ConstantsAssumption
<1>a. TypeOK /\ SettingsInv /\ NothingInThePast /\ FreshInv /\ PointerInv
      /\ TimeoutInv /\ PacketsAccounted /\ (OneSetting => IdleInv)
  BY DEF IInv
<1>b. ASSUME NEW j \in Keys, InTable(j)'
      PROVE  InTable(j) /\ j # e.key /\ table'[j] = table[j]
  BY <1>a, <1>b DEF HandleSelfMessage, TypeOK, InTable
<1>c. /\ handler' = handler /\ handler.at = "idle" /\ now' = now
      /\ nextId' = nextId /\ fes' = fes \ {e} /\ deleted' = deleted \cup {e.id}
  BY DEF HandleSelfMessage, Idle
<1>1. TypeOK'
  <2>1. e \in Event
    BY <1>a DEF TypeOK
  <2>2. table' \in [Keys -> Flow \cup {NoFlow}] /\ exported' \in [Keys -> Nat]
    BY <1>a, <2>1 DEF HandleSelfMessage, TypeOK, Event, Flow
  <2> QED
    BY Zenon, <1>a, <2>1, <2>2 DEF HandleSelfMessage, TypeOK, Event
<1>2. SettingsInv'
  BY Zenon, <1>a DEF HandleSelfMessage, SettingsInv, TypeOK, Enabled, InTable,
     Handler, Idle, Flow
<1>3. NothingInThePast'
  BY <1>a DEF HandleSelfMessage, NothingInThePast, TypeOK, Event,
     SettingsInv, Enabled, Idle
<1>4. FreshInv'
  <2>1. e.id \in Nat /\ e.id < nextId
    BY Zenon, <1>a DEF FreshInv, TypeOK, Event
  <2> QED
    BY Zenon, <1>a, <1>c, <2>1 DEF FreshInv
<1>5. PointerInv'
  <2> SUFFICES ASSUME NEW j \in Keys, InTable(j)'
               PROVE  /\ table'[j].pointer < nextId
                      /\ table'[j].pointer \notin deleted'
                      /\ \A f \in fes' : f.id = table'[j].pointer
                                         => f.key = j /\ f.kind = "expiry"
    BY <1>c DEF PointerInv
  <2>1. InTable(j) /\ j # e.key /\ table'[j] = table[j]
    BY <1>b
  <2>2. e.id # table[j].pointer
    BY <1>a, <2>1 DEF PointerInv
  <2> QED
    BY <1>a, <1>c, <2>1, <2>2 DEF PointerInv
<1>6. TimeoutInv'
  <2>1. ASSUME NEW j \in Keys, InTable(j)'
        PROVE  HasTimeout(j, table[j].start)'
    BY SMTT(30), <1>a, <1>b, <1>c, <2>1 DEF TimeoutInv, HasTimeout
  <2> QED
    BY <1>c, <2>1 DEF TimeoutInv
<1>7. PacketsAccounted'
  BY <1>a DEF HandleSelfMessage, PacketsAccounted, InHand, SettingsInv,
     TypeOK, Handler, Idle, InTable, Flow
<1>8. (OneSetting => IdleInv)'
  <2> SUFFICES ASSUME OneSetting, NEW j \in Keys, InTable(j)'
               PROVE  \E f \in fes' : /\ f.key = j
                                      /\ \E s \in Settings :
                                            f.time <= table'[j].end + s[2]
    BY <1>c DEF OneSetting, IdleInv, Handling
  <2>1. InTable(j) /\ j # e.key /\ table'[j] = table[j]
    BY <1>b
  <2>2. PICK f \in fes : f.key = j /\ \E s \in Settings :
                                         f.time <= table[j].end + s[2]
    BY Zenon, <1>a, <1>c, <2>1 DEF IdleInv, Handling
  <2> QED
    BY Zenon, <1>c, <2>1, <2>2
<1> QED
  BY <1>1, <1>2, <1>3, <1>4, <1>5, <1>6, <1>7, <1>8 DEF IInv

\* Time does not pass a message that is due.
LEMMA TickIInv ==
    ASSUME IInv, Tick
    PROVE  IInv'
<1> USE ConstantsAssumption
<1>a. TypeOK /\ SettingsInv /\ NothingInThePast /\ FreshInv /\ PointerInv
      /\ TimeoutInv /\ PacketsAccounted /\ (OneSetting => IdleInv)
  BY DEF IInv
<1>1. TypeOK'
  BY <1>a DEF Tick, TypeOK, Flow, Event, Handler, Idle
<1>2. SettingsInv'
  BY Zenon, <1>a DEF Tick, SettingsInv, TypeOK, Enabled, InTable, Handler, Idle,
     Flow
<1>3. NothingInThePast'
  BY <1>a DEF Tick, NothingInThePast, TypeOK, Event, SettingsInv, Enabled, Idle
<1>4. FreshInv'
  BY Zenon, <1>a DEF Tick, FreshInv, PointerInv, TypeOK, Event, Handler, Idle,
     InTable, Flow
<1>5. PointerInv'
  BY Zenon, <1>a DEF Tick, PointerInv, FreshInv, TypeOK, Event, Handler, Idle,
     InTable, Flow
<1>6. TimeoutInv'
  BY Zenon, <1>a DEF Tick, TimeoutInv, HasTimeout, PointerInv, SettingsInv,
     Enabled, TypeOK, Event, Handler, Idle, InTable, Flow
<1>7. PacketsAccounted'
  BY Zenon, <1>a DEF Tick, PacketsAccounted, InHand, SettingsInv, TypeOK, Handler,
     Idle, InTable, Flow
<1>8. (OneSetting => IdleInv)'
  BY <1>a DEF Tick, OneSetting, IdleInv, Handling, TimeoutInv, HasTimeout,
     PointerInv, SettingsInv, Enabled, TypeOK, Event, Handler, Idle,
     InTable, Flow
<1> QED
  BY <1>1, <1>2, <1>3, <1>4, <1>5, <1>6, <1>7, <1>8 DEF IInv

\* Every step of the exporter preserves IInv.
LEMMA NextIInv == IInv /\ [Next]_vars => IInv'
<1> SUFFICES ASSUME IInv, [Next]_vars PROVE IInv'
  OBVIOUS
<1>1. CASE \E s \in Settings : SetFlowTimeout(s)
  BY <1>1, SetFlowTimeoutIInv
<1>2. CASE SetIdleTimeout
  BY <1>2, SetIdleTimeoutIInv
<1>3. CASE \E k \in Keys : PacketOfKnownFlow(k)
  BY <1>3, KnownFlowIInv
<1>4. CASE \E k \in Keys : PacketOfNewFlow(k)
  BY <1>4, NewFlowIInv
<1>5. CASE CompareDeadlines
  BY <1>5, CompareIInv
<1>6. CASE ScheduleExpiry
  BY <1>6, ScheduleExpiryIInv
<1>7. CASE SelfMessage
  BY <1>7, SelfMessageIInv DEF SelfMessage
<1>8. CASE Tick
  BY <1>8, TickIInv
<1>9. CASE UNCHANGED vars
  <2>1. TypeOK' /\ NothingInThePast' /\ PacketsAccounted'
    BY Zenon, <1>9 DEF vars, IInv, TypeOK, NothingInThePast, PacketsAccounted,
       InHand, InTable
  <2>2. SettingsInv' /\ FreshInv' /\ PointerInv'
    BY Zenon, <1>9 DEF vars, IInv, SettingsInv, FreshInv, PointerInv, InTable,
       Enabled
  <2>3. TimeoutInv' /\ (OneSetting => IdleInv)'
    BY <1>9 DEF vars, IInv, TimeoutInv, HasTimeout, IdleInv, Handling,
       InTable
  <2> QED
    BY Zenon, <2>1, <2>2, <2>3 DEF IInv
<1> QED
  BY <1>1, <1>2, <1>3, <1>4, <1>5, <1>6, <1>7, <1>8, <1>9 DEF Next

\* IInv holds in every reachable state.
LEMMA InductiveInvariant == Spec => []IInv
  BY InitIInv, NextIInv, PTL DEF Spec

\* The variables of the exporter keep their types; in particular no message
\* is scheduled at a negative time.
THEOREM TypeCorrect == Spec => []TypeOK
<1>1. IInv => TypeOK
  BY DEF IInv
<1> QED
  BY <1>1, InductiveInvariant, PTL

\* cancelEvent is never called with a freed message.
THEOREM PointerSafety == Spec => []PointerLive
<1>1. IInv => PointerLive
  BY DEF IInv, PointerInv, PointerLive
<1> QED
  BY <1>1, InductiveInvariant, PTL

\* No timeout value is used for scheduling before it has been set.
THEOREM SchedulingSafety == Spec => []NothingInThePast
<1>1. IInv => NothingInThePast
  BY DEF IInv
<1> QED
  BY <1>1, InductiveInvariant, PTL

\* No flow outlives the flow timeout, whether its expiry message is
\* scheduled or has been cancelled for good.
THEOREM FlowLifetime == Spec => []FlowLifetimeBounded
<1>1. IInv => FlowLifetimeBounded
  <2> SUFFICES ASSUME IInv, NEW k \in Keys, InTable(k)
               PROVE  \E s \in Settings : now <= table[k].start + s[1]
    BY Zenon DEF FlowLifetimeBounded
  <2>1. PICK e \in fes : \E s \in Settings : e.time <= table[k].start + s[1]
    BY Zenon DEF IInv, TimeoutInv, HasTimeout
  <2>2. PICK s \in Settings : e.time <= table[k].start + s[1]
    BY <2>1
  <2>3. e.time \in Nat /\ now \in Nat /\ now <= e.time
    BY DEF IInv, TypeOK, Event, NothingInThePast
  <2>4. table[k].start \in Nat /\ s[1] \in Nat
    BY SMTT(30), ConstantsAssumption DEF IInv, TypeOK, Flow, InTable
  <2> QED
    BY <2>2, <2>3, <2>4
<1> QED
  BY <1>1, InductiveInvariant, PTL

\* With timeouts set to one pair of values, no flow is idle longer than the
\* idle timeout.
THEOREM IdleTime == Spec => []IdleTimeBounded
<1>1. IInv => IdleTimeBounded
  <2> SUFFICES ASSUME IInv, OneSetting, NEW k \in Keys, InTable(k)
               PROVE  \E s \in Settings : now <= table[k].end + s[2]
    BY DEF IdleTimeBounded
  <2>1. table[k].end \in Nat /\ now \in Nat
    BY DEF IInv, TypeOK, Flow, InTable
  <2>2. CASE Handling(k)
    <3>1. table[k].end = now /\ \E s \in Settings : idle_timeout = s[2]
      BY <2>2 DEF IInv, IdleInv, SettingsInv, Enabled, Handling
    <3> QED
      BY SMTT(30), <2>1, <3>1, ConstantsAssumption
  <2>3. CASE ~Handling(k)
    <3>1. PICK e \in fes : \E s \in Settings : e.time <= table[k].end + s[2]
      BY Zenon, <2>3 DEF IInv, IdleInv
    <3>2. PICK s \in Settings : e.time <= table[k].end + s[2]
      BY <3>1
    <3>3. e.time \in Nat /\ now <= e.time
      BY DEF IInv, TypeOK, Event, NothingInThePast
    <3> QED
      BY <2>1, <3>2, <3>3, ConstantsAssumption
  <2> QED
    BY <2>2, <2>3
<1> QED
  BY <1>1, InductiveInvariant, PTL

\* No packet is lost or exported twice.
THEOREM Accounting == Spec => []PacketsAccounted
<1>1. IInv => PacketsAccounted
  BY DEF IInv
<1> QED
  BY <1>1, InductiveInvariant, PTL

-----------------------------------------------------------------------------
(* The zombie.  No property is inductive alone.  A record is within the    *)
(* limit because packetsSent and floodingTimes, which are reset in         *)
(* different functions, agree during an attack and are below its limit;    *)
(* the parameters are set for a configured attack because every start      *)
(* message handled is one fewer to come.                                   *)

Record == [attack : 0..(Attacks - 1), packets : Nat]

AttackInv ==
    /\ maxPacket \in [0..(Attacks - 1) -> Limits]
    /\ startMsgs + index = Attacks
    /\ records \in Seq(Record)
    /\ zombieActive =>
        /\ attackIndex >= 0
        /\ packetsSent = floodingTimes
        /\ maxPacket[attackIndex] > 0 => floodingTimes < maxPacket[attackIndex]

ZombieInv == /\ TimerWhileActive /\ AttackInv
        /\ EveryPacketRecorded /\ RecordsWithinLimit

-----------------------------------------------------------------------------
(* The packets of a sequence of records.                                   *)

\* A set of numbers that has 0 and, with a number, its successor, has them all:
\* the least number outside would be a successor of one inside.
LEMMA SetInduction ==
    ASSUME NEW T, 0 \in T, \A n \in Nat : n \in T => n + 1 \in T
    PROVE  Nat \subseteq T
<1> DEFINE Less == OpToRel(<, Nat)
<1> SUFFICES ASSUME Nat \ T # {} PROVE FALSE
  OBVIOUS
<1>1. PICK m \in Nat \ T : \A y \in Nat \ T : ~(<<y, m>> \in Less)
  <2> HIDE DEF Less
  <2>1. IsWellFoundedOn(Less, Nat)
    BY NatLessThanWellFounded DEF Less
  <2> QED
    BY Zenon, <2>1, WFMin
<1>2. m - 1 \in Nat /\ m - 1 \notin T
  <2>1. m # 0 /\ m \in Nat
    BY <1>1
  <2>2. m - 1 \in Nat /\ (m - 1) + 1 = m
    BY <2>1
  <2> QED
    BY <1>1, <2>2
<1>3. <<m - 1, m>> \in Less
  BY <1>1, <1>2 DEF OpToRel
<1> QED
  BY <1>1, <1>2, <1>3

\* The running sum that PacketsOf defines, up to record n.
IsSum(f, rs, n) ==
    f = [k \in 0..n |-> IF k = 0 THEN 0 ELSE f[k - 1] + rs[k].packets]

\* There is a running sum for every sequence.
LEMMA SumExists ==
    ASSUME NEW rs, NEW n \in Nat
    PROVE  \E f : IsSum(f, rs, n)
<1> DEFINE T == {m \in Nat : \E f : IsSum(f, rs, m)}
<1>1. 0 \in T
  <2> DEFINE f == [k \in 0..0 |-> 0]
  <2>1. IsSum(f, rs, 0)
    BY DEF IsSum
  <2> QED
    BY <2>1
<1>2. ASSUME NEW m \in Nat, m \in T PROVE m + 1 \in T
  <2>1. PICK f : IsSum(f, rs, m)
    BY Zenon, <1>2
  <2> DEFINE g == [k \in 0..(m + 1) |-> IF k = 0 THEN 0 ELSE f[k - 1] + rs[k].packets]
  <2>2. \A k \in 0..m : g[k] = f[k]
    BY <2>1 DEF IsSum
  <2>3. \A k \in 0..(m + 1) : k # 0 => k - 1 \in 0..m
    OBVIOUS
  <2>4. g = [k \in 0..(m + 1) |-> IF k = 0 THEN 0 ELSE g[k - 1] + rs[k].packets]
    <3>1. \A k \in 0..(m + 1) : k # 0 => g[k - 1] = f[k - 1]
      BY Zenon, <2>2, <2>3
    <3> QED
      BY Zenon, <3>1
  <2>5. IsSum(g, rs, m + 1)
    BY Zenon, <2>4 DEF IsSum
  <2> QED
    BY <2>5
<1> HIDE DEF T
<1>3. Nat \subseteq T
  BY <1>1, <1>2, SetInduction
<1> QED
  BY <1>3 DEF T

\* PacketsOf is the last value of a running sum.
LEMMA PacketsOfSum ==
    ASSUME NEW rs \in Seq(Record)
    PROVE  \E f : IsSum(f, rs, Len(rs)) /\ PacketsOf(rs) = f[Len(rs)]
<1>1. Len(rs) \in Nat
  OBVIOUS
<1> DEFINE f == CHOOSE f : IsSum(f, rs, Len(rs))
<1>2. IsSum(f, rs, Len(rs))
  BY Zenon, <1>1, SumExists
<1>3. PacketsOf(rs) = f[Len(rs)]
  BY DEF PacketsOf, IsSum
<1> QED
  BY Zenon, <1>2, <1>3

\* No record, no packets.
LEMMA PacketsOfEmpty == PacketsOf(<<>>) = 0
<1>0. <<>> \in Seq(Record)
  OBVIOUS
<1>1. PICK f : IsSum(f, <<>>, Len(<<>>)) /\ PacketsOf(<<>>) = f[Len(<<>>)]
  BY Zenon, <1>0, PacketsOfSum
<1>2. Len(<<>>) = 0
  OBVIOUS
<1> QED
  BY <1>1, <1>2 DEF IsSum

\* A record that is appended adds its packets.
LEMMA PacketsOfAppend ==
    ASSUME NEW rs \in Seq(Record), NEW r \in Record
    PROVE  /\ PacketsOf(rs) \in Nat
           /\ PacketsOf(Append(rs, r)) = PacketsOf(rs) + r.packets
<1> DEFINE l == Len(rs)
           t == Append(rs, r)
<1>1. /\ l \in Nat /\ t \in Seq(Record) /\ Len(t) = l + 1
      /\ \A k \in 1..l : t[k] = rs[k] /\ rs[k] \in Record
      /\ t[l + 1] = r
  OBVIOUS
<1>2. PICK f : IsSum(f, rs, l) /\ PacketsOf(rs) = f[l]
  BY Zenon, PacketsOfSum
<1>3. PICK g : IsSum(g, t, l + 1) /\ PacketsOf(t) = g[l + 1]
  <2> HIDE DEF t
  <2> QED
    BY <1>1, PacketsOfSum
<1> HIDE DEF l, t
<1>0. \A k \in Nat : k + 1 # 0 /\ (k + 1) - 1 = k
  OBVIOUS
<1> DEFINE T == {k \in Nat : k <= l => f[k] \in Nat /\ g[k] = f[k]}
<1>4. 0 \in T
  BY SMTT(30), <1>1, <1>2, <1>3 DEF IsSum
<1>5. ASSUME NEW k \in Nat, k \in T PROVE k + 1 \in T
  <2> SUFFICES ASSUME k + 1 <= l PROVE f[k + 1] \in Nat /\ g[k + 1] = f[k + 1]
    BY SMTT(30)
  <2>1. f[k] \in Nat /\ g[k] = f[k] /\ k + 1 \in 1..l /\ k + 1 \in 0..l /\ k + 1 \in 0..(l + 1)
    BY <1>1, <1>5
  <2>2. f[k + 1] = f[k] + rs[k + 1].packets
    BY Zenon, <1>0, <1>2, <2>1 DEF IsSum
  <2>3. g[k + 1] = g[k] + t[k + 1].packets
    BY Zenon, <1>0, <1>3, <2>1 DEF IsSum
  <2>4. t[k + 1] = rs[k + 1] /\ rs[k + 1].packets \in Nat
    BY Zenon, <1>1, <2>1 DEF Record
  <2> QED
    BY <2>1, <2>2, <2>3, <2>4
<1>6. l \in T
  <2> HIDE DEF T
  <2> QED
    BY Zenon, <1>1, <1>4, <1>5, SetInduction
<1>7. g[l + 1] = g[l] + r.packets
  <2>1. l + 1 \in 0..(l + 1)
    BY <1>1
  <2> QED
    BY <1>0, <1>1, <1>3, <2>1 DEF IsSum
<1>8. f[l] \in Nat /\ g[l] = f[l]
  BY <1>1, <1>6
<1> QED
  BY Zenon, <1>2, <1>3, <1>7, <1>8 DEF t

-----------------------------------------------------------------------------
(* The invariant.                                                          *)

\* The records of a state are records of configured attacks.
LEMMA RangeOfRecords ==
    ASSUME NEW rs \in Seq(Record)
    PROVE  \A r \in Range(rs) : r.attack \in 0..(Attacks - 1) /\ r.packets \in Nat
<1>1. \A r \in Range(rs) : r \in Record
  BY DEF Range
<1> QED
  BY <1>1 DEF Record

\* One more record: it is one of the range, and its packets are counted.
LEMMA Recorded ==
    ASSUME ZombieInv, NEW sent \in Nat, attackIndex \in 0..(Attacks - 1),
           maxPacket[attackIndex] > 0 => sent <= maxPacket[attackIndex],
           records' = Append(records, [attack |-> attackIndex, packets |-> sent]),
           UNCHANGED maxPacket
    PROVE  /\ records' \in Seq(Record)
           /\ PacketsOf(records) \in Nat
           /\ PacketsOf(records') = PacketsOf(records) + sent
           /\ \A q \in Range(records') :
                q.attack \in 0..(Attacks - 1) /\ q.packets \in Nat
           /\ RecordsWithinLimit'
<1> DEFINE r == [attack |-> attackIndex, packets |-> sent]
<1>1. r \in Record /\ r.attack = attackIndex /\ r.packets = sent
  BY DEF Record
<1> HIDE DEF r
<1>2. records \in Seq(Record) /\ records' = Append(records, r)
  BY DEF r, ZombieInv, AttackInv
<1>3. records' \in Seq(Record)
  BY <1>1, <1>2
<1>4. /\ PacketsOf(records) \in Nat
      /\ PacketsOf(records') = PacketsOf(records) + sent
  BY Zenon, <1>1, <1>2, PacketsOfAppend
<1>5. Range(records') = Range(records) \cup {r}
  <2>1. /\ DOMAIN records = 1..Len(records) /\ Len(records) \in Nat
        /\ DOMAIN records' = 1..(Len(records) + 1)
    BY SMTT(30), <1>1, <1>2, <1>3
  <2>2. /\ \A i \in 1..Len(records) : records'[i] = records[i]
        /\ records'[Len(records) + 1] = r
    BY <1>1, <1>2
  <2> QED
    BY <2>1, <2>2 DEF Range
<1>6. RecordsWithinLimit'
  BY Zenon, <1>1, <1>5 DEF RecordsWithinLimit, ZombieInv
<1> QED
  BY Zenon, <1>3, <1>4, <1>6, RangeOfRecords

\* Nothing is sent or recorded before the first start message.
LEMMA ZombieInitInv == AttackInit => ZombieInv
<1> SUFFICES ASSUME AttackInit PROVE ZombieInv
  OBVIOUS
<1>1. records \in Seq(Record) /\ Range(records) = {}
  BY DEF AttackInit, Range
<1>2. PacketsOf(records) = 0
  BY PacketsOfEmpty DEF AttackInit
<1> QED
  BY <1>1, <1>2, AttackAssumption
     DEF AttackInit, ZombieInv, TimerWhileActive, AttackTypeOK, AttackInv, EveryPacketRecorded,
         RecordsWithinLimit

\* What every start message does to the counters of the messages.
LEMMA StartMessageCounts ==
    ASSUME ZombieInv, StartMessage
    PROVE  /\ index \in 0..(Attacks - 1)
           /\ startMsgs' \in 0..Attacks /\ index' \in 0..Attacks
           /\ startMsgs' + index' = Attacks
           /\ maxPacket' = maxPacket /\ total' = total
BY AttackAssumption DEF ZombieInv, TimerWhileActive, AttackTypeOK, AttackInv,
   StartMessage

\* During an attack the record it would get is within its limit.
LEMMA ActiveRecord ==
    ASSUME ZombieInv, zombieActive
    PROVE  /\ attackIndex \in 0..(Attacks - 1) /\ packetsSent \in Nat
           /\ maxPacket[attackIndex] \in Int
           /\ maxPacket[attackIndex] > 0 => packetsSent < maxPacket[attackIndex]
<1>1. attackIndex \in 0..(Attacks - 1) /\ packetsSent \in Nat
  BY AttackAssumption DEF ZombieInv, TimerWhileActive, AttackTypeOK, AttackInv
<1>2. maxPacket[attackIndex] \in Int
  BY <1>1, AttackAssumption DEF ZombieInv, AttackInv
<1> QED
  BY Zenon, <1>1, <1>2 DEF ZombieInv, AttackInv

\* A timer that is cancelled first is scheduled once.
LEMMA Rescheduled == scheduleAt(cancelEvent(timer)) = 1
BY DEF scheduleAt, cancelEvent

\* An inactive zombie takes part: nothing of an earlier attack is left over.
LEMMA TakePartInv == ASSUME ZombieInv, TakePart PROVE ZombieInv'
<1>1. StartMessage /\ setCurrentFloodingParameter /\ ~zombieActive
      /\ zombieActive' = TRUE /\ UNCHANGED <<packetsSent, records>>
  BY DEF TakePart
<1>2. /\ floodingTimes' = 0 /\ attackIndex' = index /\ timer' = 1
      /\ packetsSent' = 0
  BY Zenon, <1>1, Rescheduled DEF setCurrentFloodingParameter, ZombieInv,
     EveryPacketRecorded
<1>3. AttackTypeOK'
  BY SMTT(30), <1>1, <1>2, StartMessageCounts DEF ZombieInv, TimerWhileActive, AttackTypeOK
<1>4. AttackInv'
  BY <1>1, <1>2, StartMessageCounts, AttackAssumption DEF ZombieInv, AttackInv
<1>5. EveryPacketRecorded' /\ RecordsWithinLimit'
  BY Zenon, <1>1, StartMessageCounts DEF ZombieInv, EveryPacketRecorded,
     RecordsWithinLimit
<1> QED
  BY <1>1, <1>2, <1>3, <1>4, <1>5 DEF ZombieInv, TimerWhileActive

\* Another attack: the one that ends is recorded under its own number.
LEMMA SwitchAttackInv == ASSUME ZombieInv, SwitchAttack PROVE ZombieInv'
<1>1. /\ StartMessage /\ setCurrentFloodingParameter /\ zombieActive
      /\ recordAttackScalars /\ zombieActive' = zombieActive
  BY Zenon DEF SwitchAttack
<1>2. /\ floodingTimes' = 0 /\ attackIndex' = index /\ timer' = 1
      /\ packetsSent' = 0
      /\ records' = Append(records, [attack |-> attackIndex, packets |-> packetsSent])
  BY Zenon, <1>1, Rescheduled DEF setCurrentFloodingParameter, recordAttackScalars
<1>3. /\ records' \in Seq(Record)
      /\ PacketsOf(records) \in Nat
      /\ PacketsOf(records') = PacketsOf(records) + packetsSent
      /\ \A q \in Range(records') :
           q.attack \in 0..(Attacks - 1) /\ q.packets \in Nat
      /\ RecordsWithinLimit'
  BY SMTT(30), <1>1, <1>2, ActiveRecord, StartMessageCounts, Recorded
<1>4. AttackTypeOK'
  BY SMTT(30), <1>1, <1>2, <1>3, StartMessageCounts DEF ZombieInv, TimerWhileActive,
     AttackTypeOK
<1>5. AttackInv'
  BY <1>1, <1>2, <1>3, StartMessageCounts, AttackAssumption DEF ZombieInv, AttackInv
<1>6. EveryPacketRecorded'
  BY <1>1, <1>2, <1>3, StartMessageCounts, ActiveRecord
     DEF ZombieInv, EveryPacketRecorded
<1> QED
  BY <1>1, <1>2, <1>3, <1>4, <1>5, <1>6 DEF ZombieInv, TimerWhileActive

\* The attack is left: recorded, and the timer is cancelled.
LEMMA StopAttackInv == ASSUME ZombieInv, StopAttack PROVE ZombieInv'
<1>1. /\ StartMessage /\ zombieActive /\ recordAttackScalars
      /\ zombieActive' = FALSE /\ timer' = 0
      /\ UNCHANGED <<floodingTimes, attackIndex>>
  BY DEF StopAttack, cancelEvent
<1>2. /\ packetsSent' = 0
      /\ records' = Append(records, [attack |-> attackIndex, packets |-> packetsSent])
  BY Zenon, <1>1 DEF recordAttackScalars
<1>3. /\ records' \in Seq(Record)
      /\ PacketsOf(records) \in Nat
      /\ PacketsOf(records') = PacketsOf(records) + packetsSent
      /\ \A q \in Range(records') :
           q.attack \in 0..(Attacks - 1) /\ q.packets \in Nat
      /\ RecordsWithinLimit'
  BY <1>1, <1>2, ActiveRecord, StartMessageCounts, Recorded
<1>4. AttackTypeOK'
  BY Zenon, <1>1, <1>2, <1>3, StartMessageCounts DEF ZombieInv, TimerWhileActive,
     AttackTypeOK
<1>5. AttackInv'
  BY Zenon, <1>1, <1>2, <1>3, StartMessageCounts DEF ZombieInv, AttackInv
<1>6. EveryPacketRecorded'
  BY <1>1, <1>2, <1>3, StartMessageCounts, ActiveRecord
     DEF ZombieInv, EveryPacketRecorded
<1> QED
  BY <1>1, <1>3, <1>4, <1>5, <1>6 DEF ZombieInv, TimerWhileActive

\* A start message that changes nothing else.
LEMMA GoOnInv == ASSUME ZombieInv, GoOn PROVE ZombieInv'
<1>1. /\ StartMessage
      /\ UNCHANGED <<zombieActive, timer, floodingTimes, packetsSent, attackIndex, records>>
  BY Zenon DEF GoOn
<1>2. AttackTypeOK' /\ TimerWhileActive'
  BY Zenon, <1>1, StartMessageCounts DEF ZombieInv, TimerWhileActive, AttackTypeOK
<1>3. AttackInv'
  BY Zenon, <1>1, StartMessageCounts DEF ZombieInv, AttackInv
<1>4. EveryPacketRecorded' /\ RecordsWithinLimit'
  BY Zenon, <1>1, StartMessageCounts DEF ZombieInv, EveryPacketRecorded,
     RecordsWithinLimit
<1> QED
  BY <1>2, <1>3, <1>4 DEF ZombieInv

\* A packet: the last one of an attack with a limit ends it with a record.
LEMMA FloodInv == ASSUME ZombieInv, Flood PROVE ZombieInv'
<1> DEFINE limit == maxPacket[attackIndex]
           last == ~More(floodingTimes + 1, limit)
<1>1. /\ zombieActive /\ timer = 1
      /\ total' = total + 1 /\ floodingTimes' = floodingTimes + 1
      /\ UNCHANGED <<maxPacket, startMsgs, index, attackIndex>>
  BY DEF Flood, ZombieInv, TimerWhileActive
<1>2. /\ attackIndex \in 0..(Attacks - 1) /\ limit \in Int
      /\ packetsSent \in Nat /\ floodingTimes = packetsSent
      /\ limit > 0 => packetsSent < limit
  BY Zenon, <1>1, ActiveRecord DEF ZombieInv, AttackInv
<1>3. CASE last
  <2>1. /\ timer' = timer - 1 /\ zombieActive' = FALSE /\ packetsSent' = 0
        /\ records' = Append(records, [attack |-> attackIndex,
                                       packets |-> packetsSent + 1])
    BY Zenon, <1>1, <1>3 DEF Flood
  <2>6. timer' = 0
    BY <1>1, <2>1
  <2>2. /\ records' \in Seq(Record)
        /\ PacketsOf(records) \in Nat
        /\ PacketsOf(records') = PacketsOf(records) + (packetsSent + 1)
        /\ \A q \in Range(records') :
             q.attack \in 0..(Attacks - 1) /\ q.packets \in Nat
        /\ RecordsWithinLimit'
    <3> DEFINE sent == packetsSent + 1
    <3>1. sent \in Nat /\ (limit > 0 => sent <= limit)
      BY <1>2
    <3>2. records' = Append(records, [attack |-> attackIndex, packets |-> sent])
      BY Zenon, <2>1
    <3> HIDE DEF sent
    <3>3. /\ records' \in Seq(Record)
          /\ PacketsOf(records) \in Nat
          /\ PacketsOf(records') = PacketsOf(records) + sent
          /\ \A q \in Range(records') :
               q.attack \in 0..(Attacks - 1) /\ q.packets \in Nat
          /\ RecordsWithinLimit'
      BY <1>1, <1>2, <3>1, <3>2, Recorded
    <3> QED
      BY <3>3 DEF sent
  <2>3. AttackTypeOK'
    <3>2. timer' \in Nat
      BY <2>6
    <3>1. floodingTimes' \in Nat /\ total' \in Nat
      BY <1>1 DEF ZombieInv, TimerWhileActive, AttackTypeOK
    <3> QED
      BY Zenon, <1>1, <2>1, <2>2, <3>1, <3>2 DEF ZombieInv, TimerWhileActive,
         AttackTypeOK
  <2>4. AttackInv'
    BY Zenon, <1>1, <2>1, <2>2 DEF ZombieInv, AttackInv
  <2>5. EveryPacketRecorded'
    BY <1>1, <1>2, <2>1, <2>2 DEF ZombieInv, EveryPacketRecorded
  <2> QED
    BY <2>1, <2>2, <2>3, <2>4, <2>5, <2>6 DEF ZombieInv, TimerWhileActive
<1>4. CASE ~last
  <2>1. /\ timer' = scheduleAt(timer - 1) /\ zombieActive' = TRUE
        /\ packetsSent' = packetsSent + 1 /\ records' = records
    BY Zenon, <1>1, <1>4 DEF Flood
  <2>6. timer' = 1
    BY <1>1, <2>1 DEF scheduleAt
  <2>2. limit > 0 => floodingTimes + 1 < limit
    BY <1>2, <1>4 DEF More
  <2>3. AttackTypeOK'
    BY <1>1, <1>2, <2>1, <2>6 DEF ZombieInv, TimerWhileActive, AttackTypeOK
  <2>4. AttackInv'
    BY Zenon, <1>1, <1>2, <2>1, <2>2 DEF ZombieInv, AttackInv
  <2>5. EveryPacketRecorded' /\ RecordsWithinLimit'
    <3>1. [attack |-> 0, packets |-> 0] \in Record /\ records \in Seq(Record)
      BY AttackAssumption DEF Record, ZombieInv, AttackInv
    <3>2. PacketsOf(records) \in Nat
      BY <3>1, PacketsOfAppend
    <3> QED
      BY <1>1, <1>2, <2>1, <3>2 DEF ZombieInv, EveryPacketRecorded,
         RecordsWithinLimit
  <2> QED
    BY <2>1, <2>3, <2>4, <2>5, <2>6 DEF ZombieInv, TimerWhileActive
<1> QED
  BY Zenon, <1>3, <1>4

\* The invariant holds in every reachable state.
THEOREM AttackInvariance == AttackSpec => []ZombieInv
<1>1. ASSUME ZombieInv, [AttackNext]_attackVars PROVE ZombieInv'
  <2>1. CASE UNCHANGED attackVars
    BY <1>1, <2>1 DEF attackVars, ZombieInv, TimerWhileActive, AttackTypeOK,
       AttackInv,
                      EveryPacketRecorded, RecordsWithinLimit
  <2>2. CASE AttackNext
    BY <1>1, <2>2, TakePartInv, SwitchAttackInv, StopAttackInv, GoOnInv,
       FloodInv DEF AttackNext
  <2> QED
    BY Zenon, <1>1, <2>1, <2>2
<1> QED
  BY <1>1, ZombieInitInv, PTL DEF AttackSpec

\* The flooding timer is scheduled once while the zombie is active and not at all
\* otherwise, and parameters are only set for a configured attack.
THEOREM ZombieTimerSafety == AttackSpec => []TimerWhileActive
<1>1. ZombieInv => TimerWhileActive
  BY DEF ZombieInv
<1> QED
  BY <1>1, AttackInvariance, PTL

\* Every packet is in exactly one record or counted for the attack in progress,
\* and an inactive zombie has nothing left to record.
THEOREM PacketsSafety == AttackSpec => []EveryPacketRecorded
<1>1. ZombieInv => EveryPacketRecorded
  BY DEF ZombieInv
<1> QED
  BY <1>1, AttackInvariance, PTL

\* The packets of two attacks are never mixed: a record is within the limit of the
\* attack it names.
THEOREM LimitSafety == AttackSpec => []RecordsWithinLimit
<1>1. ZombieInv => RecordsWithinLimit
  BY DEF ZombieInv
<1> QED
  BY <1>1, AttackInvariance, PTL

-----------------------------------------------------------------------------
(* The choice of a transmission.                                           *)

\* What is looked up by haveProfile is a registered server of the network
\* and the profile, and not the caller; or nothing is found.
LEMMA HaveProfileResult ==
    ASSUME NEW as, NEW p, NEW caller, NEW s \in haveProfile(as, p, caller),
           s # None
    PROVE  s \in servers /\ s.as = as /\ s.profile = p /\ s.id # caller
BY Zenon DEF haveProfile

\* getForeignServer finds a registered server of the profile in another AS.
LEMMA ForeignResult ==
    ASSUME NEW p, NEW s \in getForeignServer(p), s # None
    PROVE  s \in servers /\ s.as # Home /\ s.profile = p
<1>1. PICK as \in Networks \ {Home} : s \in haveProfile(as, p, None)
  BY DEF getForeignServer
<1>2. s \in servers /\ s.as = as /\ s.profile = p
  BY Zenon, <1>1 DEF haveProfile
<1> QED BY Zenon, <1>1, <1>2

\* getServer finds a registered server of the drawn profile, and one in
\* another AS for a foreign request in a network that is not flat.
LEMMA GetServerResult ==
    ASSUME NEW s \in getServer, s # None
    PROVE  /\ s \in servers /\ s.profile = tp
           /\ isForeign /\ ~isFlatNet => s.as # Home
<1>1. CASE isForeign /\ isFlatNet
  BY <1>1, HaveProfileResult DEF getServer
<1>2. CASE isForeign /\ ~isFlatNet
  BY Zenon, <1>2, ForeignResult DEF getServer
<1>3. CASE ~isForeign
  <2>1. s \in haveProfile(Home, tp, "me") \/ s \in getForeignServer(tp)
    BY <1>3 DEF getServer
  <2> QED BY <1>3, <2>1, HaveProfileResult, ForeignResult
<1> QED BY Zenon, <1>1, <1>2, <1>3

\* Only the user's own AS has the user among its servers; a local request skips
\* it, and a foreign one goes elsewhere, unless the network is flat.
LEMMA OthersOnly ==
    ASSUME NEW s \in getServer, s # None, servers \subseteq Server,
           ~(isFlatNet /\ isForeign)
    PROVE  s.id # "me"
<1>1. s \in servers /\ s \in Server
  BY GetServerResult
<1>2. s.as # Home => s.id # "me"
  BY <1>1 DEF Server
<1>3. CASE isForeign
  BY Zenon, <1>2, <1>3, GetServerResult
<1>4. CASE ~isForeign
  <2>1. s \in haveProfile(Home, tp, "me") \/ s \in getForeignServer(tp)
    BY Zenon, <1>4 DEF getServer
  <2> QED BY <1>2, <2>1, HaveProfileResult, ForeignResult
<1> QED BY <1>3, <1>4

\* The bound on runs is not inductive alone: between the steps of a round it
\* must be known that another one may begin, or that one has begun.
RunsInv ==
    /\ pc = "run" => runs < RunLimit
    /\ pc \in {"draw", "resolve"} => runs >= 1

\* The inductive invariant.  That retries differ needs the exclusion while
\* profiles are drawn: after the first round there is one, but for the round
\* in which it is lifted.
ChoiceInv ==
    /\ ChoiceTypeOK
    /\ RunsInv
    /\ TargetServesProfile
    /\ ForeignIsElsewhere
    /\ RetriesDiffer
    /\ OneselfOnlyInFlatNet
    /\ pc = "resolve" => tp \in Profiles
    /\ pc = "run" /\ runs > 0 => except # None
    /\ pc = "draw" /\ runs > 1 /\ runs # RunLimit \div 2 => except # None

\* The state after initialisation satisfies the invariant.
LEMMA ChoiceInitInv == ChoiceInit => ChoiceInv
<1> SUFFICES ASSUME ChoiceInit PROVE ChoiceInv
  OBVIOUS
<1>1. runs \in 0..RunLimit
  BY NetworkAssumption DEF ChoiceInit
<1>2. ChoiceTypeOK
  BY Zenon, <1>1 DEF ChoiceInit, ChoiceTypeOK
<1> QED BY <1>2, NetworkAssumption DEF ChoiceInit, ChoiceInv, RunsInv,
           TargetServesProfile, ForeignIsElsewhere, RetriesDiffer,
           OneselfOnlyInFlatNet

\* Every step of transmissionDone and of its calls keeps it.
LEMMA ChoiceNextInv == ChoiceInv /\ [ChoiceNext]_choiceVars => ChoiceInv'
<1> SUFFICES ASSUME ChoiceInv, [ChoiceNext]_choiceVars PROVE ChoiceInv'
  OBVIOUS
<1> USE NetworkAssumption
<1>1. CASE transmissionDone
  <2>1. /\ pc' = "run" /\ runs' = 0 /\ except' = None
        /\ UNCHANGED <<isFlatNet, servers, tp, isForeign, target>>
    BY Zenon, <1>1 DEF transmissionDone, network
  <2>2. 0 \in 0..RunLimit /\ 0 < RunLimit /\ ~(0 > 0)
    OBVIOUS
  <2>3. ChoiceTypeOK'
    BY Zenon, <2>1, <2>2 DEF ChoiceInv, ChoiceTypeOK
  <2> QED BY Zenon, <2>1, <2>2, <2>3 DEF ChoiceInv, RunsInv, TargetServesProfile,
             ForeignIsElsewhere, RetriesDiffer, OneselfOnlyInFlatNet
<1>2. CASE BeginRun
  <2>1. runs \in Nat /\ runs < RunLimit /\ runs' = runs + 1
    BY <1>2 DEF ChoiceInv, ChoiceTypeOK, RunsInv, BeginRun
  <2>2. except' \in Profiles \cup {None}
    BY <1>2 DEF ChoiceInv, ChoiceTypeOK, BeginRun
  <2>3. ChoiceTypeOK'
    <3>1. runs' \in 0..RunLimit
      BY <2>1
    <3> QED BY Zenon, <1>2, <2>2, <3>1 DEF ChoiceInv, ChoiceTypeOK, BeginRun, network
  <2>4. runs' > 1 /\ runs' # RunLimit \div 2 => except' # None
    BY <1>2, <2>1 DEF ChoiceInv, BeginRun
  <2>5. pc' = "draw" /\ runs' >= 1
    BY <1>2, <2>1 DEF BeginRun
  <2> QED BY Zenon, <2>3, <2>4, <2>5 DEF ChoiceInv, RunsInv, TargetServesProfile,
             ForeignIsElsewhere, RetriesDiffer, OneselfOnlyInFlatNet
<1>3. ASSUME NEW p \in Profiles, NEW wan \in BOOLEAN, Draw(p, wan) PROVE ChoiceInv'
  BY Zenon, <1>3 DEF ChoiceInv, ChoiceTypeOK, RunsInv, TargetServesProfile,
     ForeignIsElsewhere,
     RetriesDiffer, OneselfOnlyInFlatNet, Draw, network
<1>4. CASE Resolve
  <2>1. target' # None => /\ target' \in servers /\ target'.profile = tp
                          /\ isForeign /\ ~isFlatNet => target'.as # Home
    BY Zenon, <1>4, GetServerResult DEF Resolve
  <2>2. ChoiceTypeOK'
    BY Zenon, <1>4, <2>1 DEF ChoiceInv, ChoiceTypeOK, Resolve, network
  <2>3. TargetServesProfile' /\ ForeignIsElsewhere'
    BY Zenon, <1>4, <2>1 DEF Resolve, network, TargetServesProfile,
       ForeignIsElsewhere
  <2>4. RunsInv' /\ RetriesDiffer'
    BY Zenon, <1>4 DEF ChoiceInv, ChoiceTypeOK, RunsInv, RetriesDiffer, Resolve
  <2>5. except' # None
    BY Zenon, <1>4 DEF ChoiceInv, RetriesDiffer, ChoiceTypeOK, Resolve, network
  <2>6. pc' # "resolve"
    BY Zenon, <1>4 DEF Resolve
  <2>7. OneselfOnlyInFlatNet'
    BY Zenon, <1>4, OthersOnly DEF ChoiceInv, ChoiceTypeOK, Resolve, network,
       OneselfOnlyInFlatNet
  <2> QED BY Zenon, <2>2, <2>3, <2>4, <2>5, <2>6, <2>7 DEF ChoiceInv
<1>5. CASE UNCHANGED choiceVars
  <2>1. ChoiceTypeOK'
    BY Zenon, <1>5 DEF ChoiceInv, ChoiceTypeOK, choiceVars
  <2>2. RunsInv' /\ RetriesDiffer'
    BY Zenon, <1>5 DEF ChoiceInv, RunsInv, RetriesDiffer, choiceVars
  <2>3. TargetServesProfile' /\ ForeignIsElsewhere' /\ OneselfOnlyInFlatNet'
    BY Zenon, <1>5 DEF ChoiceInv, TargetServesProfile, ForeignIsElsewhere,
       OneselfOnlyInFlatNet, choiceVars
  <2> QED BY Zenon, <1>5, <2>1, <2>2, <2>3 DEF ChoiceInv, choiceVars
<1> QED BY Zenon, <1>1, <1>2, <1>3, <1>4, <1>5 DEF ChoiceNext, Choose

\* The inductive invariant holds in every reachable state.
THEOREM ChoiceInvariance == ChoiceSpec => []ChoiceInv
BY ChoiceInitInv, ChoiceNextInv, PTL DEF ChoiceSpec

\* Types are kept: in particular transmissionDone makes at most RunLimit
\* rounds.
THEOREM ChoiceTypeCorrect == ChoiceSpec => []ChoiceTypeOK
BY ChoiceInvariance, PTL DEF ChoiceInv

\* A transmission goes to a server registered for its profile.
THEOREM TargetCorrect == ChoiceSpec => []TargetServesProfile
BY ChoiceInvariance, PTL DEF ChoiceInv

\* A foreign transmission leaves the AS, unless the network is flat.
THEOREM ForeignCorrect == ChoiceSpec => []ForeignIsElsewhere
BY ChoiceInvariance, PTL DEF ChoiceInv

\* No user communicates with itself, but for a foreign transmission in a flat
\* network.
THEOREM OneselfCorrect == ChoiceSpec => []OneselfOnlyInFlatNet
BY ChoiceInvariance, PTL DEF ChoiceInv

\* Each round draws another profile than the round before it.
THEOREM RetriesCorrect == ChoiceSpec => []RetriesDiffer
BY ChoiceInvariance, PTL DEF ChoiceInv

=============================================================================
