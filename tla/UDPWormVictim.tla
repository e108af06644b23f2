--------------------------- MODULE UDPWormVictim ---------------------------
(***************************************************************************)
(* The spread of a worm (ReaSE/src/applications/worm/UDPWormVictim.cc).    *)
(*                                                                         *)
(* An infected host sends probing packets to random addresses, one each    *)
(* time its probing timer fires; a vulnerable host that receives one is    *)
(* infected and starts probing itself.  A host decrements its own          *)
(* maxProbingPackets; a negative value means no limit.  The network may    *)
(* lose a probing packet, and most addresses belong to no host.  The       *)
(* statistics module counts the infected hosts.                            *)
(***************************************************************************)
EXTENDS Integers, FiniteSets

CONSTANTS
    Hosts,               \* the worm victims of the network
    MaxProbingPackets    \* the parameter of all hosts; negative: no limit

ASSUME HostsAssumption ==
    /\ IsFiniteSet(Hosts)
    /\ MaxProbingPackets \in Int

VARIABLES
    isActive,            \* infected
    maxProbingPackets,   \* probing packets a host may still send
    probingTimer,        \* is the timer scheduled?
    probes,              \* hosts to which probing packets are under way
    infectedHosts        \* counter of the statistics module

wormVars == <<isActive, maxProbingPackets, probingTimer, probes, infectedHosts>>

Infected == {h \in Hosts : isActive[h]}

\* Mutant: every host schedules its timer.
WormInit_AllTimers ==
    /\ isActive \in [Hosts -> BOOLEAN]
    /\ maxProbingPackets = [h \in Hosts |-> MaxProbingPackets]
    /\ probingTimer = [h \in Hosts |-> TRUE]
    /\ probes = {}
    /\ infectedHosts = Cardinality(Infected)

\* Every host is infected at the start with probability
\* startProbingProbability; those that are schedule their first probe.
WormInit ==
    /\ isActive \in [Hosts -> BOOLEAN]
    /\ maxProbingPackets = [h \in Hosts |-> MaxProbingPackets]
    /\ probingTimer = isActive
    /\ probes = {}
    /\ infectedHosts = Cardinality(Infected)

\* Mutant: the timer is scheduled again whether or not a packet is left.
HandleTimer_Always(h, targets) ==
    /\ probingTimer[h]
    /\ IF maxProbingPackets[h] # 0
       THEN /\ maxProbingPackets' =
                  [maxProbingPackets EXCEPT ![h] = IF @ > 0 THEN @ - 1 ELSE @]
            /\ probes' = probes \cup targets
       ELSE UNCHANGED <<maxProbingPackets, probes>>
    /\ UNCHANGED <<isActive, probingTimer, infectedHosts>>

\* The self message: the timer is scheduled again and a packet is sent to a
\* random address, which may be that of a host.
HandleTimer(h, targets) ==
    /\ probingTimer[h]
    /\ IF maxProbingPackets[h] # 0
       THEN /\ maxProbingPackets' =
                  [maxProbingPackets EXCEPT ![h] = IF @ > 0 THEN @ - 1 ELSE @]
            /\ probes' = probes \cup targets
            /\ UNCHANGED probingTimer
       ELSE /\ probingTimer' = [probingTimer EXCEPT ![h] = FALSE]
            /\ UNCHANGED <<maxProbingPackets, probes>>
    /\ UNCHANGED <<isActive, infectedHosts>>

\* Mutant: an infected host is infected again.
HandleProbe_Again(h) ==
    /\ h \in probes
    /\ probes' = probes \ {h}
    /\ isActive' = [isActive EXCEPT ![h] = TRUE]
    /\ infectedHosts' = infectedHosts + 1
    /\ infectedHosts <= Cardinality(Hosts)
    /\ probingTimer' = [probingTimer EXCEPT ![h] = TRUE]
    /\ UNCHANGED maxProbingPackets

\* A probing packet arrives.  Several packets under way to one host have
\* the effect of one, for an infected host deletes what it receives.
HandleProbe(h) ==
    /\ h \in probes
    /\ probes' = probes \ {h}
    /\ IF isActive[h]
       THEN UNCHANGED <<isActive, infectedHosts, probingTimer>>
       ELSE /\ isActive' = [isActive EXCEPT ![h] = TRUE]
            /\ infectedHosts' = infectedHosts + 1
            /\ probingTimer' = [probingTimer EXCEPT ![h] = TRUE]
    /\ UNCHANGED maxProbingPackets

\* The network loses a probing packet.
LoseProbe(h) ==
    /\ h \in probes
    /\ probes' = probes \ {h}
    /\ UNCHANGED <<isActive, maxProbingPackets, probingTimer, infectedHosts>>

Targets == {{}} \cup {{h} : h \in Hosts}

TimerOf(h) == \E targets \in Targets : HandleTimer(h, targets)

WormNext == \E h \in Hosts : TimerOf(h) \/ HandleProbe(h) \/ LoseProbe(h)

WormSpec == WormInit /\ [][WormNext]_wormVars

\* The event loop delivers every scheduled message.
WormFairSpec == WormSpec /\ \A h \in Hosts : WF_wormVars(TimerOf(h))

-----------------------------------------------------------------------------
(* Properties.                                                             *)

\* The variables keep their types; no host sends more than it may.
WormTypeOK ==
    /\ isActive \in [Hosts -> BOOLEAN]
    /\ probingTimer \in [Hosts -> BOOLEAN]
    /\ probes \subseteq Hosts
    /\ infectedHosts \in 0..Cardinality(Hosts)
    /\ IF MaxProbingPackets < 0
       THEN maxProbingPackets = [h \in Hosts |-> MaxProbingPackets]
       ELSE maxProbingPackets \in [Hosts -> 0..MaxProbingPackets]

\* The infection that a probing packet causes schedules a timer that is not
\* scheduled (scheduleAt would stop the simulation otherwise): the timer of
\* a vulnerable host never runs.
TimerOfInfected == WormTypeOK /\ \A h \in Hosts : probingTimer[h] => isActive[h]

\* The statistics count each infected host once, however many probing
\* packets reach it.
InfectionsCounted == infectedHosts = Cardinality(Infected)

\* With a limit on the probing packets the worm comes to rest: all timers
\* stop for good.
WormComesToRest == <>[](\A h \in Hosts : ~probingTimer[h])
=============================================================================
