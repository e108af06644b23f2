-------------------------- MODULE TribeFloodNetwork --------------------------
(***************************************************************************)
(* A zombie of the DDoS traffic generator                                  *)
(* (ReaSE/src/applications/ddos/TribeFloodNetwork.cc): the start messages, *)
(* one per configured attack, the flooding timer, and the statistics       *)
(* written when an attack ends.  Which packets are sent is left out.       *)
(***************************************************************************)
EXTENDS Integers, Sequences, Functions

CONSTANTS
    Attacks,      \* the number of configured attacks
    Limits,       \* values of maxPacket; a negative one means no limit
    MaxFlood      \* bound: packets in a row of an attack without a limit

ASSUME AttackAssumption ==
    /\ Attacks \in Nat \ {0}
    /\ Limits \subseteq Int
    /\ MaxFlood \in Nat
    /\ \A l \in Limits : l <= MaxFlood

VARIABLES
    maxPacket,      \* the limit of every attack
    startMsgs,      \* start messages that are scheduled
    index,          \* start messages handled
    zombieActive,   \* isActive
    timer,          \* how often floodingTime is scheduled
    floodingTimes,
    packetsSent,
    attackIndex,    \* the attack whose parameters are set
    total,          \* packets sent in all
    records         \* what recordAttackScalars has written

attackVars == <<maxPacket, startMsgs, index, zombieActive, timer, floodingTimes,
          packetsSent, attackIndex, total, records>>

AttackInit ==
    /\ maxPacket \in [0..(Attacks - 1) -> Limits]
    /\ startMsgs = Attacks
    /\ index = 0
    /\ zombieActive = FALSE
    /\ timer = 0
    /\ floodingTimes = 0
    /\ packetsSent = 0
    /\ attackIndex = -1
    /\ total = 0
    /\ records = <<>>

\* Mutant: packetsSent is not reset.
recordAttackScalars_NoReset ==
    /\ records' = Append(records, [attack |-> attackIndex, packets |-> packetsSent])
    /\ UNCHANGED packetsSent

recordAttackScalars ==
    /\ records' = Append(records, [attack |-> attackIndex, packets |-> packetsSent])
    /\ packetsSent' = 0

\* cancelEvent and scheduleAt of floodingTime, by how often it is scheduled; a
\* message that is scheduled twice ends the simulation.
cancelEvent(scheduled) == 0
scheduleAt(scheduled) == scheduled + 1

\* Mutant: the timer of the attack before is not cancelled.
setCurrentFloodingParameter_TimerKept ==
    /\ floodingTimes' = 0
    /\ attackIndex' = index
    /\ timer' = scheduleAt(timer)

\* The timer is cancelled; the caller schedules it.
setCurrentFloodingParameter ==
    /\ floodingTimes' = 0
    /\ attackIndex' = index
    /\ timer' = scheduleAt(cancelEvent(timer))

\* A start message is handled, whichever way it is decided.
StartMessage ==
    /\ startMsgs > 0
    /\ startMsgs' = startMsgs - 1
    /\ index' = index + 1
    /\ UNCHANGED <<maxPacket, total>>

TakePart ==
    /\ StartMessage
    /\ ~zombieActive
    /\ setCurrentFloodingParameter
    /\ zombieActive' = TRUE
    /\ UNCHANGED <<packetsSent, records>>

\* Mutant: the attack that ends is not recorded.
SwitchAttack_NoRecord ==
    /\ StartMessage
    /\ zombieActive
    /\ setCurrentFloodingParameter
    /\ UNCHANGED <<zombieActive, packetsSent, records>>

SwitchAttack ==
    /\ StartMessage
    /\ zombieActive
    /\ recordAttackScalars
    /\ setCurrentFloodingParameter
    /\ UNCHANGED zombieActive

StopAttack ==
    /\ StartMessage
    /\ zombieActive
    /\ zombieActive' = FALSE
    /\ timer' = cancelEvent(timer)
    /\ recordAttackScalars
    /\ UNCHANGED <<floodingTimes, attackIndex>>

\* The random numbers decide against a change.
GoOn ==
    /\ StartMessage
    /\ UNCHANGED <<zombieActive, timer, floodingTimes, packetsSent, attackIndex,
                   records>>

\* Mutant: the count of the current attack is not advanced.
Flood_NoCount ==
    /\ timer > 0
    /\ packetsSent < MaxFlood
    /\ total' = total + 1
    /\ packetsSent' = packetsSent + 1
    /\ UNCHANGED <<maxPacket, startMsgs, index, attackIndex, floodingTimes,
                   zombieActive, timer, records>>

\* Is the timer to be scheduled again?
More(sent, limit) == sent < limit \/ limit < 0

\* The flooding timer expires: a packet is sent.
Flood ==
    /\ timer > 0
    /\ maxPacket[attackIndex] < 0 => floodingTimes < MaxFlood
    /\ total' = total + 1
    /\ floodingTimes' = floodingTimes + 1
    /\ LET sent == packetsSent + 1
           last == ~More(floodingTimes', maxPacket[attackIndex])
       IN /\ timer' = IF last THEN timer - 1 ELSE scheduleAt(timer - 1)
          /\ zombieActive' = ~last
          /\ packetsSent' = IF last THEN 0 ELSE sent
          /\ records' = IF last
                        THEN Append(records, [attack |-> attackIndex,
                                              packets |-> sent])
                        ELSE records
    /\ UNCHANGED <<maxPacket, startMsgs, index, attackIndex>>

AttackNext == TakePart \/ SwitchAttack \/ StopAttack \/ GoOn \/ Flood

AttackSpec == AttackInit /\ [][AttackNext]_attackVars

\* The event loop delivers the timer.
AttackFairSpec == AttackSpec /\ WF_attackVars(Flood)

-----------------------------------------------------------------------------
(* Properties.                                                             *)

\* The variables keep their types; parameters are only set for an attack
\* that is configured ("index in setCurrentFloodingParameter greater than
\* vector size", line 147).
AttackTypeOK ==
    /\ startMsgs \in 0..Attacks /\ index \in 0..Attacks
    /\ zombieActive \in BOOLEAN /\ timer \in Nat
    /\ floodingTimes \in Nat /\ packetsSent \in Nat /\ total \in Nat
    /\ attackIndex \in -1..(Attacks - 1)
    /\ \A r \in Range(records) : r.attack \in 0..(Attacks - 1) /\ r.packets \in Nat

\* The flooding timer is scheduled exactly once while the zombie takes part in
\* an attack and not at all otherwise, through any sequence of starts, switches,
\* stops and limits.
TimerWhileActive == AttackTypeOK /\ timer = (IF zombieActive THEN 1 ELSE 0)

\* The packets of all records.
PacketsOf(rs) ==
    LET sum[n \in 0..Len(rs)] == IF n = 0 THEN 0 ELSE sum[n - 1] + rs[n].packets
    IN  sum[Len(rs)]

\* finish() records only for an active zombie: when it is inactive, every
\* packet has been recorded, and each packet is recorded once.
EveryPacketRecorded ==
    /\ total = packetsSent + PacketsOf(records)
    /\ ~zombieActive => packetsSent = 0

\* No record has more packets than the limit of the attack it names, but
\* for the one packet that an attack with limit 0 sends: the packets of two
\* attacks are never mixed.
RecordsWithinLimit ==
    \A r \in Range(records) :
        maxPacket[r.attack] > 0 => r.packets <= maxPacket[r.attack]

\* An attack with a limit ends.
LimitedAttackEnds ==
    (zombieActive /\ maxPacket[attackIndex] >= 0)
        ~> (~zombieActive \/ maxPacket[attackIndex] < 0)
=============================================================================
