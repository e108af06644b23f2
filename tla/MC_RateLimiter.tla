-------------------------- MODULE MC_RateLimiter ---------------------------
(***************************************************************************)
(* An instance of RateLimiter for TLC.                                     *)
(***************************************************************************)
EXTENDS RateLimiter, TLC

CONSTANTS a1, a2, a3, p1, p2

Dests == {a1, a2, a3}
Pkts == {p1, p2}

\* The flows to a1 and a2 have the same hash (generateKey puts no separator
\* between its fields); a third flow to a2 has another.
Flow1 == [destination |-> a1, key |-> 1]
Flow2 == [destination |-> a2, key |-> 1]
Flow3 == [destination |-> a2, key |-> 2]
FlowSet == {Flow1, Flow2, Flow3}
PacketFlow == (p1 :> Flow1) @@ (p2 :> Flow3)
=============================================================================
