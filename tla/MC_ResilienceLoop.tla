------------------------- MODULE MC_ResilienceLoop -------------------------
(***************************************************************************)
(* Instances of ResilienceLoop for TLC.                                    *)
(***************************************************************************)
EXTENDS ResilienceLoop

CONSTANTS a1, a2

Hosts == {a1, a2}

\* An attack on a1; the flow is limited while a2 may be limited as well.
Attack == {[destination |-> a1, key |-> 1]}

\* edge9 is named by the policy but is not part of the network.
PolicyNames == <<"edge3", "edge9", "edge4">>

OneThird == <<1, 3>>

Network == {"edge3", "edge4"}
=============================================================================
