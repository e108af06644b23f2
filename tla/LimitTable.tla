----------------------------- MODULE LimitTable -----------------------------
(***************************************************************************)
(* What the lists of the rate limiter promise: two partial maps, from      *)
(* destinations to rates and from flow keys to rates.  A limit is added    *)
(* with the rate that was asked for; while it exists its rate never        *)
(* changes.  The limit of a destination may be lifted, that of a flow      *)
(* never is.                                                               *)
(***************************************************************************)
EXTENDS Functions

CONSTANTS
    Addresses,   \* destinations
    FlowKeys,    \* hashes of source, destination and protocol
    Rates        \* percentages a policy may ask for

VARIABLES
    ipLimit,     \* a function from a subset of Addresses to Rates
    flowLimit    \* a function from a subset of FlowKeys to Rates

Extend(f, x, y) == [z \in DOMAIN f \cup {x} |-> IF z = x THEN y ELSE f[z]]

Init == DOMAIN ipLimit = {} /\ DOMAIN flowLimit = {}

LimitIP(a, r) ==
    /\ a \notin DOMAIN ipLimit
    /\ ipLimit' = Extend(ipLimit, a, r)
    /\ UNCHANGED flowLimit

LiftIP(a) ==
    /\ a \in DOMAIN ipLimit
    /\ ipLimit' = Restrict(ipLimit, DOMAIN ipLimit \ {a})
    /\ UNCHANGED flowLimit

LimitFlow(k, r) ==
    /\ k \notin DOMAIN flowLimit
    /\ flowLimit' = Extend(flowLimit, k, r)
    /\ UNCHANGED ipLimit

Next ==
    \/ \E a \in Addresses, r \in Rates : LimitIP(a, r)
    \/ \E a \in Addresses : LiftIP(a)
    \/ \E k \in FlowKeys, r \in Rates : LimitFlow(k, r)

Spec == Init /\ [][Next]_<<ipLimit, flowLimit>>
=============================================================================
