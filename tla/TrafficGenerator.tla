-------------------------- MODULE TrafficGenerator --------------------------
(***************************************************************************)
(* How a user chooses its next transmission: InetUser asks the connection  *)
(* manager of its AS, which draws a profile from the TrafficProfileManager *)
(* and looks for a server, in its own AS or, through the top manager, in   *)
(* another one.  The users choose independently of each other, within one  *)
(* event; one user is modelled, and each round of its loops is a step.     *)
(*                                                                         *)
(* The initial states are those after the initialisation stages: any set   *)
(* of servers has registered, the user itself among them, because clients  *)
(* are receivers of Ping and UDPMisc traffic.  Every server has a port:    *)
(* with a port that is not positive no transmission would start at all.    *)
(***************************************************************************)
EXTENDS Integers, FiniteSets

CONSTANTS
    Networks,    \* the ASes whose managers have registered with the top manager
    Home,        \* the AS of the user
    Profiles,
    Wan,         \* profiles of which a share goes to other ASes (WANprob > 0)
    Lan,         \* profiles of which a share stays at home (WANprob < 1)
    RunLimit,    \* bound: stands for 100, the runs of transmissionDone
    None         \* no profile (-1), no target (an unspecified address)

ASSUME NetworkAssumption ==
    /\ Home \in Networks
    /\ Wan \cup Lan = Profiles
    /\ None \notin Profiles
    /\ RunLimit \in Nat /\ RunLimit > 2

VARIABLES
    isFlatNet,   \* is the manager of Home the top manager, and the only one?
    servers,     \* the registered servers of all managers
    pc,          \* where transmissionDone is
    runs,
    tp,          \* curTrafficProfile
    except,      \* exceptId
    isForeign,
    target       \* curTargetInfo

choiceVars == <<isFlatNet, servers, pc, runs, tp, except, isForeign, target>>
network == <<isFlatNet, servers>>

\* A server is registered for a profile with the manager of its AS; "me" is
\* the user.
Server ==
    [as : Networks, profile : Profiles, id : {"server"}]
        \cup [as : {Home}, profile : Profiles, id : {"me"}]

ChoiceInit ==
    /\ isFlatNet \in BOOLEAN
    /\ servers \in SUBSET {s \in Server : isFlatNet => s.as = Home}
    /\ pc = "idle"
    /\ runs = 0
    /\ tp = None
    /\ except = None
    /\ isForeign = FALSE
    /\ target = None

-----------------------------------------------------------------------------
(* The managers.  Their random choices, at most 100 tries each, may all    *)
(* fall on an entry that is to be skipped.                                 *)

\* Mutant: the profile is not looked up.
haveProfile_AnyProfile(as, p, caller) ==
    LET found == {s \in servers : s.as = as}
        good  == {s \in found : s.id # caller}
    IN good \cup (IF good = found /\ found # {} THEN {} ELSE {None})

\* Mutant: the caller is not skipped.
haveProfile_Caller(as, p, caller) ==
    LET found == {s \in servers : s.as = as /\ s.profile = p}
    IN IF found = {} THEN {None} ELSE found

\* The values of ti after haveProfile.
haveProfile(as, p, caller) ==
    LET found == {s \in servers : s.as = as /\ s.profile = p}
        good  == {s \in found : s.id # caller}
    IN good \cup (IF good = found /\ found # {} THEN {} ELSE {None})

\* Mutant: the AS that asks is not left out.
getForeignServer_Any(p) ==
    {None} \cup UNION {haveProfile(as, p, None) : as \in Networks}

\* The values of ti after getForeignServer: Home, the AS that asks, is
\* skipped, and it can be drawn every time.
getForeignServer(p) ==
    {None} \cup UNION {haveProfile(as, p, None) : as \in Networks \ {Home}}

\* The values of ti after the second half of getServer.  In a flat network
\* a foreign server is looked for on behalf of the manager, not of the user.
getServer ==
    IF isForeign
    THEN IF isFlatNet THEN haveProfile(Home, tp, "manager") ELSE getForeignServer(tp)
    ELSE LET local == haveProfile(Home, tp, "me")
         IN IF None \in local /\ ~isFlatNet
            THEN (local \ {None}) \cup getForeignServer(tp)
            ELSE local

-----------------------------------------------------------------------------
(* The user.                                                               *)

\* The wakeup message, or transmissionDone(stat) of an application.
\* currentProfileId, which is never assigned, is None.
transmissionDone ==
    /\ pc \in {"idle", "running"}
    /\ pc' = "run"
    /\ runs' = 0
    /\ except' = None
    /\ UNCHANGED <<network, tp, isForeign, target>>

\* Mutant: the runs are not counted.
BeginRun_NoCount ==
    /\ pc = "run"
    /\ pc' = "draw"
    /\ isForeign' = FALSE
    /\ UNCHANGED <<network, runs, except, tp, target>>

\* A round of the loop, up to the call of the profile manager.
BeginRun ==
    /\ pc = "run"
    /\ pc' = "draw"
    /\ runs' = runs + 1
    /\ except' = IF runs' = RunLimit \div 2 THEN None ELSE except
    /\ isForeign' = FALSE
    /\ UNCHANGED <<network, tp, target>>

\* getTrafficProfile, and the test whether another one must be drawn.
\* isForeign is set, and never reset.
Draw(p, wan) ==
    /\ pc = "draw"
    /\ wan => p \in Wan
    /\ ~wan => p \in Lan
    /\ tp' = p
    /\ isForeign' = (isForeign \/ wan)
    /\ pc' = IF p = except THEN "draw" ELSE "resolve"
    /\ UNCHANGED <<network, runs, except, target>>

\* The rest of getServer, and the end of the round.
Resolve ==
    /\ pc = "resolve"
    /\ except' = tp
    /\ target' \in getServer
    /\ pc' = IF target' # None THEN "running"
             ELSE IF runs < RunLimit THEN "run" ELSE "error"
    /\ UNCHANGED <<network, runs, tp, isForeign>>

Choose == BeginRun \/ Resolve \/ \E p \in Profiles, wan \in BOOLEAN : Draw(p, wan)

ChoiceNext == transmissionDone \/ Choose

ChoiceSpec == ChoiceInit /\ [][ChoiceNext]_choiceVars

\* The loops go on, and the random numbers fall, at some time, on a profile
\* that is not excluded.
ChoiceFairSpec ==
    /\ ChoiceSpec
    /\ WF_choiceVars(Choose)
    /\ SF_choiceVars(\E p \in Profiles, wan \in BOOLEAN : Draw(p, wan) /\ p # except)

-----------------------------------------------------------------------------
(* Properties.                                                             *)

\* The variables keep their types.
ChoiceTypeOK ==
    /\ isFlatNet \in BOOLEAN /\ servers \subseteq Server
    /\ pc \in {"idle", "run", "draw", "resolve", "running", "error"}
    /\ runs \in 0..RunLimit
    /\ tp \in Profiles \cup {None}
    /\ except \in Profiles \cup {None}
    /\ isForeign \in BOOLEAN
    /\ target \in Server \cup {None}

\* A transmission has a target that is registered for the profile that it
\* uses, not one that an earlier round has left in curTargetInfo.
TargetServesProfile ==
    pc = "running" => target \in servers /\ target.profile = tp

\* With several ASes, a foreign transmission leaves the AS of the user.
ForeignIsElsewhere ==
    pc = "running" /\ isForeign /\ ~isFlatNet => target.as # Home

\* A user communicates with itself only where the manager asks on its own
\* behalf, for a foreign transmission in a flat network (ConnectionManager.cc:153),
\* although "If the selected server is equal to the given module id (calling
\* module) an other server will be selected." (lines 250-251).
OneselfOnlyInFlatNet ==
    pc = "running" /\ target.id = "me" => isFlatNet /\ isForeign

\* A round does not try the profile that the round before found no server
\* for, except in the round in which the exclusion is lifted.
RetriesDiffer ==
    pc = "resolve" /\ runs > 1 /\ runs # RunLimit \div 2
        => except # None /\ tp # except

\* The choice ends, with a transmission or with the error message "No valid
\* server could be requested ... (tried 100 times)" (InetUser.cc:107).
ChoiceEnds == pc = "run" ~> pc \in {"running", "error"}

=============================================================================
