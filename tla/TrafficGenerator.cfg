SPECIFICATION ChoiceFairSpec
CONSTANTS
    Home = home
    Networks = {home, far}
    Profiles = {p1, p2, p3}
    Wan = {p1, p2}
    Lan = {p2, p3}
    RunLimit = 6
    None = None
INVARIANTS
    TargetServesProfile
    ForeignIsElsewhere
    OneselfOnlyInFlatNet
PROPERTIES
    ChoiceEnds
CHECK_DEADLOCK FALSE
