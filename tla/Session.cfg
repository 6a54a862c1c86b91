SPECIFICATION Spec
CONSTANTS
    plain = plain
    owner = owner
    s1 = s1
    s2 = s2
    Client = {plain, owner}
    NameOwners = {owner}
    Session = {s1, s2}
    NoSession = NoSession
    SessionOf <- OneEach
    Seat = {seat0, seat1}
    Cookie = {1, 2}
    FollowsActive = TRUE
    MaxStimuli = 5
SYMMETRY Seats
INVARIANTS
    TypeOK
    GoneClientsRelease
    CookieCounts
    DecisionFresh
    DecisionCurrent
\* The stimuli are bounded: the system stops when they are used up.
CHECK_DEADLOCK FALSE
