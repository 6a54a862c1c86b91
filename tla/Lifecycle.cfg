SPECIFICATION FairSpec
CONSTANTS
    Proc = {p1, p2}
    Nobody = Nobody
    Persist = TRUE
    KeyControl = TRUE
    OtherUser = TRUE
    Modems = TRUE
    MaxStimuli = 5
INVARIANTS
    TypeOK
    AskedAboutADevice
    FileTellsRadio
PROPERTIES
    ServesOrEnds
    StopsWhenTold
\* The stimuli are bounded: the system stops when they are used up.
CHECK_DEADLOCK FALSE
