SPECIFICATION FSpec
CONSTANTS
    Dev = {0, 1}
    BootDev = {0}
    BootStored = {TRUE, FALSE}
    Types <- TwoTypes
    KeyTypes = {}
    Type <- OneOfEach
    Platform = {0}
    ForceSync = FALSE
    Persist = FALSE
    MasterKey = FALSE
    HotplugFd = {TRUE, FALSE}
    MaxStimuli = 3
INVARIANTS
    FlightFlagPersisted
PROPERTIES
    FlightModeRoundTrip
    FlightModeSilences
\* The stimuli are bounded: the system stops when they are used up.
CHECK_DEADLOCK FALSE
