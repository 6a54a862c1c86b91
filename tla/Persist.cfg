SPECIFICATION PSpec
CONSTANTS
    Dev = {0, 1}
    BootDev = {0}
    BootStored = {TRUE, FALSE}
    Types <- OneType
    KeyTypes <- OneType
    Type <- TwoWlan
    Platform = {0}
    ForceSync = FALSE
    Persist = TRUE
    MasterKey = FALSE
    HotplugFd = {TRUE, FALSE}
    MaxStimuli = 4
INVARIANTS
    PersistedStateHolds
PROPERTIES
    CleanRestartRestores
\* The stimuli are bounded: the system stops when they are used up.
CHECK_DEADLOCK FALSE
