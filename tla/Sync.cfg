SPECIFICATION SSpec
CONSTANTS
    Dev = {0, 1}
    BootDev = {0, 1}
    BootStored = {FALSE}
    Types <- OneType
    KeyTypes = {}
    Type <- TwoWlan
    Platform = {}
    ForceSync = TRUE
    Persist = FALSE
    MasterKey = FALSE
    HotplugFd = {TRUE}
    MaxStimuli = 3
INVARIANTS
    HardBlockSticks
PROPERTIES
    Quiesces
\* The stimuli are bounded: the system stops when they are used up.
CHECK_DEADLOCK FALSE
