SPECIFICATION Spec
CONSTANTS
    Dev = {0, 1}
    BootDev = {0}
    BootStored = {FALSE}
    Types <- OneType
    KeyTypes <- OneType
    Type <- TwoWlan
    Platform = {0}
    ForceSync = FALSE
    Persist = FALSE
    MasterKey = TRUE
    HotplugFd = {TRUE}
    MaxStimuli = 3
PROPERTY AllServed
\* The stimuli are bounded: the system stops when they are used up.
CHECK_DEADLOCK FALSE
