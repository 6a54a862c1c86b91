SPECIFICATION Spec
CONSTANTS
    Lower <- LowerOf
    Separator = ";"
    Hardware <- Machine
    Option = {"key_control", "persist"}
    NoOption = "no option"
    Elements <- SomeElements
    MaxDepth = 3
    Profiles = 2
    ConfFiles <- SomeConf
    NoFile = NoFile
    NoGroup = NoGroup
INVARIANTS
    TypeOK
    DepthAndBound
    OptionsFollowFiles
PROPERTY
    ParserMeans
