CONSTANTS
    Null = Null
    UBits = 8
    OffBits = 8
    IdBits = 4
    Kilo = 4
    Users <- UserIds
    Groups <- GroupIds
    RefMode <- ModeOf
    Euid = 0
    Lines <- Missing
    Controls <- NoControl
SPECIFICATION Spec
INVARIANT MissingReported
