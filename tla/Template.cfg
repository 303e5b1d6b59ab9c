CONSTANTS
    NoSize = NoSize
    Confs <- AllConfs
    Buf = 2
    Changes <- AnyChange
    MaxChanges = 1
    MaxFaults = 1
SPECIFICATION Spec
INVARIANTS FaithfulCopy LayoutKept OnlyTemplateBytes StdinLeft
