CONSTANTS
    NoSize = NoSize
    Confs <- EndsInGap
    Buf = 2
    Changes <- Growth
    MaxChanges = 1
    MaxFaults = 0
SPECIFICATION Spec
INVARIANT SizeKept
