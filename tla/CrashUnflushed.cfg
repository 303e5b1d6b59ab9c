CONSTANTS
    a = a
    t1 = t1
    t2 = t2
    t3 = t3
    t4 = t4
    None = None
    Targets = {a}
    Temps = {t1, t2, t3, t4}
    Numbers <- UpTo3
    NOps = 1
    Operand <- OnePath
    BatchSize = 2
    Kernels <- Unreadable
    Specs <- SimpleOnly
    StartSets <- Taken
    MaxFaults = 0
    MaxOther = 0
    OtherNames <- NoNames
    Races = FALSE
    Signals = FALSE
SPECIFICATION CrashSpec
INVARIANT CrashKeepsOld
