CONSTANTS
    a = a
    t1 = t1
    t2 = t2
    t3 = t3
    t4 = t4
    None = None
    Targets = {a}
    Temps = {t1, t2, t3, t4}
    Numbers <- UpTo3
    NOps = 2
    Operand <- SamePath
    BatchSize = 2
    Kernels <- Flushing
    Specs <- CrashSpecs
    StartSets <- Starts
    MaxFaults = 1
    MaxOther = 0
    OtherNames <- NoNames
    Races = FALSE
    Signals = TRUE
SPECIFICATION CrashSpec
SYMMETRY Temporaries
INVARIANTS CrashKeepsOld CrashOldOrNew ExitDurable
