CONSTANTS
    a = a
    b = b
    t1 = t1
    t2 = t2
    t3 = t3
    t4 = t4
    None = None
    Targets = {a}
    Temps = {t1, t2, t3, t4}
    Numbers <- ManyNumbers
    NOps = 2
    Operand <- SamePath
    BatchSize = 2
    Kernels <- ReplaceKernels
    Specs <- ReplaceSpecs
    StartSets <- BackedUp
    MaxFaults = 1
    MaxOther = 1
    OtherNames <- BackupNames
    Races = FALSE
    Signals = TRUE
SPECIFICATION Spec
SYMMETRY Temporaries
INVARIANTS TypeOK TempsGone NoOrphanBackup BackupAbove
PROPERTIES OldOrNew KeepsForeign
