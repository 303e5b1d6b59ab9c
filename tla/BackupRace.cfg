CONSTANTS
    a = a
    b = b
    t1 = t1
    t2 = t2
    t3 = t3
    t4 = t4
    None = None
    Targets = {a}
    Temps = {t1, t2, t3}
    Numbers <- OneNumber
    NOps = 1
    Operand <- OnePath
    BatchSize = 1
    Kernels <- ModernKernel
    Specs <- BackupOnly
    StartSets <- Empty
    MaxFaults = 0
    MaxOther = 1
    OtherNames <- PathNames
    Races = FALSE
    Signals = FALSE
SPECIFICATION Spec
PROPERTY KeepsOthers
