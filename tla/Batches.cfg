CONSTANTS
    a = a
    b = b
    t1 = t1
    t2 = t2
    t3 = t3
    t4 = t4
    None = None
    Targets = {a}
    Temps = {t1, t2, t3, t4}
    Numbers <- TwoNumbers
    NOps = 2
    Operand <- SamePath
    BatchSize = 1
    Kernels <- BatchKernels
    Specs <- BatchSpecs
    StartSets <- BatchStarts
    MaxFaults = 1
    MaxOther = 0
    OtherNames <- NoNames
    Races = FALSE
    Signals = TRUE
SPECIFICATION FairSpec
INVARIANTS ExitZero Inductive
PROPERTIES Terminates SignalActs
