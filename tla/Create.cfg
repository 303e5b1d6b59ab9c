CONSTANTS
    a = a
    b = b
    t1 = t1
    t2 = t2
    t3 = t3
    t4 = t4
    None = None
    Targets = {a, b}
    Temps = {t1, t2, t3}
    Numbers <- OneNumber
    NOps = 2
    Operand <- TwoPaths
    BatchSize = 2
    Kernels <- CreateKernels
    Specs <- CreateSpecs
    StartSets <- MaybeTaken
    MaxFaults = 2
    MaxOther = 1
    OtherNames <- PathNames
    Races = FALSE
    Signals = TRUE
SPECIFICATION Spec
SYMMETRY Temporaries
INVARIANTS FinishedWhenNamed PrivateUntilFinal FailedNeverAppears TempsGone Interrupted ExitZero ArmedOwned
PROPERTIES NoReplace
