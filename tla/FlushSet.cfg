CONSTANTS
    p = p
    alias = alias
    q = q
    d = d
    e = e
    Nothing = Nothing
    Paths = {p, alias, q}
    Dirs = {d, e}
    DirOf <- Places
    MaxDirs = 2
    MaxFailures = 2
    Batches = 2
    MaxNamed = 3
    MaxFaults = 3
SPECIFICATION Spec
INVARIANTS TypeOK FailuresKept SparesSafe StatusTrue
