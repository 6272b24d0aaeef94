\* Seventeen packets of one pid across three files, so that the counter wraps.  After
\* the last program run nothing is left to do.
CONSTANTS
    PayloadSize = 28
    Files <- LongFiles
    Outputs <- NoOutputs
    Leftovers <- CleanMemory
    FixedPid = 256
    Pids = {256, 257}
    Ops = {"cc", "len"}
    MaxRuns = 2
    CopyRuns = {}
SPECIFICATION Spec
CHECK_DEADLOCK FALSE
INVARIANTS
    CountersRun
    OnlyFixesShow
PROPERTIES
    ContinuityStays
