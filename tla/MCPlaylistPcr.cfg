\* One run of the clock reference fix.
CONSTANTS
    PayloadSize = 28
    Files <- TwoFiles
    Outputs <- NoOutputs
    Leftovers <- CleanMemory
    FixedPid = 256
    Pids = {256}
    Ops = {"pcr"}
    MaxRuns = 1
    CopyRuns = {}
SPECIFICATION Spec
CHECK_DEADLOCK FALSE
INVARIANT PcrFollowsPts
