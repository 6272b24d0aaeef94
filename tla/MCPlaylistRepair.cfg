\* Every fix, in every order, over up to three program runs, each of which may
\* end anywhere, in hls_parse too; the last one may also copy streams to another file,
\* which is longer than one of them, shorter than the other and cut off.  Then nothing is left to do.
CONSTANTS
    PayloadSize = 28
    Files <- TwoFiles
    Outputs <- Copies
    Leftovers <- CleanMemory
    FixedPid = 256
    Pids = {256}
    Ops = {"key", "pcr", "cc"}
    MaxRuns = 3
    CopyRuns = {3}
SPECIFICATION Spec
CHECK_DEADLOCK FALSE
INVARIANTS
    TypeOK
    OnlyFixesShow
    Repaired
PROPERTIES
    ReadsBack
    CopyReads
