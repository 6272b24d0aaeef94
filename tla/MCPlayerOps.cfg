\* One client that uses every call, both play types, every bus message.  The
\* system may stop: pause and resume can leave a task's mutex locked.
CONSTANTS
    Clients = {c1}
    Workers = {w1, w2}
    NoTask = NoTask
    Free = Free
    Leaked = Leaked
    NoWorker = NoWorker
    QSize = 16
    MaxPlays = 2
    Ops = {"stop", "seek", "pause", "resume"}
    Types = {"SINGLE", "LOOP"}
    Msgs = {"ERROR", "EOS", "BUFFERING", "BUFFERED", "CLOCK_LOST"}
SPECIFICATION Spec
CHECK_DEADLOCK FALSE
INVARIANTS
    TypeOK
    SuccessReleases
    NoUseAfterFree
    OnlyLeaksBlock
