\* A third play, which uses the first task again.
CONSTANTS
    Clients = {c1}
    Workers = {w1, w2}
    NoTask = NoTask
    Free = Free
    Leaked = Leaked
    NoWorker = NoWorker
    QSize = 16
    MaxPlays = 3
    Ops = {}
    Types = {"SINGLE"}
    Msgs = {"EOS"}
SPECIFICATION Spec
INVARIANT IdleMeansFinished
