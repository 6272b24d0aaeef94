\* Two clients and both tasks: plays, stops and seeks in every order, so that a
\* stop may fall between the two critical sections of a play.
CONSTANTS
    Clients = {c1, c2}
    Workers = {w1, w2}
    NoTask = NoTask
    Free = Free
    Leaked = Leaked
    NoWorker = NoWorker
    QSize = 16
    MaxPlays = 2
    Ops = {"stop", "stop_all", "seek"}
    Types = {"SINGLE"}
    Msgs = {"ERROR", "BUFFERING"}
SPECIFICATION Spec
SYMMETRY Symmetry
INVARIANTS
    IdleMeansFinished
    ReportsOwnId
