\* Two playbacks, stopped by the client or by the end of the stream.
CONSTANTS
    Clients = {c1}
    Workers = {w1, w2}
    NoTask = NoTask
    Free = Free
    Leaked = Leaked
    NoWorker = NoWorker
    QSize = 16
    MaxPlays = 2
    Ops = {"stop"}
    Types = {"SINGLE"}
    Msgs = {"EOS"}
SPECIFICATION FairSpec
PROPERTIES
    StopSticks
    StopEnds
