\* A stop between the making of the loop and g_main_loop_run.
CONSTANTS
    Clients = {c1}
    Workers = {w1, w2}
    NoTask = NoTask
    Free = Free
    Leaked = Leaked
    NoWorker = NoWorker
    QSize = 16
    MaxPlays = 1
    Ops = {"stop"}
    Types = {"SINGLE"}
    Msgs = {}
SPECIFICATION FairSpec
PROPERTY StoppedEnds
