\* One playback of a medium that ends, and nobody who stops it.
CONSTANTS
    Clients = {c1}
    Workers = {w1, w2}
    NoTask = NoTask
    Free = Free
    Leaked = Leaked
    NoWorker = NoWorker
    QSize = 16
    MaxPlays = 1
    Ops = {"seek"}
    Types = {"SINGLE"}
    Msgs = {"ERROR", "EOS", "BUFFERING", "BUFFERED", "CLOCK_LOST"}
SPECIFICATION FairMediaSpec
PROPERTIES
    PlaybackEnds
