\* The pool as gst_player_new builds it: two workers, sixteen containers;
\* enough submissions for the ring to come round.
CONSTANTS
    Workers = {w1, w2}
    Tasks = {t1}
    NoTask = NoTask
    QSize = 16
    MaxSubmits = 19
SPECIFICATION FairSpec
INVARIANTS
    TypeOK
    NeverRejects
    HolderKeepsJob
    NothingLost
    NoSharedContainer
PROPERTIES
    HandoffSpec
    WaitingTaskIsTaken
