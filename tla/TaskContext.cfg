CONSTANTS
    Tasks = {t1}
    NoCallback = {}
    Threads = {h1, h2, h3}
    NoTask = NoTask
SPECIFICATION FairSpec
INVARIANTS TypeOK CallbackExactlyOnce TrueMeansReleased CancelHidesResult
PROPERTIES CancelUnblocks
