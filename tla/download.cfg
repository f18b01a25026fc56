SPECIFICATION FairSpec
CONSTANTS
    Tasks = {t1, t2}
    Files = {f1, f2, f3}
    NoFile = NoFile
    NoTask = NoTask
    N = 2
    MaxInstalls = 2
    Surroundings = {{"death", "transfer", "directory", "corruption"}, {"overlap", "transfer"}}
CHECK_DEADLOCK FALSE
INVARIANTS
    ReadyIsIntact
    RowsKeep
PROPERTY
    DownloadsReturn
