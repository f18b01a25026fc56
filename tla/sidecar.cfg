SPECIFICATION FairSpec
CONSTANTS
    Calls = {c1, c2}
    Procs = {p1, p2, p3}
    NoProcess = NoProcess
    Surroundings = {{"log"}, {"overlap", "death"}}
INVARIANTS
    NoStray
    StoppedMeansGone
    StartingIsInFlight
PROPERTY
    CallsReturn
