SPECIFICATION Spec
CONSTANTS
    Sess = {s1}
    Reqs = {r1, r2}
    Setups <- AllSetups
    TurnOutputs <- AllReplies
    MaxTurns = 3
    MaxRecap = 1
    Vars <- MCVars
    Lo <- MCLo
    Hi <- MCHi
    Default <- MCDefault
    MaxDelta <- MCMaxDelta
    Events <- MCEvents
    When <- MCWhen
    Repeats <- MCRepeats
    Success <- MCSuccess
    Failure <- MCFailure
    Timeout <- NoCondition
SYMMETRY ReqSymmetry
INVARIANTS
    TypeOK
    TranscriptContiguous
    StateIsLastTurn
    TurnLimit
    FiredOnce
    NoOrphans
    SearchMatchesTranscript
    ReadyHasDebrief
PROPERTY
    DebriefsStand
