SPECIFICATION Spec
CONSTANTS
    Sess = {s1}
    Reqs = {r1}
    Setups <- AllSetups
    TurnOutputs <- AllReplies
    MaxTurns = 2
    MaxRecap = 1
    Vars <- MCVars
    Lo <- MCLo
    Hi <- MCHi
    Default <- MCDefault
    MaxDelta <- MCMaxDelta
    Events <- MCEvents
    When <- MCWhen
    Repeats <- MCRepeats
    Success <- MCSuccess
    Failure <- MCFailure
    Timeout <- NoCondition
INVARIANT
    ClearErasesTranscripts
