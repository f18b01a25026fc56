SPECIFICATION Spec
CONSTANTS
    Sess = {s1}
    Reqs = {r1, r2}
    Setups <- Saved
    TurnOutputs <- AllReplies
    MaxTurns = 2
    MaxRecap = 2
    Vars <- MCVars
    Lo <- MCLo
    Hi <- MCHi
    Default <- MCDefault
    MaxDelta <- MCMaxDelta
    Events <- MCEvents
    When <- MCWhen
    Repeats <- MCRepeats
    Success <- MCSuccess
    Failure <- MCFailure
    Timeout <- NoCondition
PROPERTY
    EndedIsTerminal
