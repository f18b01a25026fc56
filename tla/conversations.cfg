SPECIFICATION Spec
CONSTANTS
    Sess = {s1, s2}
    Reqs = {r1, r2}
    Setups <- Silent
    TurnOutputs <- WarmReplies
    MaxTurns = 2
    MaxRecap = 0
    Vars <- MCVars
    Lo <- MCLo
    Hi <- MCHi
    Default <- MCDefault
    MaxDelta <- MCMaxDelta
    Events <- MCEvents
    When <- MCWhen
    Repeats <- MCRepeats
    Success <- MCSuccess
    Failure <- MCFailure
    Timeout <- NoCondition
SYMMETRY SessSymmetry
INVARIANT
    BranchPrefix
PROPERTY
    ImplementsConversations
