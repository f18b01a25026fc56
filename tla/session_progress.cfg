SPECIFICATION FairSpec
CONSTANTS
    Sess = {s1}
    Reqs = {r1, r2}
    Setups <- Silent
    TurnOutputs <- FewReplies
    MaxTurns = 3
    MaxRecap = 0
    Vars <- MCVars
    Lo <- MCLo
    Hi <- MCHi
    Default <- MCDefault
    MaxDelta <- MCMaxDelta
    Events <- MCEvents
    When <- MCWhen
    Repeats <- MCRepeats
    Success <- MCSuccess
    Failure <- MCFailure
    Timeout <- NoCondition
PROPERTIES
    ConversationEnds
