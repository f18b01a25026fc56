SPECIFICATION MCSpec
CHECK_DEADLOCK FALSE
CONSTANTS
  MaxJobs = 2
  MaxPolls = 2
  MaxAsks = 1
  MaxCalls = 1
  Null = Null
  Voices = {"v1", "v2"}
  MaxStarts = 2
  Packs = {"own", "item"}
  Workshop = {"item"}
  Traits = {"t1", "t2"}
  Dims = {1, 2, 3}
  Scores = {20, 60}
  Catalog <- MCCatalog
  Places = {1, 2, 3, 4}
  Records = {2, 3}
  Keys = {"gpu_layers", "temperature"}
  Inputs <- MCInputs
  Offered <- MCOffered
  Content <- MCContent
  NewPack = "p2"
  Official = {"o"}
  Local = {"l"}
  Copy = "c"
  Imported = "i"
  Files = {"f", "g"}
  Fields = {"title", "goal", "extra"}
  InForm = {"title", "goal"}
  Values = {"a", "bad"}
  Deltas <- MCDeltas
  StartValue = 50
  MaxPanels = 2
  MaxSessions = 2
  MaxTurns = 2
  MaxVisits = 2
  MaxRetries = 1
  MaxChanges = 1
  MaxUpdates = 2
  MaxAnswers = 2
  Sends <- MCSends
INVARIANTS
  PagesCatchUp
  NoPageIsStuck
  NothingUnasked
  OffersHold
