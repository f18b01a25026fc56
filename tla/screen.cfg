SPECIFICATION MCSpec
CHECK_DEADLOCK FALSE
CONSTANTS
  MaxTurns = 2
  MaxLoads = 2
  Polls = 1
  Chunks = 3
  MaxFades = 2
  Models = {"small", "large"}
  Lengths = {0, 8, 29, 30, 43, 58, 61, 900}
  MaxSamples = 3
  Longest = 600
INVARIANTS
  ViewIsTrue
  SpeechTakesTurns
PROPERTIES
  TurnsEndRight
  WaitIsHonest
  NeverPinned
