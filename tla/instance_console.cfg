SPECIFICATION FairUntilMisled
CONSTANTS
  Slots = {1, 2}
  SizeLimit = 2
  MaxPosition = 2
  MaxPending = 1
  MaxLeak = 1
  RoundTotal = 2
  RefusedCalls = {}
  ReplaceWorks = TRUE
  Quotes <- OneQuote
  ShareRounds <- OneRound
  BaseQty = 2
  TranchValue = 1
  Estimates = {1}
  RestoredPositions <- Ahead
  CancelOnTrigger = TRUE
  MaximumLive = 1
  Commands <- AllLines
  MaxCommands = 2
  Consoles = {"cli"}

CHECK_DEADLOCK FALSE
INVARIANT PanicIsAnswered
INVARIANT EndedIsHedged
PROPERTY PanicEnds
