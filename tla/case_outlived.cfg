SPECIFICATION Spec
CONSTANTS
  Slots = {1, 2}
  SizeLimit = 2
  MaxPosition = 2
  MaxPending = 1
  MaxLeak = 0
  RoundTotal = 2
  RefusedCalls = {}
  ReplaceWorks = TRUE
  Quotes <- OneQuote
  ShareRounds <- OneRound
  BaseQty = 2
  TranchValue = 1
  Estimates = {1, 2}
  RestoredPositions <- Flat
  CancelOnTrigger = TRUE
  MaximumLive = 10
  Commands <- NoLines
  MaxCommands = 0
  Consoles = {}

CHECK_DEADLOCK FALSE
INVARIANT CallbackHasCase
