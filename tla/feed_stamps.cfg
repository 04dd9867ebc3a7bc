SPECIFICATION FairSpec
CONSTANTS
  Quotes = {q1}
  NoQuote = NoQuote
  Estimates = {1, 2}
  MaxStack = 2
  MaxBars = 2
  Market = Market
  Nobody = Nobody
INVARIANT TypeOK
INVARIANT LatestIsPublished
INVARIANT SleeperMissesNothing
INVARIANT BarsInOrder
PROPERTY KeepsNewest
PROPERTY StampIsTaken
