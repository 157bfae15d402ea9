CONSTANTS
  Guests = {g1, g2}
  Accounts = {a1}
  Relics = {deck, coil}
  Decks = {}
  Faults = {}
  OrderedDeadlines = TRUE
  ArtifactsOutrate = TRUE
SPECIFICATION FairSpec
INVARIANT NothingLost
PROPERTIES Circulates AbandonedReturns
