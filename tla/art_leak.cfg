CONSTANTS
  Guests = {g1}
  Accounts = {}
  Relics = {deck, coil}
  Decks = {deck}
  Faults = {}
  OrderedDeadlines = TRUE
  ArtifactsOutrate = TRUE
SPECIFICATION Spec
PROPERTY BurnOutReturns
