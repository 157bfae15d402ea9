CONSTANTS
  Guests = {g1, g2}
  Accounts = {a1}
  Relics = {deck, coil}
  Decks = {deck}
  Faults = {"crash", "error"}
  OrderedDeadlines = FALSE
  ArtifactsOutrate = FALSE
SPECIFICATION Spec
INVARIANTS TypeOK OnlyStaleRowsDuplicate
CONSTRAINT NothingStale
SYMMETRY Symmetry
