CONSTANTS
  Guests = {g1, g2}
  Accounts = {a1, a2}
  Relics = {deck, coil}
  Decks = {deck}
  Faults = {}
  OrderedDeadlines = FALSE
  ArtifactsOutrate = FALSE
SPECIFICATION Spec
INVARIANTS OneHolder WriteThrough
PROPERTY Leaks
