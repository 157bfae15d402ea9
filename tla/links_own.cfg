CONSTANTS
  Persons = {p1, p2}
  Nicks = {n1, n2, n3}
  Accounts = {a1, a2}
  p1 = p1
  p2 = p2
  n1 = n1
  n2 = n2
  n3 = n3
  a1 = a1
  a2 = a2
  None = None
  OwnNicks <- PersonalNicks
  OwnAccounts <- PersonalAccounts
  Namesakes <- CrossNamesakes
  Caps = {"account-notify"}
  Outages = {"kick", "disconnect"}
  GraceTicks = 2
  MaxMoves = 5
  MaxWire = 3
  MaxRep = 0
SPECIFICATION Spec
INVARIANTS TypeOK PlayIsOwn TrackedUnlessRaced
CONSTRAINT NothingRaced
