CONSTANTS
  Persons = {p1, p2}
  Nicks = {n1, n2}
  Accounts = {a1}
  p1 = p1
  p2 = p2
  n1 = n1
  n2 = n2
  n3 = n3
  a1 = a1
  a2 = a2
  None = None
  OwnNicks <- SharedNicks
  OwnAccounts <- OneAccount
  Namesakes = {}
  Caps = {}
  Outages = {}
  GraceTicks = 2
  MaxMoves = 4
  MaxWire = 3
  MaxRep = 0
SPECIFICATION Spec
INVARIANT AccountIsOwn
