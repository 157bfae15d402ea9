SPECIFICATION Spec
CONSTANTS
    Guests = {g1, g2}
    Accounts = {a1}
    Crashes = FALSE
    MaxErrors = 0
    QuickReconnect = TRUE
    MaxTeam = 2
    MaxPeople = 2
    MaxEvents = 1
SYMMETRY Interchangeable
INVARIANT LoyalSucceeds
