SPECIFICATION Spec
CONSTANTS
    Guests = {g1, g2}
    Accounts = {a1, a2}
    Crashes = TRUE
    MaxErrors = 1
    QuickReconnect = FALSE
    MaxTeam = 2
    MaxPeople = 2
    MaxEvents = 1
CONSTRAINTS NothingTorn FewRunners
SYMMETRY Interchangeable
INVARIANTS TypeOK TeamFollows PaidOnce OnlyLoyalPaid LoyalSucceeds WorldRowCurrent
PROPERTIES RestoredBeforeTick RunsAsPromised
