SPECIFICATION LiveSpec
CONSTANTS
    u1 = u1
    u2 = u2
    Users = {u1, u2}
    Tabs = {t1}
    Slots <- SecondInOne
    Accounts <- TwiceThenOther
    None = None
INVARIANTS
    TypeOK
    ListedIffOpen
    OfflineIsTrue
PROPERTIES
    ComesOnline
