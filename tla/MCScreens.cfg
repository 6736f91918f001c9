SPECIFICATION MCSpec
CONSTANTS
    Users = {me, other}
    Me = me
    OrderIds = {1, 2, 3}
    Prices = {1}
    Quantities = {1, 2}
    Times = {0}
    Limit = 2
    MaxRequests = 3
    MaxDrops = 1
INVARIANTS
    ScreensTypeOK
    OpenOrdersShown
    BookShown
    NewestTradeOnTop
PROPERTY LiveTradesStay
CHECK_DEADLOCK FALSE
