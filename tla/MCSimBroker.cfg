CONSTANTS
    None = None
    u1 = u1
    u2 = u2
    test = test
    spot = spot
    eurusd = eurusd
    orphan = orphan
    acct = acct
    other = other
    Symbols <- UnitSymbols
    OneshotSymbols = {}
    FxSymbols = {}
    BaseRateSymbol <- NoBaseRates
    Decimals <- NoDecimals
    LotSize = 1
    StartingBalance = 2
    Account = acct
    AccountIds = {acct}
    Uuids = {u1, u2}
    Sizes = {1, 2}
    Prices = {2}
    Stops = {None, 1}
    TakeProfits = {None}
    Ticks <- SpreadTicks
SPECIFICATION ScanSpec
SYMMETRY UuidSymmetry
INVARIANTS
    PendingCacheCoherent
    OpenPositionsWatched
    CachePanicsUnreachable
PROPERTIES
    NothingSkipped
    ForwardOnly
    NoMoneyFromNothing
CHECK_DEADLOCK FALSE
