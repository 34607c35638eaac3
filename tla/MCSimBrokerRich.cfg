CONSTANTS
    None = None
    u1 = u1
    u2 = u2
    test = test
    spot = spot
    eurusd = eurusd
    orphan = orphan
    acct = acct
    other = other
    Symbols <- RichSymbols
    OneshotSymbols = {spot}
    FxSymbols <- RichFx
    BaseRateSymbol <- RichBaseRates
    Decimals <- RichDecimals
    LotSize = 1
    StartingBalance = 4
    Account = acct
    AccountIds = {acct, other}
    Uuids = {u1}
    Sizes = {0, 1}
    Prices = {2}
    Stops = {None, 1}
    TakeProfits = {None, 3}
    Ticks <- RisingTicks
SPECIFICATION FairScanSpec
INVARIANT ScanSound
PROPERTY TickTerminates
CHECK_DEADLOCK FALSE
