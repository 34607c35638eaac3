CONSTANTS
    None = None
    u1 = u1
    u2 = u2
    a = a
    b = b
    acct = acct
    Symbols = {a, b}
    OneshotSymbols = {}
    FxSymbols = {}
    BaseRateSymbol <- NoBaseRates
    Decimals <- NoDecimals
    LotSize = 1
    StartingBalance = 2
    Account = acct
    AccountIds = {acct}
    Uuids = {u1}
    Sizes = {1}
    Prices = {2}
    Stops = {1}
    TakeProfits = {None}
    Ticks <- AnyTick
    TickStreams <- TwoStreams
    SymbolIndex <- IndexOf
    PingNs = 2
    ExecutionDelay = 1
    ChannelSize = 2
    BufferSize = 2
    MaxActions = 3
SPECIFICATION FairLoopSpec
INVARIANTS
    LoopSound
    QueueOrder
    AnswerLatency
    TicksInOrder
PROPERTIES
    ClockMonotone
    PricesCurrent
    RefinesBroker
    EveryActionAnswered
CHECK_DEADLOCK FALSE
