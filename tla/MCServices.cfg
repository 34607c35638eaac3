CONSTANTS
    d1 = d1
    r1 = r1
    h2 = h2
    Conns = {w1, w2}
    Queries = {q1, q2, q3, q4}
    NoQuery = NoQuery
    Transfers <- MCTransfers
    Requests = {r1}
    ChunkSize = 2
    BatchSize = 2
    RowCounts = {5}
    Destinations = {"Flatfile", "RedisSet", "Postgres"}
    Archives = {d1}
    StartWeeks <- MCStartWeeks
    LastWeeks <- MCLastWeeks
    WeeksPerYear = 2
    Histories = {h1, h2}
    Descriptors = {s1}
    MaxTicks = 2
    References = {r1}
    UserDocs = {u1, u2}
    Unparsable = {u2}
    MayFail = TRUE
    MaxStops = 2
    NoDoc = NoDoc
    ClientMsgs = {c1, c2}
    PlatformMsgs = {p1, p2, p3}
    Unread = {p3}
    MaxSize = 3
    Window = 1
    TickSymbols = {sym1, sym2}
    Pushstream = Pushstream
    MaxLinks <- MCMaxLinks
    MaxSent = 4
    MaxHandlers = 3
    TickstreamIndices = {0, 1}
SPECIFICATION Spec
INVARIANTS
    QueriesSound
    DownloadsSound
    HistoriesSound
    StoreSound
    ProxySound
    ForksSound
    HandlersSound
PROPERTIES
    QueriesArePooled
    ServicesDeliver
    CallerNeverStuck
CHECK_DEADLOCK FALSE
