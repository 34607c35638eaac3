CONSTANTS
    None = None
    s1 = s1
    s2 = s2
    Streams = {s1, s2}
    Backtests = {s1}
    BrokerStreams = {s2}
    Rows = 3
    Published = 2
    RandomTicks = 6
    Definitions <- MCDefinitions
    RawStreams <- MCRawStreams
    HandleCapacity = 2
SPECIFICATION FairSpec
INVARIANTS
    BacktesterSound
    SinkSeesUnbrokenRun
    EarlyExitHolds
PROPERTIES
    TimelyStopEndsReader
    OrphanedReaderEnds
CHECK_DEADLOCK FALSE
