CONSTANTS
    MaxHandlers = 2
    TickstreamIndices = {0, 1}
SPECIFICATION HandlersSpec
INVARIANT
    SubscribersHear
CHECK_DEADLOCK FALSE
