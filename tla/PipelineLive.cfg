SPECIFICATION FairSpec
CONSTANTS
    alice = alice
    Messages = {e1, e2}
    Menus = {e2}
    Clicks = {}
    Author <- MCAuthor
    Workers = {w1}
    Callbacks = {}
    RateLimit = 1
    Minute = 1
    BackoffCap = 1
    BatchSize = 1
    MaxFaults = 2
CHECK_DEADLOCK FALSE
PROPERTY
    EventsAnswered
