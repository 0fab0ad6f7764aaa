SPECIFICATION Spec
CONSTANTS
    alice = alice
    Messages = {e1}
    Menus = {}
    Clicks = {}
    Author <- MCAuthor
    Workers = {w1}
    Callbacks = {}
    RateLimit = 1
    Minute = 2
    BackoffCap = 1
    BatchSize = 1
    MaxFaults = 1
CHECK_DEADLOCK FALSE
INVARIANT
    ResultIsRecorded
