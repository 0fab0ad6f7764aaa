SPECIFICATION Spec
CONSTANTS
    alice = alice
    Messages = {e1, e2}
    Menus = {}
    Clicks = {c1}
    Author <- MCAuthor
    Workers = {w1, w2}
    Callbacks = {h1, h2}
    RateLimit = 2
    Minute = 1
    BackoffCap = 1
    BatchSize = 1
    MaxFaults = 1
SYMMETRY MCSymmetry
CHECK_DEADLOCK FALSE
INVARIANTS
    TypeOK
    CompletedIsAnswered
    OneAnswer
    SentIsShown
PROPERTY
    RunsOnce
