SPECIFICATION FairSpec
CONSTANTS
    Clients = {c1}
    Administrators = {c1}
    Handlers = {h1, h2}
    Tokens = {1, 2, 3}
    KnockHits = 3
    KnockWindow = 2
    GateTTL = 2
    SessionTTL = 2
    MaxKnockState = 1
    MaxFailures = 2
    LockWindow = 2
    MaxSessions = 1
INVARIANTS
    TypeOK
    FailuresBounded
    LoginsPerGate
PROPERTIES
    KnocksAreLeases
    GatesAreLeases
    SessionsAreLeases
    LockoutEnds
    DoorReopens
