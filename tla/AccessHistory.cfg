SPECIFICATION Spec
CONSTANTS
    alice = alice
    bob = bob
    Users = {alice, bob}
    IPs = {ip1}
    Messages = {m1}
    Sender <- MCSender
    MaxActiveIPs = 1
    TTLs = {1, 3}
    DefaultTTL = 2
    LinkTTL = 1
    LinkRetries = 0
    MaxLag = 1
    MaxTime = 3
    MaxGrants = 2
    MaxAudits = 1
    MaxRecords = 1
CHECK_DEADLOCK FALSE
INVARIANTS
    TypeOK
    OwnersHeldIt
PROPERTY
    HistoryIsStable
