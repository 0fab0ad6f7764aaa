SPECIFICATION Spec
CONSTANTS
    alice = alice
    m1 = m1
    Users = {alice}
    IPs = {ip1, ip2, ip3}
    Messages = {m1}
    Sender <- MCSender
    MaxActiveIPs = 2
    TTLs = {2}
    DefaultTTL = 1
    LinkTTL = 1
    LinkRetries = 0
    MaxLag = 1
    MaxTime = 2
    MaxGrants = 3
    MaxAudits = 1
SYMMETRY MCSymmetry
CHECK_DEADLOCK FALSE
INVARIANTS
    TypeOK
    ActiveIPLimit
    LinkGrantsBackedByTokens
PROPERTY
    InactiveIsFinal
