SPECIFICATION Spec
CONSTANTS
    alice = alice
    bob = bob
    Users = {alice}
    IPs = {ip1}
    Messages = {}
    Sender <- MCSender
    MaxActiveIPs = 1
    TTLs = {1, 3}
    DefaultTTL = 2
    LinkTTL = 1
    LinkRetries = 0
    MaxLag = 1
    MaxTime = 3
    MaxGrants = 1
    MaxAudits = 0
    MaxRecords = 1
CHECK_DEADLOCK FALSE
PROPERTY
    LiveRecordStaysExact
