SPECIFICATION Spec
CONSTANTS
    alice = alice
    bob = bob
    Users = {alice}
    IPs = {ip1}
    Messages = {}
    Sender <- MCSender
    MaxActiveIPs = 1
    Texts <- MCTextsAdmin
    Requests = {}
    proxy = proxy
    Trusted = {proxy}
    Malformed = Malformed
    Entries <- MCEntries
    AddressOf <- MCAddressOf
    IPv4Entries <- MCIPv4Entries
    Width = 16
    DefaultTTL = 3
    LinkTTL = 1
    LinkRetries = 0
    MaxLag = 0
    MaxTime = 2
    MaxGrants = 2
    MaxAudits = 3
    Units = {1, 2, 4}
    Posters = {}
    MaxTTL = 3
    MaxGrantTTL = 7
    BotEnabled = FALSE
    AdminEnabled = TRUE
    MaxFaults = 0
CHECK_DEADLOCK FALSE
PROPERTY
    SyncedRevokeIsEffective
