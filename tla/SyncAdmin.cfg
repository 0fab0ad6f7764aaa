SPECIFICATION FairSpec
CONSTANTS
    alice = alice
    bob = bob
    Users = {alice}
    IPs = {ip1, ip2}
    Messages = {}
    Sender <- MCSender
    MaxActiveIPs = 1
    Texts <- MCTextsAdmin
    Requests = {}
    proxy = proxy
    Trusted = {proxy}
    Malformed = Malformed
    Entries <- MCEntries
    AddressOf <- MCAddressOf
    IPv4Entries <- MCIPv4Entries
    Width = 16
    DefaultTTL = 3
    LinkTTL = 1
    LinkRetries = 0
    MaxLag = 0
    MaxTime = 1
    MaxGrants = 2
    MaxAudits = 2
    Units = {1, 2, 4}
    Posters = {}
    MaxTTL = 3
    MaxGrantTTL = 7
    BotEnabled = FALSE
    AdminEnabled = TRUE
    MaxFaults = 1
CHECK_DEADLOCK FALSE
INVARIANT
    PassSyncs
PROPERTIES
    ForeignEntriesUntouched
    SyncedAuditIsTrue
    Converges
    AuditsClose
