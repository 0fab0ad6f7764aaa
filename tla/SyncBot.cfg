SPECIFICATION Spec
CONSTANTS
    alice = alice
    bob = bob
    Users = {alice, bob}
    IPs = {ip1, ip2}
    Messages = {m1}
    Sender <- MCSender
    MaxActiveIPs = 2
    Texts <- MCTextsBot
    Requests <- MCRequests
    proxy = proxy
    Trusted = {proxy}
    Malformed = Malformed
    Entries <- MCEntries
    AddressOf <- MCAddressOf
    IPv4Entries <- MCIPv4Entries
    Width = 16
    DefaultTTL = 1
    LinkTTL = 1
    LinkRetries = 0
    MaxLag = 0
    MaxTime = 1
    MaxGrants = 2
    MaxAudits = 0
    Units = {1, 2}
    Posters = {p1}
    MaxTTL = 2
    MaxGrantTTL = 1
    BotEnabled = TRUE
    AdminEnabled = FALSE
    MaxFaults = 0
SYMMETRY MCSymmetry
CHECK_DEADLOCK FALSE
INVARIANT
    TypeOK
PROPERTIES
    StoreSpec
    CommandSyncs
