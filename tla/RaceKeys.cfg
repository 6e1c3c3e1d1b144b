SPECIFICATION RequestsSpec
CONSTANTS
    None = None
    Thread = {w1, w2}
    MayBeKilled = FALSE
    Host = {}
    Client = {c1}
    Network = {}
    Key = {k1, k2}
    DnsServer = {}
    AllowedIpsSet = {}
    Address = {}
    Cidr = {}
INVARIANTS
    KeysLive
