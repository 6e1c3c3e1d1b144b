SPECIFICATION RequestsSpec
CONSTANTS
    None = None
    Thread = {w1}
    MayBeKilled = TRUE
    Host = {h1, h2}
    Client = {c1}
    Network = {n1}
    Key = {k1}
    DnsServer = {}
    AllowedIpsSet = {a1}
    Address = {ip1, ip2}
    Cidr = {{ip1, ip2}}
INVARIANTS
    KeysLive
    PeerSidesHold
