SPECIFICATION Spec
CONSTANTS
    None = None
    Host = {h1, h2}
    Client = {}
    Network = {n1, n2}
    Key = {}
    DnsServer = {}
    AllowedIpsSet = {a1, a2}
    Address = {ip1, ip2}
    Cidr = {{ip1, ip2}}
SYMMETRY PeersSymmetry
INVARIANTS
    TypeOK
    PeersReciprocal
    PeersOverInterfaces
    OneLinkPerPair
    FilesMatch
    PeersDrawnOnce
