SPECIFICATION Spec
CONSTANTS
    None = None
    Host = {h1}
    Client = {c1}
    Network = {n1}
    Key = {k1, k2}
    DnsServer = {d1}
    AllowedIpsSet = {a1}
    Address = {ip1, ip2}
    Cidr = {{ip1, ip2}, {ip2}}
SYMMETRY PresetsSymmetry
INVARIANTS
    KeysLive
    ClientsHaveKeys
    PresetsLive
PROPERTIES
    InterfaceKeepsKey
    UnusedKeysStay
