SPECIFICATION Spec
CONSTANTS
    None = None
    Host = {h1}
    Client = {c1, c2}
    Network = {n1, n2}
    Key = {k1}
    DnsServer = {}
    AllowedIpsSet = {a1}
    Address = {ip1, ip2, ip3}
    Cidr = {{ip1, ip2, ip3}}
SYMMETRY ClientsSymmetry
INVARIANTS
    ConnectionsOverInterfaces
    NoOrphanMembership
    OneInterfacePerNetwork
    AddressesUnique
    FilesMatch
