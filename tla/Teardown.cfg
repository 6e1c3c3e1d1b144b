SPECIFICATION TeardownSpec
CONSTANTS
    None = None
    Host = {h1, h2}
    Client = {c1}
    Network = {n1}
    Key = {k1}
    DnsServer = {d1}
    AllowedIpsSet = {a1}
    Address = {ip1, ip2}
    Cidr = {{ip1, ip2}, {ip2}}
PROPERTIES
    EverythingCanGo
