SPECIFICATION Spec
CONSTANTS
    None = None
    Host = {h1}
    Client = {}
    Network = {n1}
    Key = {k1}
    DnsServer = {}
    AllowedIpsSet = {}
    Address = {ip1}
    Cidr = {{ip1}}
INVARIANTS
    NonWireGuardHasNoKey
