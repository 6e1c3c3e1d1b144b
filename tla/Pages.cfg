SPECIFICATION PagesSpec
CONSTANTS
    None = None
    Host = {h1}
    Client = {c1}
    Network = {n1, n2, n3}
    Key = {k1}
    DnsServer = {}
    AllowedIpsSet = {a1}
    Address = {0, 1, 2, 3}
    Cidr = {{0, 1, 2, 3}, {2, 3}, {2}}
    MaxMembers = 3
    GivenOut = {0, 2}
SYMMETRY PagesSymmetry
INVARIANTS
    ProposalIsFree
    TableTellsTruth
    EdgesHaveEnds
    TreeReachesHosts
CHECK_DEADLOCK FALSE
