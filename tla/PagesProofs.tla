----------------------------- MODULE PagesProofs -----------------------------
(***************************************************************************)
(* What the tunnel files and the pages show.  They are read from every     *)
(* inventory that the handlers can build, so each of their properties      *)
(* follows from what IntegrityProofs and LinksProofs prove of the          *)
(* collections.                                                            *)
(***************************************************************************)
EXTENDS IntegrityProofs, Tunnel, Topology, Addresses, FiniteSetTheorems, WellFoundedInduction

-----------------------------------------------------------------------------
(* Tunnel files: whom a file names. *)

AtMostOne(S) == \A p, q \in S : p = q

LEMMA BothOrNeither ==
    ASSUME NEW S, NEW T, AtMostOne(S), AtMostOne(T), S = {} <=> T = {}
    PROVE  Cardinality(S) = Cardinality(T) /\ Cardinality(S) <= 1
  <1>1. CASE S = {}
    BY <1>1, FS_EmptySet
  <1>2. CASE S # {}
    <2>1. PICK p \in S, q \in T : TRUE
      BY <1>2
    <2>2. S = {p} /\ T = {q}
      BY <2>1 DEF AtMostOne
    <2> QED
      BY <2>2, FS_Singleton
  <1> QED
    BY <1>1, <1>2

\* The entries for y in the file of x on n.
Named(x, y, n) == {p \in FileOf(x, n).peers : p.who = y}

LEMMA PeerFields ==
    ASSUME NEW w, NEW k, NEW a
    PROVE  Peer(w, k, a).who = w /\ Peer(w, k, a).key = k /\ Peer(w, k, a).allowed = a
  BY DEF Peer

LEMMA FileFields ==
    ASSUME NEW k, NEW a, NEW d, NEW ps
    PROVE  /\ File(k, a, d, ps).private_key = k
           /\ File(k, a, d, ps).address = a
           /\ File(k, a, d, ps).peers = ps
  BY DEF File

\* The clients and the hosts of a host's file are apart.
LEMMA HostFilePeers ==
    ASSUME TypeOK, NEW h \in LiveHosts, NEW n \in Network
    PROVE  /\ FileOf(h, n).private_key = InterfaceKey(h, n)
           /\ FileOf(h, n).peers = ClientPeers(h, n) \cup HostPeers(h, n)
           /\ \A p \in ClientPeers(h, n) : p.who \in Client
           /\ \A p \in HostPeers(h, n) : p.who \in Host
  <1>1. h \in Host
    BY LiveDocs
  <1>2. \A p \in ClientPeers(h, n) : p.who \in Client
    BY PeerFields DEF ClientPeers, LiveClients
  <1>3. \A p \in HostPeers(h, n) : p.who \in Host
    BY PeerFields DEF HostPeers, LiveHosts
  <1> QED
    BY <1>1, <1>2, <1>3, FileFields DEF FileOf, HostFile

LEMMA ClientFilePeers ==
    ASSUME TypeOK, NEW c \in LiveClients, NEW n \in Network
    PROVE  /\ FileOf(c, n).private_key = StoredKey(clients[c].active_key_id)
           /\ FileOf(c, n).address = AddressLine(MembershipOn(clients[c], n))
           /\ FileOf(c, n).peers = ConnectionPeers(c, n)
           /\ \A p \in ConnectionPeers(c, n) : p.who \in Host
  <1>1. c \notin Host
    BY LiveDocs, OwnersAssumption
  <1>2. \A p \in ConnectionPeers(c, n) : p.who \in Host
    BY PeerFields DEF ConnectionPeers, LiveHosts
  <1> QED
    BY <1>1, <1>2, FileFields DEF FileOf, ClientFile

\* A host's file names another host once if it stores a peer connection to it.
LEMMA HostNamesHost ==
    ASSUME TypeOK, OneLinkPerPair, NEW h \in LiveHosts, NEW g \in LiveHosts, NEW n \in Network
    PROVE  /\ AtMostOne(Named(h, g, n))
           /\ Named(h, g, n) # {} <=> PeersWith(h, g, n)
           /\ \A p \in Named(h, g, n) : p.key = FileOf(g, n).private_key
  <1>1. g \notin Client
    BY LiveDocs, OwnersAssumption
  <1>2. Named(h, g, n) = {p \in HostPeers(h, n) : p.who = g}
    BY <1>1, HostFilePeers DEF Named
  <1>3. ASSUME NEW p \in Named(h, g, n)
        PROVE  \E x \in hosts[h].peer_connections :
                  /\ x.peer_host_id = g /\ x.network_id = n
                  /\ p = Peer(g, InterfaceKey(g, n), x.allowed_ips_set_id)
    BY <1>2, PeerFields DEF HostPeers
  <1>4. ASSUME NEW x \in hosts[h].peer_connections, x.peer_host_id = g, x.network_id = n
        PROVE  Peer(g, InterfaceKey(g, n), x.allowed_ips_set_id) \in Named(h, g, n)
    BY <1>2, <1>4, PeerFields DEF HostPeers
  <1>5. \A x, y \in hosts[h].peer_connections :
           x.peer_host_id = y.peer_host_id /\ x.network_id = y.network_id => x = y
    BY DEF OneLinkPerPair
  <1>6. AtMostOne(Named(h, g, n))
    BY <1>3, <1>5 DEF AtMostOne
  <1>7. Named(h, g, n) # {} <=> PeersWith(h, g, n)
    BY <1>3, <1>4 DEF PeersWith
  <1>8. \A p \in Named(h, g, n) : p.key = FileOf(g, n).private_key
    BY <1>3, HostFilePeers, PeerFields
  <1> QED
    BY <1>6, <1>7, <1>8

Connected(c, h, n) == \E x \in clients[c].connections : x.host_id = h /\ x.network_id = n

\* A client's file names a host once if the client connects to it.
LEMMA ClientNamesHost ==
    ASSUME TypeOK, OneLinkPerPair, NEW c \in LiveClients, NEW h \in LiveHosts, NEW n \in Network
    PROVE  /\ AtMostOne(Named(c, h, n))
           /\ Named(c, h, n) # {} <=> Connected(c, h, n)
           /\ \A p \in Named(c, h, n) : p.key = FileOf(h, n).private_key
  <1>1. Named(c, h, n) = {p \in ConnectionPeers(c, n) : p.who = h}
    BY ClientFilePeers DEF Named
  <1>2. ASSUME NEW p \in Named(c, h, n)
        PROVE  \E x \in clients[c].connections :
                  /\ x.host_id = h /\ x.network_id = n
                  /\ p = Peer(h, InterfaceKey(h, n), x.allowed_ips_set_id)
    BY <1>1, PeerFields DEF ConnectionPeers
  <1>3. ASSUME NEW x \in clients[c].connections, x.host_id = h, x.network_id = n
        PROVE  Peer(h, InterfaceKey(h, n), x.allowed_ips_set_id) \in Named(c, h, n)
    BY <1>1, <1>3, PeerFields DEF ConnectionPeers
  <1>4. \A x, y \in clients[c].connections :
           x.host_id = y.host_id /\ x.network_id = y.network_id => x = y
    BY DEF OneLinkPerPair
  <1>5. AtMostOne(Named(c, h, n))
    BY <1>2, <1>4 DEF AtMostOne
  <1>6. Named(c, h, n) # {} <=> Connected(c, h, n)
    BY <1>2, <1>3 DEF Connected
  <1>7. \A p \in Named(c, h, n) : p.key = FileOf(h, n).private_key
    BY <1>2, HostFilePeers, PeerFields
  <1> QED
    BY <1>5, <1>6, <1>7

LEMMA MembershipFound ==
    ASSUME NEW doc, NEW n, MemberOf(doc, n)
    PROVE  /\ MembershipOn(doc, n) \in doc.network_memberships
           /\ MembershipOn(doc, n).network_id = n
  BY DEF MemberOf, MembershipOn

\* A host's file names a client once if the client connects to it, under the
\* client's own address on the network.
LEMMA HostNamesClient ==
    ASSUME TypeOK, NoOrphanMembership, NEW h \in LiveHosts, NEW c \in LiveClients,
           NEW n \in Network, MemberOf(clients[c], n)
    PROVE  /\ AtMostOne(Named(h, c, n))
           /\ Named(h, c, n) # {} <=> Connected(c, h, n)
           /\ \A p \in Named(h, c, n) : /\ p.key = FileOf(c, n).private_key
                                        /\ p.allowed = FileOf(c, n).address
                                        /\ p \in ClientPeers(h, n)
  <1> DEFINE entry == Peer(c, StoredKey(clients[c].active_key_id), MembershipOn(clients[c], n).ip)
  <1>1. c \notin Host
    BY LiveDocs, OwnersAssumption
  <1>2. Named(h, c, n) = {p \in ClientPeers(h, n) : p.who = c}
    BY <1>1, HostFilePeers DEF Named
  <1>3. \A p \in Named(h, c, n) : p = entry /\ Connected(c, h, n)
    BY <1>2, PeerFields DEF ClientPeers, Connected
  <1>4. Connected(c, h, n) => entry \in Named(h, c, n)
    BY <1>2, PeerFields DEF ClientPeers, Connected
  <1>5. entry.key = FileOf(c, n).private_key
    BY ClientFilePeers, PeerFields
  <1>6. entry.allowed = FileOf(c, n).address
    <2>1. networks[n] # None /\ MembershipOn(clients[c], n).network_id = n
      BY MembershipFound DEF NoOrphanMembership, LiveNetworks
    <2> QED
      BY <2>1, ClientFilePeers, PeerFields DEF AddressLine
  <1> QED
    BY <1>2, <1>3, <1>4, <1>5, <1>6 DEF AtMostOne

\* No two clients in a host's file share an address.
LEMMA ClientPeersApart ==
    ASSUME TypeOK, AddressesUnique, NEW h, NEW n \in Network,
           NEW p \in ClientPeers(h, n), NEW q \in ClientPeers(h, n), p.allowed = q.allowed
    PROVE  p = q
  <1>1. PICK c \in LiveClients :
           /\ MemberOf(clients[c], n)
           /\ p = Peer(c, StoredKey(clients[c].active_key_id), MembershipOn(clients[c], n).ip)
    BY DEF ClientPeers
  <1>2. PICK b \in LiveClients :
           /\ MemberOf(clients[b], n)
           /\ q = Peer(b, StoredKey(clients[b].active_key_id), MembershipOn(clients[b], n).ip)
    BY DEF ClientPeers
  <1>3. MembershipOn(clients[c], n).ip = MembershipOn(clients[b], n).ip
    BY <1>1, <1>2, PeerFields
  <1>4. c = b
    BY <1>1, <1>2, <1>3, MembershipFound DEF AddressesUnique
  <1> QED
    BY <1>1, <1>2, <1>4

LEMMA LinkedBothWays ==
    ASSUME PeersReciprocal, NEW h \in LiveHosts, NEW g \in LiveHosts, NEW n, PeersWith(h, g, n)
    PROVE  PeersWith(g, h, n)
  <1>1. PICK x \in hosts[h].peer_connections : x.peer_host_id = g /\ x.network_id = n
    BY DEF PeersWith
  <1>2. NewPeer(h, n, x.allowed_ips_set_id) \in hosts[g].peer_connections
    BY <1>1 DEF PeersReciprocal
  <1> QED
    BY <1>2, NewPeerFields DEF PeersWith

\* What FilesMatch asks of the files of x and y on n.
PairMatches(x, y, n) ==
    /\ Cardinality(Named(x, y, n)) = Cardinality(Named(y, x, n))
    /\ Cardinality(Named(x, y, n)) <= 1
    /\ \A p \in Named(x, y, n) : /\ p.key = FileOf(y, n).private_key
                                 /\ y \in Client => p.allowed = FileOf(y, n).address
    /\ y \in Client => \A p \in Named(x, y, n), q \in FileOf(x, n).peers :
          q.who \in Client /\ q.allowed = p.allowed => q = p

LEMMA FilesFit ==
    ASSUME TypeOK, NoOrphanMembership, AddressesUnique, PeersReciprocal, OneLinkPerPair
    PROVE  FilesMatch
  <1>0. ASSUME \A n \in Network : \A x, y \in {z \in Host \cup Client : HasFile(z, n)} :
                  PairMatches(x, y, n)
        PROVE  FilesMatch
    <2> SUFFICES ASSUME NEW n \in Network,
                        NEW x \in {z \in Host \cup Client : HasFile(z, n)},
                        NEW y \in {z \in Host \cup Client : HasFile(z, n)}
                 PROVE  LET named == {p \in FileOf(x, n).peers : p.who = y}
                            naming == {p \in FileOf(y, n).peers : p.who = x}
                        IN  /\ Cardinality(named) = Cardinality(naming) /\ Cardinality(named) <= 1
                            /\ \A p \in named :
                                  /\ p.key = FileOf(y, n).private_key
                                  /\ y \in Client => p.allowed = FileOf(y, n).address
                            /\ y \in Client => \A p \in named, q \in FileOf(x, n).peers :
                                  q.who \in Client /\ q.allowed = p.allowed => q = p
      BY DEF FilesMatch
    <2>1. PairMatches(x, y, n)
      BY <1>0
    <2> QED
      BY <2>1 DEF PairMatches, Named
  <1> SUFFICES ASSUME NEW n \in Network, NEW x \in Host \cup Client, NEW y \in Host \cup Client,
                      HasFile(x, n), HasFile(y, n)
               PROVE  PairMatches(x, y, n)
    BY <1>0
  <1>1. \A z \in {x, y} : \/ z \in LiveHosts /\ z \notin Client
                          \/ z \in LiveClients /\ z \in Client /\ MemberOf(clients[z], n)
    BY OwnersAssumption DEF HasFile, HasHostFile, HasClientFile, LiveHosts, LiveClients
  <1>2. CASE x \in LiveHosts /\ y \in LiveHosts /\ y \notin Client
    <2>1. Named(x, y, n) = {} <=> Named(y, x, n) = {}
      BY <1>2, HostNamesHost, LinkedBothWays
    <2> QED
      BY <1>2, <2>1, HostNamesHost, BothOrNeither DEF PairMatches
  <1>3. CASE x \in LiveHosts /\ y \in LiveClients /\ y \in Client /\ MemberOf(clients[y], n)
    <2>1. /\ AtMostOne(Named(x, y, n)) /\ AtMostOne(Named(y, x, n))
          /\ Named(x, y, n) = {} <=> Named(y, x, n) = {}
      BY <1>3, HostNamesClient, ClientNamesHost
    <2>2. \A p \in Named(x, y, n), q \in FileOf(x, n).peers :
             q.who \in Client /\ q.allowed = p.allowed => q = p
      <3>1. \A q \in FileOf(x, n).peers : q.who \in Client => q \in ClientPeers(x, n)
        BY <1>3, HostFilePeers, OwnersAssumption
      <3> QED
        BY <1>3, <3>1, HostNamesClient, ClientPeersApart
    <2> QED
      BY <1>3, <2>1, <2>2, HostNamesClient, BothOrNeither DEF PairMatches
  <1>4. CASE x \in LiveClients /\ MemberOf(clients[x], n) /\ y \in LiveHosts /\ y \notin Client
    <2>1. /\ AtMostOne(Named(x, y, n)) /\ AtMostOne(Named(y, x, n))
          /\ Named(x, y, n) = {} <=> Named(y, x, n) = {}
      BY <1>4, HostNamesClient, ClientNamesHost
    <2> QED
      BY <1>4, <2>1, ClientNamesHost, BothOrNeither DEF PairMatches
  <1>5. CASE x \in LiveClients /\ y \in LiveClients
    <2>1. Named(x, y, n) = {} /\ Named(y, x, n) = {}
      <3>1. x \notin Host /\ y \notin Host
        BY <1>5, LiveDocs, OwnersAssumption
      <3> QED
        BY <1>5, <3>1, ClientFilePeers DEF Named
    <2> QED
      BY <2>1, BothOrNeither DEF PairMatches, AtMostOne
  <1> QED
    BY <1>1, <1>2, <1>3, <1>4, <1>5

\* In every inventory the handlers can build, the two files of a tunnel name each
\* other once and hold the two halves of one key pair, a host lets each client use
\* the address in the client's own file, and no two clients the same.
THEOREM FilesAlwaysMatch == Spec => []FilesMatch
  BY FilesFit, TypeCorrect, MembershipsKeepNetworks, AddressesStayUnique, PeersStayReciprocal,
     LinksStayUnique, PTL

-----------------------------------------------------------------------------
(* Smallest elements. *)

LEMMA Minimum ==
    ASSUME NEW S \in SUBSET Nat, S # {}
    PROVE  \E x \in S : \A y \in S : x <= y
  <1>1. PICK x \in S : \A y \in S : ~(<<y, x>> \in OpToRel(<, Nat))
    BY NatLessThanWellFounded, WFMin
  <1>2. \A y \in S : <<y, x>> \in OpToRel(<, Nat) <=> y < x
    BY DEF OpToRel
  <1>3. \A y \in S : ~(y < x)
    BY <1>1, <1>2
  <1>4. \A y \in S : x \in Nat /\ y \in Nat
    OBVIOUS
  <1> QED
    BY <1>3, <1>4, SMT

LEMMA LowestFound ==
    ASSUME NEW S \in SUBSET Nat, S # {}
    PROVE  Lowest(S) \in S /\ \A ip \in S : Lowest(S) <= ip
  BY Minimum DEF Lowest

\* Of stored networks there is one of the fewest addresses.
LEMMA FewestAddresses ==
    ASSUME TypeOK, NEW ns \in SUBSET LiveNetworks, ns # {}
    PROVE  \E m \in ns : \A o \in ns :
              Cardinality(networks[m].cidr) <= Cardinality(networks[o].cidr)
  <1> DEFINE size(m) == Cardinality(networks[m].cidr)
  <1>1. \A m \in ns : networks[m].cidr \in Cidr
    BY DEF TypeOK, LiveNetworks, NetworkDoc
  <1>2. \A m \in ns : size(m) \in Nat
    BY <1>1, AddressesAssumption, FS_CardinalityType
  <1> HIDE DEF size
  <1>3. PICK l \in {size(m) : m \in ns} : \A k \in {size(m) : m \in ns} : l <= k
    BY <1>2, Minimum
  <1>4. PICK m \in ns : size(m) = l
    BY <1>3
  <1>5. \A o \in ns : size(m) <= size(o)
    BY <1>3, <1>4
  <1> QED
    BY <1>5 DEF size

LEMMA NarrowestFound ==
    ASSUME TypeOK, NEW ns \in SUBSET LiveNetworks, ns # {}
    PROVE  Narrowest(ns) \in ns
  BY FewestAddresses DEF Narrowest

-----------------------------------------------------------------------------
(* The address table. *)

LEMMA HostIps ==
    ASSUME NEW h \in LiveHosts, NEW n
    PROVE  IpsOf(h, n) = {m.ip : m \in {x \in hosts[h].network_memberships : x.network_id = n}}
  BY DEF LiveHosts, IpsOf

LEMMA ClientIps ==
    ASSUME NEW c \in LiveClients, NEW n
    PROVE  IpsOf(c, n) = {m.ip : m \in {x \in clients[c].network_memberships : x.network_id = n}}
  BY OwnersAssumption DEF LiveClients, IpsOf

\* The table and the forms agree on which addresses are given out.
LEMMA UsedIsTaken ==
    ASSUME NEW n, NEW ip
    PROVE  ip \in UsedIps(n) <=> AddressTaken(n, ip, {})
  <1>1. ASSUME NEW x \in Members(n), ip \in IpsOf(x, n)
        PROVE  AddressTaken(n, ip, {})
    BY <1>1, HostIps, ClientIps DEF Members, AddressTaken
  <1>2. ASSUME AddressTaken(n, ip, {})
        PROVE  \E x \in Members(n) : ip \in IpsOf(x, n)
    <2>1. CASE \E h \in LiveHosts : \E m \in hosts[h].network_memberships :
                  m.network_id = n /\ m.ip = ip
      BY <2>1, HostIps DEF Members, MemberOf
    <2>2. CASE \E c \in LiveClients : \E m \in clients[c].network_memberships :
                  m.network_id = n /\ m.ip = ip
      BY <2>2, ClientIps DEF Members, MemberOf
    <2> QED
      BY <1>2, <2>1, <2>2 DEF AddressTaken
  <1> QED
    BY <1>1, <1>2 DEF UsedIps

LEMMA OneOwner ==
    ASSUME AddressesUnique, NEW n, NEW ip,
           NEW x \in Members(n), NEW y \in Members(n), ip \in IpsOf(x, n), ip \in IpsOf(y, n)
    PROVE  x = y
  <1>1. \A h \in LiveHosts : ip \in IpsOf(h, n) =>
           \E m \in hosts[h].network_memberships : m.network_id = n /\ m.ip = ip
    BY HostIps
  <1>2. \A c \in LiveClients : ip \in IpsOf(c, n) =>
           \E m \in clients[c].network_memberships : m.network_id = n /\ m.ip = ip
    BY ClientIps
  <1> QED
    BY <1>1, <1>2 DEF AddressesUnique, Members

LEMMA AssignedOwner ==
    ASSUME NEW n, NEW ip \in UsedIps(n)
    PROVE  Assignments(n)[ip] \in Members(n) /\ ip \in IpsOf(Assignments(n)[ip], n)
  <1> DEFINE owners == {x \in Members(n) : ip \in IpsOf(x, n)}
  <1>1. owners # {}
    BY DEF UsedIps
  <1>2. Assignments(n)[ip] \in owners
    BY <1>1 DEF Assignments
  <1> QED
    BY <1>2

LEMMA RowFields ==
    ASSUME NEW k, NEW o, NEW s
    PROVE  Row(k, o, s).kind = k /\ Row(k, o, s).owner = o
  BY DEF Row

LEMMA ContainingChildFound ==
    ASSUME TypeOK, NEW n \in Network, NEW ip
    PROVE  \/ /\ ContainingChild(n, ip) = None
              /\ \A m \in ChildNetworks(n) : ip \notin networks[m].cidr
           \/ ContainingChild(n, ip) \in ChildNetworks(n) /\ ContainingChild(n, ip) # None
  <1> DEFINE holding == {m \in ChildNetworks(n) : ip \in networks[m].cidr}
  <1>1. holding \in SUBSET LiveNetworks /\ None \notin LiveNetworks
    BY NoneAssumption DEF ChildNetworks, LiveNetworks, Ids
  <1>2. CASE holding = {}
    BY <1>2 DEF ContainingChild
  <1>3. CASE holding # {}
    <2>1. Narrowest(holding) \in holding
      BY <1>1, <1>3, NarrowestFound
    <2>2. ContainingChild(n, ip) = Narrowest(holding)
      BY <1>3 DEF ContainingChild
    <2> QED
      BY <1>1, <2>1, <2>2
  <1> QED
    BY <1>2, <1>3

\* The cases of a row, for an address of n.
LEMMA RowCases ==
    ASSUME TypeOK, NEW n \in LiveNetworks, NEW ip \in networks[n].cidr
    PROVE  LET row == AddressTable(n)[ip]
               reserved == ip \in Reserved(networks[n].cidr)
               child == ContainingChild(n, ip)
           IN  \/ reserved /\ row.kind \in {"reserved", "subnet"} /\ row.owner = None
               \/ ~reserved /\ ip \in UsedIps(n)
                  /\ row.kind = "assigned" /\ row.owner = Assignments(n)[ip]
               \/ ~reserved /\ ip \notin UsedIps(n) /\ child = None
                  /\ row.kind = "free" /\ row.owner = None
               \/ ~reserved /\ ip \notin UsedIps(n) /\ child # None /\ ip \in UsedIps(child)
                  /\ row.kind = "assigned" /\ row.owner = Assignments(child)[ip]
               \/ ~reserved /\ ip \notin UsedIps(n) /\ child # None
                  /\ row.kind = "subnet" /\ row.owner = None
  BY RowFields DEF AddressTable, Resolve

LEMMA TableFits ==
    ASSUME TypeOK, AddressesUnique
    PROVE  TableTellsTruth
  <1> SUFFICES ASSUME NEW n \in LiveNetworks, NEW ip \in networks[n].cidr
               PROVE  LET row == AddressTable(n)[ip] IN
                      /\ \A x \in Members(n) :
                            ip \in IpsOf(x, n) \ Reserved(networks[n].cidr) => row.owner = x
                      /\ row.kind = "free" =>
                            \A m \in ChildNetworks(n) \cup {n} : \A x \in Members(m) :
                                IpsOf(x, m) \subseteq networks[m].cidr => ip \notin IpsOf(x, m)
                      /\ row.owner # None =>
                            \E m \in ChildNetworks(n) \cup {n} :
                                row.owner \in Members(m) /\ ip \in IpsOf(row.owner, m)
    BY DEF TableTellsTruth
  <1> DEFINE row == AddressTable(n)[ip]
             child == ContainingChild(n, ip)
  <1>0. n \in Network
    BY DEF LiveNetworks
  <1>1. \A m : \A x \in Members(m) : ip \in IpsOf(x, m) => ip \in UsedIps(m)
    BY DEF UsedIps
  <1>2. ASSUME NEW x \in Members(n), ip \in IpsOf(x, n), ip \notin Reserved(networks[n].cidr)
        PROVE  row.owner = x
    <2>1. ip \in UsedIps(n) /\ row.owner = Assignments(n)[ip]
      BY <1>1, <1>2, RowCases
    <2> QED
      BY <1>2, <2>1, AssignedOwner, OneOwner
  <1>3. ASSUME row.kind = "free", NEW m \in ChildNetworks(n) \cup {n}, NEW x \in Members(m),
               IpsOf(x, m) \subseteq networks[m].cidr
        PROVE  ip \notin IpsOf(x, m)
    <2>1. ip \notin UsedIps(n) /\ child = None
      BY <1>3, RowCases
    <2>2. \A c \in ChildNetworks(n) : ip \notin networks[c].cidr
      BY <1>0, <2>1, ContainingChildFound
    <2> QED
      BY <1>1, <1>3, <2>1, <2>2
  <1>4. ASSUME row.owner # None
        PROVE  \E m \in ChildNetworks(n) \cup {n} :
                  row.owner \in Members(m) /\ ip \in IpsOf(row.owner, m)
    <2>1. \/ ip \in UsedIps(n) /\ row.owner = Assignments(n)[ip]
          \/ child # None /\ ip \in UsedIps(child) /\ row.owner = Assignments(child)[ip]
      BY <1>4, RowCases
    <2>2. child # None => child \in ChildNetworks(n)
      BY <1>0, ContainingChildFound
    <2> QED
      BY <2>1, <2>2, AssignedOwner
  <1> QED
    BY <1>2, <1>3, <1>4

\* The table of a network gives each address to whoever has it, in this network or in
\* one nested in it, and calls none free that is taken: given out once, an address
\* has one owner that Assignments can find.
THEOREM TableAlwaysTellsTruth == Spec => []TableTellsTruth
  BY TableFits, TypeCorrect, AddressesStayUnique, PTL

LEMMA ProposalFits ==
    ASSUME TypeOK
    PROVE  ProposalIsFree
  <1> SUFFICES ASSUME NEW n \in LiveNetworks
               PROVE  IF NextFreeIp(n) = None
                      THEN \A ip \in Usable(networks[n].cidr) : AddressTaken(n, ip, {})
                      ELSE /\ NextFreeIp(n) \in networks[n].cidr
                           /\ ~AddressTaken(n, NextFreeIp(n), {})
                           /\ AddressTable(n)[NextFreeIp(n)].kind # "reserved"
    BY DEF ProposalIsFree
  <1> DEFINE free == Usable(networks[n].cidr) \ UsedIps(n)
  <1>1. networks[n].cidr \in Cidr
    BY DEF TypeOK, LiveNetworks, NetworkDoc
  <1>2. free \in SUBSET Nat /\ free \subseteq Address
    BY <1>1, CidrAssumption, AddressesAssumption DEF Usable
  <1>3. CASE free = {}
    <2>1. NextFreeIp(n) = None
      BY <1>3 DEF NextFreeIp
    <2>2. \A ip \in Usable(networks[n].cidr) : AddressTaken(n, ip, {})
      BY <1>3, UsedIsTaken
    <2> QED
      BY <2>1, <2>2
  <1>4. CASE free # {}
    <2>1. NextFreeIp(n) = Lowest(free) /\ Lowest(free) \in free
      BY <1>2, <1>4, LowestFound DEF NextFreeIp
    <2> DEFINE ip == NextFreeIp(n)
    <2>2. ip # None
      BY <1>2, <2>1, NoneAssumption
    <2>3. ip \in networks[n].cidr /\ ip \notin Reserved(networks[n].cidr) /\ ip \notin UsedIps(n)
      BY <2>1 DEF Usable
    <2>4. AddressTable(n)[ip].kind # "reserved"
      BY <2>3, RowCases
    <2> QED
      BY <2>2, <2>3, <2>4, UsedIsTaken
  <1> QED
    BY <1>3, <1>4

\* The address a form proposes lies in the network, is not reserved and passes the check
\* of the handler that the form is posted to; there is none only if all are given out.
THEOREM ProposalAlwaysFree == Spec => []ProposalIsFree
  BY ProposalFits, TypeCorrect, PTL

-----------------------------------------------------------------------------
(* The graphs. *)

Ends(d) == {d.ends[1], d.ends[2]}

\* The drawing of the connection between these ends on n.
Drawing(n, ends) == CHOOSE d \in DrawnPeers_BySide : d.on = n /\ Ends(d) = ends

LEMMA DrawnPeersAre ==
    DrawnPeers = {Drawing(e.on, Ends(e)) : e \in DrawnPeers_BySide}
  BY DEF DrawnPeers, Drawing, Ends

LEMMA DrawingsOnce ==
    PeersDrawnOnce
  <1> SUFFICES ASSUME NEW n \in Network, NEW h \in LiveHosts, NEW p \in LiveHosts,
                      PeersWith(h, p, n)
               PROVE  Cardinality({d \in DrawnPeers : d.on = n /\ Ends(d) = {h, p}}) = 1
    BY DEF PeersDrawnOnce, Ends
  <1> DEFINE side == [ends |-> <<h, p>>, on |-> n]
  <1>1. side \in DrawnPeers_BySide
    <2>1. PICK x \in hosts[h].peer_connections : x.peer_host_id = p /\ x.network_id = n
      BY DEF PeersWith
    <2>2. side = [ends |-> <<h, x.peer_host_id>>, on |-> x.network_id]
      BY <2>1
    <2> HIDE DEF side
    <2>3. side \in {[ends |-> <<h, y.peer_host_id>>, on |-> y.network_id] :
                       y \in {z \in hosts[h].peer_connections : z.peer_host_id \in LiveHosts}}
      BY <2>1, <2>2
    <2> QED
      BY <2>3 DEF DrawnPeers_BySide
  <1>2. side.on = n /\ Ends(side) = {h, p}
    BY DEF Ends
  <1> HIDE DEF side
  <1>3. /\ Drawing(n, {h, p}).on = n /\ Ends(Drawing(n, {h, p})) = {h, p}
        /\ Drawing(n, {h, p}) \in DrawnPeers_BySide
    BY <1>1, <1>2 DEF Drawing
  <1>4. Drawing(n, {h, p}) \in DrawnPeers
    BY <1>1, <1>2, DrawnPeersAre
  <1>5. ASSUME NEW d \in DrawnPeers, d.on = n, Ends(d) = {h, p}
        PROVE  d = Drawing(n, {h, p})
    <2>1. PICK e \in DrawnPeers_BySide : d = Drawing(e.on, Ends(e))
      BY DrawnPeersAre
    <2>2. d.on = e.on /\ Ends(d) = Ends(e)
      BY <2>1 DEF Drawing
    <2> QED
      BY <1>5, <2>1, <2>2
  <1>6. {d \in DrawnPeers : d.on = n /\ Ends(d) = {h, p}} = {Drawing(n, {h, p})}
    BY <1>3, <1>4, <1>5
  <1> QED
    BY <1>6, FS_Singleton

\* Both hosts store their peer connection, and the dashboard draws it once: of two
\* entries with the same ends and network seen_peer_pairs lets one through.
THEOREM PeersAlwaysDrawnOnce == Spec => []PeersDrawnOnce
  BY DrawingsOnce, PTL

-----------------------------------------------------------------------------
(* Ends of edges. *)

LEMMA EdgeFields ==
    ASSUME NEW x, NEW y, NEW w
    PROVE  Edge(x, y, w).from = x /\ Edge(x, y, w).to = y
  BY DEF Edge

\* The network that a network is drawn under is one of those drawn.
LEMMA ParentFound ==
    ASSUME TypeOK, NEW ns \in SUBSET LiveNetworks, NEW n
    PROVE  Parent(n, ns) \in ns \cup {None}
  <1>1. Containers(n, ns) \in SUBSET LiveNetworks /\ Containers(n, ns) \subseteq ns
    BY DEF Containers
  <1>2. CASE Containers(n, ns) = {}
    BY <1>2 DEF Parent
  <1>3. CASE Containers(n, ns) # {}
    <2>1. MostSpecific(Containers(n, ns)) \in Containers(n, ns)
      BY <1>1, <1>3, FewestAddresses DEF MostSpecific
    <2> QED
      BY <1>1, <1>3, <2>1 DEF Parent
  <1> QED
    BY <1>2, <1>3

LEMMA HierarchyEnds ==
    ASSUME TypeOK, NEW ns \in SUBSET LiveNetworks
    PROVE  Closed(ns, HierarchyEdges(ns))
  BY ParentFound, EdgeFields DEF HierarchyEdges, Closed

LEMMA UnionClosed ==
    ASSUME NEW nodes, NEW sets, \A es \in sets : Closed(nodes, es)
    PROVE  Closed(nodes, UNION sets)
  BY DEF Closed

LEMMA OnStoredNetworks ==
    ASSUME NoOrphanMembership
    PROVE  /\ \A h \in LiveHosts : MemberNets(hosts[h]) \subseteq LiveNetworks
           /\ \A c \in LiveClients : MemberNets(clients[c]) \subseteq LiveNetworks
  BY DEF NoOrphanMembership, MemberNets

LEMMA MembersNets ==
    ASSUME NEW doc, NEW n
    PROVE  n \in MemberNets(doc) <=> MemberOf(doc, n)
  BY DEF MemberNets, MemberOf

LEMMA MembershipEnds ==
    ASSUME NEW x, NEW doc, NEW e \in MembershipEdges(x, doc)
    PROVE  e.from = x /\ e.to \in MemberNets(doc)
  BY EdgeFields DEF MembershipEdges

LEMMA MembershipLinks ==
    ASSUME NEW x, NEW doc, NEW n \in MemberNets(doc)
    PROVE  \E e \in MembershipEdges(x, doc) : e.from = x /\ e.to = n
  <1>1. Edge(x, n, "member") \in MembershipEdges(x, doc)
    BY DEF MembershipEdges
  <1> QED
    BY <1>1, EdgeFields

LEMMA ConnectionEnds ==
    ASSUME NEW c, NEW xs, NEW e \in ConnectionEdges(c, xs)
    PROVE  e.from = c /\ \E x \in xs : e.to = x.network_id
  BY EdgeFields DEF ConnectionEdges

LEMMA ConnectionLinks ==
    ASSUME NEW c, NEW xs, NEW x \in xs
    PROVE  \E e \in ConnectionEdges(c, xs) : e.from = c /\ e.to = x.network_id
  <1>1. Edge(c, x.network_id, "connection") \in ConnectionEdges(c, xs)
    BY DEF ConnectionEdges
  <1> QED
    BY <1>1, EdgeFields

LEMMA PeerEnds ==
    ASSUME NEW h, NEW p, NEW n, NEW e \in PeerEdges(h, p, n)
    PROVE  e.from \in {h, n} /\ e.to \in {p, n}
  BY EdgeFields DEF PeerEdges

LEMMA PeerLinks ==
    ASSUME NEW h, NEW p, NEW n
    PROVE  \E e \in PeerEdges(h, p, n) : e.to = p
  BY EdgeFields DEF PeerEdges

\* A drawn connection joins two hosts over a stored network.
LEMMA DrawnBetweenHosts ==
    ASSUME NoOrphanMembership, PeersOverInterfaces, NEW d \in DrawnPeers
    PROVE  d.ends[1] \in LiveHosts /\ d.ends[2] \in LiveHosts /\ d.on \in LiveNetworks
  <1>1. d \in DrawnPeers_BySide
    <2>1. PICK e \in DrawnPeers_BySide : d = Drawing(e.on, Ends(e))
      BY DrawnPeersAre
    <2> QED
      BY <2>1 DEF Drawing
  <1>2. PICK h \in LiveHosts : \E x \in {y \in hosts[h].peer_connections : y.peer_host_id \in LiveHosts} :
           d = [ends |-> <<h, x.peer_host_id>>, on |-> x.network_id]
    BY <1>1 DEF DrawnPeers_BySide
  <1>3. PICK x \in hosts[h].peer_connections :
           /\ x.peer_host_id \in LiveHosts
           /\ d = [ends |-> <<h, x.peer_host_id>>, on |-> x.network_id]
    BY <1>2
  <1>4. d.ends[1] = h /\ d.ends[2] = x.peer_host_id /\ d.on = x.network_id
    BY <1>3
  <1>5. x.network_id \in LiveNetworks
    BY OnStoredNetworks, MembersNets DEF PeersOverInterfaces
  <1> QED
    BY <1>3, <1>4, <1>5

LEMMA FullGraphClosed ==
    ASSUME TypeOK, NoOrphanMembership, PeersOverInterfaces, ConnectionsOverInterfaces
    PROVE  LET hidden == OfType("ipam") \ IpamNetworks
           IN  Closed(FullNodes, {e \in FullEdges : e.from \notin hidden /\ e.to \notin hidden})
  <1> DEFINE hidden == OfType("ipam") \ IpamNetworks
             all == LiveNetworks \cup LiveHosts \cup LiveClients
  <1>1. IpamNetworks \in SUBSET LiveNetworks
    BY DEF IpamNetworks, OfType
  <1>2. all \subseteq FullNodes \cup hidden
    BY DEF FullNodes
  <1>3. Closed(all, HierarchyEdges(IpamNetworks))
    BY <1>1, HierarchyEnds DEF Closed
  <1>4. \A h \in LiveHosts : Closed(all, {Edge(n, h, "contains") : n \in Ancestors(h)})
    <2>1. \A h \in LiveHosts : Ancestors(h) \subseteq IpamNetworks
      BY <1>1, ParentFound DEF Ancestors
    <2> QED
      BY <1>1, <2>1, EdgeFields DEF Closed
  <1>5. \A h \in LiveHosts : Closed(all, MembershipEdges(h, hosts[h]))
    BY MembershipEnds, OnStoredNetworks DEF Closed
  <1>6. \A c \in LiveClients : Closed(all, MembershipEdges(c, clients[c]))
    BY MembershipEnds, OnStoredNetworks DEF Closed
  <1>7. \A d \in DrawnPeers : Closed(all, PeerEdges(d.ends[1], d.ends[2], d.on))
    BY PeerEnds, DrawnBetweenHosts DEF Closed
  <1>8. \A c \in LiveClients :
           Closed(all, ConnectionEdges(c, {x \in clients[c].connections : x.host_id \in LiveHosts}))
    <2>1. \A c \in LiveClients : \A x \in clients[c].connections : x.network_id \in LiveNetworks
      BY OnStoredNetworks, MembersNets DEF ConnectionsOverInterfaces
    <2> QED
      BY <2>1, ConnectionEnds DEF Closed
  <1>9. Closed(all, FullEdges)
    <2>1. Closed(all, UNION {{Edge(n, h, "contains") : n \in Ancestors(h)} : h \in LiveHosts})
      BY <1>4, UnionClosed
    <2>2. Closed(all, UNION {MembershipEdges(h, hosts[h]) : h \in LiveHosts})
      BY <1>5, UnionClosed
    <2>3. Closed(all, UNION {MembershipEdges(c, clients[c]) : c \in LiveClients})
      BY <1>6, UnionClosed
    <2>4. Closed(all, UNION {PeerEdges(d.ends[1], d.ends[2], d.on) : d \in DrawnPeers})
      BY <1>7, UnionClosed
    <2>5. Closed(all, UNION {ConnectionEdges(c, {x \in clients[c].connections : x.host_id \in LiveHosts}) :
                                c \in LiveClients})
      BY <1>8, UnionClosed
    <2> HIDE DEF all
    <2> QED
      BY <1>3, <2>1, <2>2, <2>3, <2>4, <2>5, Zenon DEF Closed, FullEdges
  <1> QED
    BY <1>2, <1>9 DEF Closed

LEMMA HostGraphClosed ==
    ASSUME TypeOK, NoOrphanMembership, PeersOverInterfaces, ConnectionsOverInterfaces,
           NEW h \in LiveHosts
    PROVE  /\ Closed(HostNodes(h), HostEdges(h))
           /\ \A x \in HostNodes(h) \ {h} : Linked(x, HostEdges(h))
  <1>1. MemberNets(hosts[h]) \subseteq HostNodes(h)
    BY OnStoredNetworks DEF HostNodes, Regular, HostToHost
  <1>2. Closed(HostNodes(h), HierarchyEdges(Regular(h)))
    <2>1. Regular(h) \in SUBSET LiveNetworks /\ Regular(h) \subseteq HostNodes(h)
      BY DEF Regular, HostNodes
    <2> QED
      BY <2>1, HierarchyEnds DEF Closed
  <1>3. Closed(HostNodes(h), MembershipEdges(h, hosts[h]))
    BY <1>1, MembershipEnds DEF Closed, HostNodes
  <1>4. \A c \in AttachedClients(h) : Closed(HostNodes(h), ConnectionEdges(c, ConnectionsTo(c, h)))
    <2>1. \A c \in AttachedClients(h) : \A x \in ConnectionsTo(c, h) : x.network_id \in HostNodes(h)
      BY <1>1, MembersNets DEF AttachedClients, ConnectionsTo, ConnectionsOverInterfaces
    <2> QED
      BY <2>1, ConnectionEnds DEF Closed, HostNodes
  <1>5. \A x \in PeersOf(h) : Closed(HostNodes(h), PeerEdges(h, x.peer_host_id, x.network_id))
    <2>1. \A x \in PeersOf(h) : x.network_id \in HostNodes(h)
      BY <1>1, MembersNets DEF PeersOf, PeersOverInterfaces
    <2>2. \A x \in PeersOf(h) : x.peer_host_id \in HostNodes(h)
      BY DEF HostNodes
    <2> QED
      BY <2>1, <2>2, PeerEnds DEF Closed, HostNodes
  <1>6. Closed(HostNodes(h), HostEdges(h))
    <2>1. Closed(HostNodes(h), UNION {ConnectionEdges(c, ConnectionsTo(c, h)) : c \in AttachedClients(h)})
      BY <1>4, UnionClosed
    <2>2. Closed(HostNodes(h), UNION {PeerEdges(h, x.peer_host_id, x.network_id) : x \in PeersOf(h)})
      BY <1>5, UnionClosed
    <2> QED
      BY <1>2, <1>3, <2>1, <2>2, Zenon DEF Closed, HostEdges
  <1>7. ASSUME NEW x \in HostNodes(h), x # h
        PROVE  Linked(x, HostEdges(h))
    <2>1. CASE x \in MemberNets(hosts[h])
      BY <2>1, MembershipLinks DEF Linked, HostEdges
    <2>2. CASE x \in AttachedClients(h)
      <3>1. PICK y \in ConnectionsTo(x, h) : TRUE
        BY <2>2 DEF AttachedClients
      <3>2. PICK e \in ConnectionEdges(x, ConnectionsTo(x, h)) : e.from = x
        BY <3>1, ConnectionLinks
      <3>3. e \in HostEdges(h)
        BY <2>2 DEF HostEdges
      <3> QED
        BY <3>2, <3>3 DEF Linked
    <2>3. CASE x \in {y.peer_host_id : y \in PeersOf(h)}
      <3>1. PICK y \in PeersOf(h) : x = y.peer_host_id
        BY <2>3
      <3>2. PICK e \in PeerEdges(h, x, y.network_id) : e.to = x
        BY PeerLinks
      <3>3. e \in UNION {PeerEdges(h, z.peer_host_id, z.network_id) : z \in PeersOf(h)}
        BY <3>1, <3>2
      <3>4. e \in HostEdges(h)
        BY <3>3 DEF HostEdges
      <3> QED
        BY <3>2, <3>4 DEF Linked
    <2> QED
      BY <1>7, <2>1, <2>2, <2>3 DEF HostNodes, HostToHost, Regular
  <1> QED
    BY <1>6, <1>7

LEMMA ClientGraphClosed ==
    ASSUME TypeOK, NoOrphanMembership, ConnectionsOverInterfaces, NEW c \in LiveClients
    PROVE  /\ Closed(ClientNodes(c), ClientEdges(c))
           /\ \A x \in ClientNodes(c) \ {c} : Linked(x, ClientEdges(c))
  <1> DEFINE hostEdges == {Edge(x.host_id, x.network_id, "member") :
                x \in {y \in LiveConnections(c) : MemberOf(hosts[y.host_id], y.network_id)}}
  <1>1. MemberNets(clients[c]) = ClientNetworks(c)
    BY OnStoredNetworks DEF ClientNetworks
  <1>2. \A x \in LiveConnections(c) : /\ x.network_id \in ClientNetworks(c)
                                      /\ x.host_id \in ClientNodes(c)
                                      /\ MemberOf(hosts[x.host_id], x.network_id)
    BY <1>1, MembersNets DEF LiveConnections, ConnectionsOverInterfaces, ClientNodes
  <1>3. Closed(ClientNodes(c), HierarchyEdges(ClientNetworks(c)))
    <2>1. ClientNetworks(c) \in SUBSET LiveNetworks
      BY DEF ClientNetworks
    <2> QED
      BY <2>1, HierarchyEnds DEF Closed, ClientNodes
  <1>4. Closed(ClientNodes(c), MembershipEdges(c, clients[c]))
    BY <1>1, MembershipEnds DEF Closed, ClientNodes
  <1>5. Closed(ClientNodes(c), hostEdges)
    BY <1>2, EdgeFields DEF Closed, ClientNodes
  <1>6. Closed(ClientNodes(c), ConnectionEdges(c, LiveConnections(c)))
    BY <1>2, ConnectionEnds DEF Closed, ClientNodes
  <1>7. Closed(ClientNodes(c), ClientEdges(c))
    BY <1>3, <1>4, <1>5, <1>6 DEF Closed, ClientEdges
  <1>8. ASSUME NEW x \in ClientNodes(c), x # c
        PROVE  Linked(x, ClientEdges(c))
    <2>1. CASE x \in ClientNetworks(c)
      BY <1>1, <2>1, MembershipLinks DEF Linked, ClientEdges
    <2>2. CASE x \in {y.host_id : y \in LiveConnections(c)}
      <3>1. PICK y \in LiveConnections(c) : x = y.host_id
        BY <2>2
      <3>2. Edge(x, y.network_id, "member") \in hostEdges
        BY <1>2, <3>1
      <3> QED
        BY <3>2, EdgeFields DEF Linked, ClientEdges
    <2> QED
      BY <1>8, <2>1, <2>2 DEF ClientNodes
  <1> QED
    BY <1>7, <1>8

\* Every edge of the three graphs joins two nodes that the graph has, and on the pages
\* of hosts and clients no node floats: the collections fit together well enough that
\* routines which read four of them and check little draw what is there.
THEOREM EdgesAlwaysHaveEnds == Spec => []EdgesHaveEnds
  <1>1. ASSUME TypeOK, NoOrphanMembership, PeersOverInterfaces, ConnectionsOverInterfaces
        PROVE  EdgesHaveEnds
    BY <1>1, FullGraphClosed, HostGraphClosed, ClientGraphClosed DEF EdgesHaveEnds
  <1> QED
    BY <1>1, TypeCorrect, MembershipsKeepNetworks, PeersStayOverInterfaces,
       ConnectionsStayOverInterfaces, PTL

-----------------------------------------------------------------------------
(* Levels. *)

\* Blocks of stored networks nest or are apart: the network forms refuse any other.
NetworksNest ==
    \A m, n \in LiveNetworks : ~PartialOverlap(networks[m].cidr, networks[n].cidr)

LEMMA OthersKeepNetworks ==
    ASSUME HostNext \/ ClientNext \/ PresetNext
    PROVE  UNCHANGED networks
  <1>1. CASE HostNext
    BY <1>1 DEF HostNext, CreateHost, DeleteHost, AddInterface, EditInterface, RemoveInterface,
                RotateInterfaceKey, AssignInterfaceKey, AddPeerConnection, RemovePeerConnection
  <1>2. CASE ClientNext
    BY <1>2 DEF ClientNext, CreateClient, CreateClientWithKey, EditClient, DeleteClient, RotateKey,
                AssignExistingKey, AddNetworkMembership, RemoveNetworkMembership, AddConnection,
                RemoveConnection
  <1>3. CASE PresetNext
    BY <1>3 DEF PresetNext, CreateKey, DeleteKey, AssignKeyToInterface, AssignKeyToClient,
                CreateDnsServer, DeleteDnsServer, CreateAllowedIpsSet, DeleteAllowedIpsSet
  <1> QED
    BY <1>1, <1>2, <1>3

\* A network form changes one network, and only to a block that OverlapsNone lets in.
LEMMA NetworkStep ==
    ASSUME TypeOK, [Next]_vars
    PROVE  \/ \A n \in LiveNetworks' : n \in LiveNetworks /\ networks'[n] = networks[n]
           \/ \E n \in Network, cidr \in Cidr :
                 /\ OverlapsNone(cidr, {n}) /\ networks'[n].cidr = cidr
                 /\ LiveNetworks' = LiveNetworks \cup {n}
                 /\ \A m \in LiveNetworks \ {n} : networks'[m] = networks[m]
  <1>1. networks \in [Network -> NetworkDoc \cup {None}]
    BY DEF TypeOK
  <1>2. CASE UNCHANGED networks
    BY <1>2 DEF LiveNetworks
  <1>3. ASSUME NEW n \in Network, NEW cidr \in Cidr, NEW t \in NetworkType,
               NEW h \in Host \cup {None}, CreateNetwork(n, cidr, t, h) \/ EditNetwork(n, cidr, t, h)
        PROVE  /\ OverlapsNone(cidr, {n}) /\ networks'[n].cidr = cidr
               /\ LiveNetworks' = LiveNetworks \cup {n}
               /\ \A m \in LiveNetworks \ {n} : networks'[m] = networks[m]
    <2>1. networks' = [networks EXCEPT ![n] = NewNetwork(cidr, t, h)] /\ OverlapsNone(cidr, {n})
      BY <1>3 DEF CreateNetwork, EditNetwork, OverlapsNone
    <2>2. NewNetwork(cidr, t, h) # None /\ NewNetwork(cidr, t, h).cidr = cidr
      BY NewDocs, NoneAssumption DEF NewNetwork
    <2> QED
      BY <1>1, <2>1, <2>2 DEF LiveNetworks
  <1>4. ASSUME NEW n \in Network, DeleteNetwork(n)
        PROVE  \A m \in LiveNetworks' : m \in LiveNetworks /\ networks'[m] = networks[m]
    BY <1>1, <1>4 DEF DeleteNetwork, LiveNetworks
  <1>5. CASE NetworkNext
    BY <1>3, <1>4, <1>5 DEF NetworkNext
  <1>6. CASE HostNext \/ ClientNext \/ PresetNext
    BY <1>2, <1>6, OthersKeepNetworks
  <1> QED
    BY <1>2, <1>5, <1>6 DEF Next, vars

LEMMA NextNetworksNest ==
    ASSUME TypeOK, NetworksNest, IsFiniteSet(LiveNetworks), [Next]_vars
    PROVE  NetworksNest' /\ IsFiniteSet(LiveNetworks)'
  <1>1. CASE \A n \in LiveNetworks' : n \in LiveNetworks /\ networks'[n] = networks[n]
    BY <1>1, FS_Subset DEF NetworksNest
  <1>2. ASSUME NEW n \in Network, NEW cidr \in Cidr,
               OverlapsNone(cidr, {n}), networks'[n].cidr = cidr,
               LiveNetworks' = LiveNetworks \cup {n},
               \A m \in LiveNetworks \ {n} : networks'[m] = networks[m]
        PROVE  NetworksNest' /\ IsFiniteSet(LiveNetworks)'
    <2>1. IsFiniteSet(LiveNetworks')
      BY <1>2, FS_AddElement
    <2>2. \A m \in LiveNetworks \ {n} : ~PartialOverlap(networks'[m].cidr, networks'[n].cidr)
                                        /\ ~PartialOverlap(networks'[n].cidr, networks'[m].cidr)
      BY <1>2 DEF OverlapsNone, PartialOverlap
    <2>3. ~PartialOverlap(networks'[n].cidr, networks'[n].cidr)
      BY DEF PartialOverlap
    <2> QED
      BY <1>2, <2>1, <2>2, <2>3 DEF NetworksNest
  <1> QED
    BY <1>1, <1>2, NetworkStep

LEMMA AlwaysNested == Spec => []NetworksNest /\ []IsFiniteSet(LiveNetworks)
  <1> DEFINE Inv == NetworksNest /\ IsFiniteSet(LiveNetworks)
  <1>1. Init => Inv
    <2>1. Init => LiveNetworks = {}
      BY DEF Init, LiveNetworks
    <2> QED
      BY <2>1, FS_EmptySet DEF NetworksNest
  <1>2. TypeOK /\ Inv /\ [Next]_vars => Inv'
    BY NextNetworksNest
  <1>3. Inv => NetworksNest /\ IsFiniteSet(LiveNetworks)
    OBVIOUS
  <1> HIDE DEF Inv
  <1> QED
    BY <1>1, <1>2, <1>3, TypeCorrect, PTL DEF Spec

LEMMA LargestFound ==
    ASSUME NEW S \in SUBSET Nat, S # {}, NEW b \in Nat, \A k \in S : k <= b
    PROVE  Largest(S) \in S /\ \A k \in S : k <= Largest(S)
  <1>1. {b - k : k \in S} \in SUBSET Nat /\ {b - k : k \in S} # {}
    <2>1. \A k \in S : b - k \in Nat
      OBVIOUS
    <2> QED
      BY <2>1, Zenon
  <1>2. PICK l \in {b - k : k \in S} : \A o \in {b - k : k \in S} : l <= o
    BY <1>1, Minimum
  <1>3. PICK k \in S : l = b - k
    BY <1>2
  <1>4. \A o \in S : k >= o
    <2> SUFFICES ASSUME NEW o \in S PROVE k >= o
      OBVIOUS
    <2>1. b - k <= b - o
      BY <1>2, <1>3
    <2> QED
      BY <2>1
  <1>5. Largest(S) \in S /\ \A o \in S : Largest(S) >= o
    BY <1>4 DEF Largest
  <1> QED
    BY <1>5

LEMMA SmallerSet ==
    ASSUME NEW S, IsFiniteSet(S), NEW T \in SUBSET S, T # S
    PROVE  Cardinality(T) < Cardinality(S)
  <1>1. /\ Cardinality(T) <= Cardinality(S) /\ Cardinality(T) # Cardinality(S)
        /\ Cardinality(T) \in Nat /\ Cardinality(S) \in Nat
    BY FS_Subset, FS_CardinalityType
  <1> QED
    BY <1>1

LEMMA Blocks ==
    ASSUME TypeOK
    PROVE  \A n \in LiveNetworks : /\ networks[n].cidr \in Cidr /\ networks[n].cidr # {}
                                   /\ IsFiniteSet(networks[n].cidr)
                                   /\ Cardinality(networks[n].cidr) \in Nat
  <1>1. \A n \in LiveNetworks : networks[n].cidr \in Cidr
    BY DEF TypeOK, LiveNetworks, NetworkDoc
  <1> QED
    BY <1>1, AddressesAssumption, FS_CardinalityType

\* The parent is a container with the fewest addresses.
LEMMA ParentIs ==
    ASSUME TypeOK, NEW ns \in SUBSET LiveNetworks, NEW n, Containers(n, ns) # {}
    PROVE  /\ Parent(n, ns) \in Containers(n, ns) /\ Parent(n, ns) # None
           /\ \A o \in Containers(n, ns) :
                 Cardinality(networks[Parent(n, ns)].cidr) <= Cardinality(networks[o].cidr)
  <1>1. Containers(n, ns) \in SUBSET LiveNetworks
    BY DEF Containers
  <1>2. Parent(n, ns) = MostSpecific(Containers(n, ns))
    BY DEF Parent
  <1>3. /\ MostSpecific(Containers(n, ns)) \in Containers(n, ns)
        /\ \A o \in Containers(n, ns) :
              Cardinality(networks[MostSpecific(Containers(n, ns))].cidr)
                  <= Cardinality(networks[o].cidr)
    BY <1>1, FewestAddresses DEF MostSpecific
  <1>4. None \notin LiveNetworks
    BY NoneAssumption DEF LiveNetworks, Ids
  <1> QED
    BY <1>1, <1>2, <1>3, <1>4

LEMMA HierarchyEdge ==
    ASSUME TypeOK, NEW ns \in SUBSET LiveNetworks
    PROVE  /\ \A e \in HierarchyEdges(ns) :
                 /\ e.to \in ns /\ e.from \in ns /\ e.from \in Containers(e.to, ns)
           /\ \A n \in ns : Containers(n, ns) # {} =>
                 \E e \in HierarchyEdges(ns) :
                    e.what = "contains" /\ e.to = n /\ e.from = Parent(n, ns)
  <1>1. ASSUME NEW e \in HierarchyEdges(ns)
        PROVE  e.to \in ns /\ e.from \in ns /\ e.from \in Containers(e.to, ns)
    <2>1. PICK n \in ns : Parent(n, ns) # None /\ e = Edge(Parent(n, ns), n, "contains")
      BY <1>1 DEF HierarchyEdges
    <2>2. Containers(n, ns) # {}
      BY <2>1 DEF Parent
    <2>3. Parent(n, ns) \in Containers(n, ns) /\ Containers(n, ns) \subseteq ns
      BY <2>2, ParentIs DEF Containers
    <2> QED
      BY <2>1, <2>3, EdgeFields
  <1>2. ASSUME NEW n \in ns, Containers(n, ns) # {}
        PROVE  \E e \in HierarchyEdges(ns) :
                  e.what = "contains" /\ e.to = n /\ e.from = Parent(n, ns)
    <2>1. Edge(Parent(n, ns), n, "contains") \in HierarchyEdges(ns)
      BY <1>2, ParentIs DEF HierarchyEdges
    <2> QED
      BY <2>1 DEF Edge
  <1> QED
    BY <1>1, <1>2

LEMMA LevelsAre ==
    ASSUME IsFiniteSet(LiveNetworks), NEW ns \in SUBSET LiveNetworks, NEW n
    PROVE  /\ NetworkLevel(n, ns) \in Nat /\ IsFiniteSet(Containers(n, ns))
           /\ NetworkLevel(n, ns) = 2 * Cardinality(Containers(n, ns))
           /\ Cardinality(LiveNetworks) \in Nat
           /\ NetworkLevel(n, ns) <= 2 * Cardinality(LiveNetworks)
  <1>1. Containers(n, ns) \in SUBSET LiveNetworks
    BY DEF Containers
  <1>2. /\ Cardinality(Containers(n, ns)) \in Nat /\ Cardinality(LiveNetworks) \in Nat
        /\ Cardinality(Containers(n, ns)) <= Cardinality(LiveNetworks)
        /\ IsFiniteSet(Containers(n, ns))
    BY <1>1, FS_Subset, FS_CardinalityType
  <1> QED
    BY <1>2 DEF NetworkLevel, Level

\* Whatever contains the parent contains its child, and the parent itself does not.
LEMMA LevelsFall ==
    ASSUME TypeOK, IsFiniteSet(LiveNetworks), NEW ns \in SUBSET LiveNetworks,
           NEW e \in HierarchyEdges(ns)
    PROVE  NetworkLevel(e.from, ns) < NetworkLevel(e.to, ns)
  <1>1. e.from \in Containers(e.to, ns)
    BY HierarchyEdge
  <1>2. Containers(e.from, ns) \in SUBSET Containers(e.to, ns)
    BY <1>1 DEF Containers, Inside
  <1>3. e.from \notin Containers(e.from, ns)
    BY DEF Containers, Inside
  <1>4. Cardinality(Containers(e.from, ns)) < Cardinality(Containers(e.to, ns))
    BY <1>1, <1>2, <1>3, LevelsAre, SmallerSet
  <1>5. /\ Cardinality(Containers(e.from, ns)) \in Nat /\ Cardinality(Containers(e.to, ns)) \in Nat
    BY LevelsAre, FS_CardinalityType
  <1> QED
    BY <1>4, <1>5, LevelsAre

LEMMA FullContains ==
    ASSUME NEW e \in FullEdges, e.what = "contains"
    PROVE  \/ e \in HierarchyEdges(IpamNetworks)
           \/ \E h \in LiveHosts : \E n \in Ancestors(h) : e = Edge(n, h, "contains")
  <1>1. \A x, doc : e \notin MembershipEdges(x, doc)
    BY DEF MembershipEdges, Edge
  <1>2. \A c, xs : e \notin ConnectionEdges(c, xs)
    BY DEF ConnectionEdges, Edge
  <1>3. \A h, q, n : e \notin PeerEdges(h, q, n)
    BY DEF PeerEdges, Edge
  <1>4. e \notin UNION {MembershipEdges(h, hosts[h]) : h \in LiveHosts}
    BY <1>1
  <1>5. e \notin UNION {MembershipEdges(c, clients[c]) : c \in LiveClients}
    BY <1>1
  <1>6. e \notin UNION {PeerEdges(d.ends[1], d.ends[2], d.on) : d \in DrawnPeers}
    BY <1>3
  <1>7. e \notin UNION {ConnectionEdges(c, {x \in clients[c].connections : x.host_id \in LiveHosts}) :
                           c \in LiveClients}
    BY <1>2
  <1>8. \/ e \in HierarchyEdges(IpamNetworks)
        \/ e \in UNION {{Edge(n, h, "contains") : n \in Ancestors(h)} : h \in LiveHosts}
    BY <1>4, <1>5, <1>6, <1>7, Zenon DEF FullEdges
  <1> QED
    BY <1>8

LEMMA HostContains ==
    ASSUME NEW h, NEW e \in HostEdges(h), e.what = "contains"
    PROVE  e \in HierarchyEdges(Regular(h))
  <1>1. \A x, doc : e \notin MembershipEdges(x, doc)
    BY DEF MembershipEdges, Edge
  <1>2. \A c, xs : e \notin ConnectionEdges(c, xs)
    BY DEF ConnectionEdges, Edge
  <1>3. \A q, n : e \notin PeerEdges(h, q, n)
    BY DEF PeerEdges, Edge
  <1> QED
    BY <1>1, <1>2, <1>3, Zenon DEF HostEdges

LEMMA ClientContains ==
    ASSUME NEW c, NEW e \in ClientEdges(c), e.what = "contains"
    PROVE  e \in HierarchyEdges(ClientNetworks(c))
  <1>1. \A x, doc : e \notin MembershipEdges(x, doc)
    BY DEF MembershipEdges, Edge
  <1>2. \A d, xs : e \notin ConnectionEdges(d, xs)
    BY DEF ConnectionEdges, Edge
  <1>3. \A x, n : e # Edge(x, n, "member")
    BY DEF Edge
  <1> QED
    BY <1>1, <1>2, <1>3, Zenon DEF ClientEdges

\* No id is of two collections, and no network of two types.
LEMMA KindsApart ==
    /\ LiveNetworks \cap (LiveHosts \cup LiveClients) = {} /\ LiveHosts \cap LiveClients = {}
    /\ IpamNetworks \in SUBSET LiveNetworks
    /\ IpamNetworks \cap (OfType("p2p") \cup OfType("host_network")) = {}
  BY OwnersAssumption DEF LiveNetworks, LiveHosts, LiveClients, IpamNetworks, OfType

LEMMA FullLevels ==
    /\ \A n \in IpamNetworks : FullLevel(n) = NetworkLevel(n, IpamNetworks)
    /\ \A h \in LiveHosts : FullLevel(h) = HostLevel
  <1>1. ASSUME NEW n \in IpamNetworks PROVE FullLevel(n) = NetworkLevel(n, IpamNetworks)
    <2>1. n \notin OfType("p2p") \cup LiveHosts /\ n \notin OfType("host_network") /\ n \notin LiveClients
      BY KindsApart
    <2> QED
      BY <2>1 DEF FullLevel
  <1>2. ASSUME NEW h \in LiveHosts PROVE FullLevel(h) = HostLevel
    <2>1. h \notin IpamNetworks /\ h \notin OfType("host_network") /\ h \notin LiveClients
      BY KindsApart DEF OfType
    <2> QED
      BY <2>1 DEF FullLevel
  <1> QED
    BY <1>1, <1>2

\* Hosts are below every IPAM block.
LEMMA HostsBelow ==
    ASSUME IsFiniteSet(LiveNetworks), NEW n \in IpamNetworks
    PROVE  NetworkLevel(n, IpamNetworks) < HostLevel
  <1> DEFINE levels == {NetworkLevel(m, IpamNetworks) : m \in IpamNetworks}
             bound == 2 * Cardinality(LiveNetworks)
  <1>1. /\ bound \in Nat
        /\ \A m \in IpamNetworks :
              NetworkLevel(m, IpamNetworks) \in Nat /\ NetworkLevel(m, IpamNetworks) <= bound
    BY LevelsAre, KindsApart
  <1>2. levels \in SUBSET Nat /\ levels # {} /\ \A k \in levels : k <= bound
    BY <1>1
  <1>3. HostLevel = 2 + Largest(levels)
    BY DEF HostLevel
  <1>4. NetworkLevel(n, IpamNetworks) \in levels
    OBVIOUS
  <1> HIDE DEF levels, bound
  <1>5. Largest(levels) \in Nat /\ NetworkLevel(n, IpamNetworks) <= Largest(levels)
    BY <1>1, <1>2, <1>4, LargestFound
  <1> QED
    BY <1>1, <1>3, <1>5

LEMMA FullLevelsFall ==
    ASSUME TypeOK, IsFiniteSet(LiveNetworks), NEW e \in FullEdges, e.what = "contains"
    PROVE  FullLevel(e.from) < FullLevel(e.to)
  <1>1. CASE e \in HierarchyEdges(IpamNetworks)
    BY <1>1, KindsApart, HierarchyEdge, LevelsFall, FullLevels
  <1>2. CASE \E h \in LiveHosts : \E n \in Ancestors(h) : e = Edge(n, h, "contains")
    <2>0. PICK h \in LiveHosts : \E n \in Ancestors(h) : e = Edge(n, h, "contains")
      BY <1>2
    <2>1. PICK n \in Ancestors(h) : e.from = n /\ e.to = h
      BY <2>0, EdgeFields
    <2>2. n \in IpamNetworks
      BY ParentFound, KindsApart DEF Ancestors
    <2> QED
      BY <2>1, <2>2, FullLevels, HostsBelow
  <1> QED
    BY <1>1, <1>2, FullContains

LEMMA HostLevelsFall ==
    ASSUME TypeOK, IsFiniteSet(LiveNetworks), NEW h \in LiveHosts, NEW e \in HostEdges(h),
           e.what = "contains"
    PROVE  HostGraphLevel(h, e.from) < HostGraphLevel(h, e.to)
  <1>1. Regular(h) \in SUBSET LiveNetworks /\ e \in HierarchyEdges(Regular(h))
    BY HostContains DEF Regular
  <1>2. ASSUME NEW n \in Regular(h)
        PROVE  HostGraphLevel(h, n) = NetworkLevel(n, Regular(h)) + 2
    <2>1. n \notin LiveHosts \cup HostToHost(h) /\ n \notin LiveClients
      BY KindsApart DEF Regular
    <2> QED
      BY <2>1 DEF HostGraphLevel
  <1>3. e.from \in Regular(h) /\ e.to \in Regular(h)
    BY <1>1, HierarchyEdge
  <1>4. NetworkLevel(e.from, Regular(h)) < NetworkLevel(e.to, Regular(h))
    BY <1>1, LevelsFall
  <1>5. NetworkLevel(e.from, Regular(h)) \in Nat /\ NetworkLevel(e.to, Regular(h)) \in Nat
    BY <1>1, LevelsAre
  <1> QED
    BY <1>2, <1>3, <1>4, <1>5

LEMMA ClientLevelsFall ==
    ASSUME TypeOK, IsFiniteSet(LiveNetworks), NEW c \in LiveClients, NEW e \in ClientEdges(c),
           e.what = "contains"
    PROVE  ClientGraphLevel(c, e.from) < ClientGraphLevel(c, e.to)
  <1> DEFINE ns == ClientNetworks(c)
  <1>1. ns \in SUBSET LiveNetworks /\ e \in HierarchyEdges(ns)
    BY ClientContains DEF ClientNetworks
  <1>2. ASSUME NEW n \in ns
        PROVE  ClientGraphLevel(c, n) = NetworkLevel(n, ns) + 2
    <2>1. n \notin LiveHosts /\ n # c
      BY <1>1, KindsApart
    <2> QED
      BY <2>1 DEF ClientGraphLevel
  <1> HIDE DEF ns
  <1>3. e.from \in ns /\ e.to \in ns
    BY <1>1, HierarchyEdge
  <1>4. NetworkLevel(e.from, ns) < NetworkLevel(e.to, ns)
    BY <1>1, LevelsFall
  <1>5. NetworkLevel(e.from, ns) \in Nat /\ NetworkLevel(e.to, ns) \in Nat
    BY <1>1, LevelsAre
  <1> QED
    BY <1>2, <1>3, <1>4, <1>5

\* Of two blocks that share an address, and are stored, the one with no more addresses
\* is in the other.
LEMMA NoWider ==
    ASSUME TypeOK, NetworksNest, NEW m \in LiveNetworks, NEW n \in LiveNetworks,
           networks[m].cidr \cap networks[n].cidr # {},
           Cardinality(networks[m].cidr) <= Cardinality(networks[n].cidr)
    PROVE  networks[m].cidr \subseteq networks[n].cidr
  <1>1. networks[m].cidr \subseteq networks[n].cidr \/ networks[n].cidr \subseteq networks[m].cidr
    BY DEF NetworksNest, PartialOverlap
  <1>2. CASE networks[n].cidr \subseteq networks[m].cidr
    <2>1. networks[n].cidr # networks[m].cidr =>
              Cardinality(networks[n].cidr) < Cardinality(networks[m].cidr)
      BY <1>2, Blocks, SmallerSet
    <2> QED
      BY <2>1, Blocks
  <1> QED
    BY <1>1, <1>2

\* From a block upwards there is a chain to every block that contains it, each link of
\* which is the parent: the highest block of the chain within n is n.
LEMMA ChainReaches ==
    ASSUME TypeOK, NoOrphanMembership, NetworksNest, NEW h \in LiveHosts, NEW n \in IpamNetworks,
           NEW m \in MemberNets(hosts[h]) \ OfType("ipam"), Inside(m, n),
           NEW above \in SUBSET IpamNetworks,
           \A e \in FullEdges : e.what = "contains" /\ e.to \in above \cup {h} => e.from \in above
    PROVE  \E o \in above : networks[o].cidr = networks[n].cidr
  <1>1. m \in LiveNetworks /\ IpamNetworks \in SUBSET LiveNetworks
    BY OnStoredNetworks, KindsApart
  <1>2. m \in OfType("p2p") \cup OfType("host_network")
    BY <1>1 DEF OfType, TypeOK, LiveNetworks, NetworkDoc, NetworkType
  <1> DEFINE chain == {o \in above : /\ networks[m].cidr \subseteq networks[o].cidr
                                     /\ networks[o].cidr \subseteq networks[n].cidr}
             size(o) == Cardinality(networks[o].cidr)
  <1>3. ASSUME NEW b \in {m} \cup chain, Inside(b, n), networks[m].cidr \subseteq networks[b].cidr,
               b = m => Parent(b, IpamNetworks) \in above,
               b \in chain => Parent(b, IpamNetworks) \in above
        PROVE  Parent(b, IpamNetworks) \in chain /\ size(b) < size(Parent(b, IpamNetworks))
    <2>1. n \in Containers(b, IpamNetworks)
      BY <1>3 DEF Containers
    <2>2. PICK q \in Containers(b, IpamNetworks) :
              q = Parent(b, IpamNetworks) /\ q \in LiveNetworks /\ size(q) <= size(n)
      BY <1>1, <2>1, ParentIs DEF Containers
    <2>3. networks[b].cidr \subseteq networks[q].cidr /\ networks[b].cidr # networks[q].cidr
      BY <2>2 DEF Containers, Inside
    <2>4. b \in LiveNetworks /\ n \in LiveNetworks
      BY <1>1
    <2>5. networks[q].cidr \cap networks[n].cidr # {}
      BY <1>3, <2>3, <2>4, Blocks DEF Inside
    <2>6. networks[q].cidr \subseteq networks[n].cidr
      BY <2>2, <2>4, <2>5, NoWider
    <2>7. size(b) < size(q)
      BY <2>2, <2>3, Blocks, SmallerSet
    <2> QED
      BY <1>3, <2>2, <2>3, <2>6, <2>7
  <1>4. Parent(m, IpamNetworks) \in above
    <2>1. n \in Containers(m, IpamNetworks)
      BY DEF Containers
    <2>2. Parent(m, IpamNetworks) \in Ancestors(h)
      BY <1>1, <1>2, <2>1, ParentIs DEF Ancestors
    <2>3. Edge(Parent(m, IpamNetworks), h, "contains")
              \in UNION {{Edge(q, g, "contains") : q \in Ancestors(g)} : g \in LiveHosts}
      BY <2>2
    <2>4. Edge(Parent(m, IpamNetworks), h, "contains") \in FullEdges
      BY <2>3, Zenon DEF FullEdges
    <2> QED
      BY <2>4 DEF Edge
  <1>5. ASSUME NEW b \in chain, Inside(b, n)
        PROVE  Parent(b, IpamNetworks) \in above
    <2>1. b \in IpamNetworks /\ Containers(b, IpamNetworks) # {}
      BY <1>5 DEF Containers
    <2>2. PICK e \in HierarchyEdges(IpamNetworks) :
              e.what = "contains" /\ e.to = b /\ e.from = Parent(b, IpamNetworks)
      BY <1>1, <2>1, HierarchyEdge
    <2>3. e \in FullEdges
      BY <2>2, Zenon DEF FullEdges
    <2> QED
      BY <2>2, <2>3
  <1>6. chain # {}
    BY <1>3, <1>4, <1>5
  <1>7. \A o \in chain : size(o) \in Nat /\ size(n) \in Nat /\ size(o) <= size(n)
    BY <1>1, Blocks, FS_Subset
  <1>8. PICK o \in chain : \A b \in chain : size(b) <= size(o)
    <2> DEFINE sizes == {size(b) : b \in chain}
    <2>1. sizes # {} /\ sizes \in SUBSET Nat /\ size(n) \in Nat /\ \A k \in sizes : k <= size(n)
      BY <1>6, <1>7
    <2>2. \E k \in sizes : \A l \in sizes : l <= k
      <3> HIDE DEF sizes, size
      <3> QED
        BY <2>1, LargestFound
    <2> QED
      BY <2>2
  <1>9. ~Inside(o, n)
    <2> SUFFICES ASSUME Inside(o, n) PROVE FALSE
      OBVIOUS
    <2>1. Parent(o, IpamNetworks) \in chain /\ size(o) < size(Parent(o, IpamNetworks))
      BY <1>3, <1>5
    <2>2. size(Parent(o, IpamNetworks)) <= size(o)
      BY <1>8, <2>1
    <2> QED
      BY <1>7, <2>1, <2>2
  <1> QED
    BY <1>9 DEF Inside

\* Containment leads downwards in all graphs, and on the dashboard down to every host
\* from each block drawn that holds one of its networks: blocks that are stored nest, so
\* that the parents of a network go through all that contain it.
THEOREM TreeAlwaysReachesHosts == Spec => []TreeReachesHosts
  <1>1. ASSUME TypeOK, NoOrphanMembership, NetworksNest, IsFiniteSet(LiveNetworks)
        PROVE  TreeReachesHosts
    <2>1. \A h \in LiveHosts, n \in IpamNetworks :
             (\E m \in MemberNets(hosts[h]) \ OfType("ipam") : Inside(m, n)) =>
                 \A above \in SUBSET IpamNetworks :
                    (\A e \in FullEdges : e.what = "contains" /\ e.to \in above \cup {h} => e.from \in above)
                        => \E m \in above : networks[m].cidr = networks[n].cidr
      BY <1>1, ChainReaches
    <2> QED
      BY <1>1, <2>1, FullLevelsFall, HostLevelsFall, ClientLevelsFall DEF TreeReachesHosts
  <1> QED
    BY <1>1, TypeCorrect, MembershipsKeepNetworks, AlwaysNested, PTL
=============================================================================
