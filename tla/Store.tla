------------------------------- MODULE Store -------------------------------
(***************************************************************************)
(* The MongoDB collections of the WireGuard Network Manager, the checks a  *)
(* request handler makes against them before it writes, and the single     *)
(* document writes it then issues.  Inventory.tla puts the two together as *)
(* atomic handlers; Requests.tla lets handlers of several gunicorn threads *)
(* interleave between check and write.                                     *)
(*                                                                         *)
(* A document is None until it is inserted and again after it is deleted.  *)
(* Embedded arrays are sets: the code searches them by field and never     *)
(* relies on their order, except for the index of remove_connection, which *)
(* here picks any element.  Names, ports, hostnames and other fields that  *)
(* no check reads are left out.                                            *)
(***************************************************************************)
EXTENDS Naturals, FiniteSets

CONSTANTS
    Host, Client, Network, Key,     \* the ObjectIds the collections may be given
    DnsServer, AllowedIpsSet,
    Address,                        \* the IP addresses an administrator types in
    Cidr,                           \* the CIDR blocks, each the set of its addresses
    None                            \* Python's None, and a document that is not there

ASSUME CidrAssumption == Cidr \subseteq SUBSET Address

VARIABLES
    networks, hosts, clients,       \* _id -> document or None
    keys, dnsServers, allowedIps,   \* the _ids of the documents that exist
    issued                          \* every ObjectId handed out so far: none is used twice

vars == <<networks, hosts, clients, keys, dnsServers, allowedIps, issued>>

-----------------------------------------------------------------------------
(* Document shapes. *)

NetworkType == {"p2p", "ipam", "host_network"}

InterfaceType == {"p2p", "client", "client_non_wg"}

INTERFACE_TYPE_NETWORK_TYPE ==
    [t \in InterfaceType |-> IF t = "p2p" THEN "p2p" ELSE "host_network"]

NetworkDoc ==
    [cidr : Cidr, network_type : NetworkType, managing_host_id : Host \cup {None}]

Interface ==
    [network_id : Network, ip : Address, interface_type : InterfaceType,
     dns_server_id : DnsServer \cup {None}, active_key_id : Key \cup {None}]

PeerConnection ==
    [peer_host_id : Host, network_id : Network, allowed_ips_set_id : AllowedIpsSet]

HostDoc ==
    [network_memberships : SUBSET Interface, peer_connections : SUBSET PeerConnection]

ClientMembership == [network_id : Network, ip : Address]

Connection ==
    [host_id : Host, network_id : Network, allowed_ips_set_id : AllowedIpsSet]

ClientDoc ==
    [active_key_id : Key \cup {None}, dns_server_id : DnsServer \cup {None},
     network_memberships : SUBSET ClientMembership, connections : SUBSET Connection]

Ids == Host \cup Client \cup Network \cup Key \cup DnsServer \cup AllowedIpsSet

LiveNetworks == {n \in Network : networks[n] # None}
LiveHosts    == {h \in Host : hosts[h] # None}
LiveClients  == {c \in Client : clients[c] # None}

\* None is no ObjectId, no address and no document.
ASSUME NoneAssumption ==
    /\ None \notin Ids \cup Address
    /\ None \notin NetworkDoc /\ None \notin HostDoc /\ None \notin ClientDoc

\* An ObjectId is unique across collections.
ASSUME OwnersAssumption == Host \cap Client = {} /\ Network \cap (Host \cup Client) = {}

\* A new ObjectId is not the one of any document, and not one inserted before.
Fresh(id) == id \notin issued

-----------------------------------------------------------------------------
(* Queries shared by the handlers. *)

\* _find_membership and _membership_ip: has the document an entry for n?
MemberOf(doc, n) == \E m \in doc.network_memberships : m.network_id = n

AddressTaken_HostsOnly(n, ip, except) ==
    \E h \in LiveHosts \ except : \E m \in hosts[h].network_memberships :
        m.network_id = n /\ m.ip = ip

\* The two count_documents queries for {network_id: n, ip: ip}; the first leaves
\* out the host documents in `except`.
AddressTaken(n, ip, except) ==
    \/ \E h \in LiveHosts \ except : \E m \in hosts[h].network_memberships :
          m.network_id = n /\ m.ip = ip
    \/ \E c \in LiveClients : \E m \in clients[c].network_memberships :
          m.network_id = n /\ m.ip = ip

\* Some client connects to h on n (connections: $elemMatch host_id, network_id).
ClientConnected(h, n) ==
    \E c \in LiveClients : \E x \in clients[c].connections :
        x.host_id = h /\ x.network_id = n

\* h itself has a peer connection on n.
PeersOn(h, n) == \E p \in hosts[h].peer_connections : p.network_id = n

PeersWith_WrongSide(h, p, n) ==
    \E x \in hosts[h].peer_connections : x.peer_host_id = h /\ x.network_id = n

\* h already has a peer connection to p on n; only h's side is looked at.
PeersWith(h, p, n) ==
    \E x \in hosts[h].peer_connections : x.peer_host_id = p /\ x.network_id = n

KeyUsed_HostsOnly(k) ==
    \E h \in LiveHosts : \E m \in hosts[h].network_memberships : m.active_key_id = k

\* key_usages(k) is not empty.
KeyUsed(k) ==
    \/ \E h \in LiveHosts : \E m \in hosts[h].network_memberships : m.active_key_id = k
    \/ \E c \in LiveClients : clients[c].active_key_id = k

DnsServerInUse_ClientsOnly(d) == \E c \in LiveClients : clients[c].dns_server_id = d

DnsServerInUse(d) ==
    \/ \E h \in LiveHosts : \E m \in hosts[h].network_memberships : m.dns_server_id = d
    \/ \E c \in LiveClients : clients[c].dns_server_id = d

AllowedIpsInUse(a) ==
    \/ \E c \in LiveClients : \E x \in clients[c].connections : x.allowed_ips_set_id = a
    \/ \E h \in LiveHosts : \E p \in hosts[h].peer_connections : p.allowed_ips_set_id = a

NetworkUsed_HostsOnly(n) == \E h \in LiveHosts : MemberOf(hosts[h], n)

NetworkUsed(n) ==
    \/ \E h \in LiveHosts : MemberOf(hosts[h], n)
    \/ \E c \in LiveClients : MemberOf(clients[c], n)

PartialOverlap(a, b) == a \cap b # {} /\ ~(a \subseteq b) /\ ~(b \subseteq a)

\* cidr partly overlaps no stored network but those in `except`.
OverlapsNone(cidr, except) ==
    \A n \in LiveNetworks \ except : ~PartialOverlap(cidr, networks[n].cidr)

\* What a network form posts for the manager: a listed host or the empty choice,
\* which a host_network may not keep; the other types store no manager.
ManagerChosen(t, h) ==
    /\ h \in LiveHosts \cup {None}
    /\ t = "host_network" => h # None

StoredManager(t, h) == IF t = "host_network" THEN h ELSE None

\* The choices of a DNS server picker.
DnsChoice == dnsServers \cup {None}

\* An interface of h on n whose key the handlers will set.
KeyableInterface(h, n) ==
    /\ h \in LiveHosts
    /\ \E m \in hosts[h].network_memberships :
          m.network_id = n /\ m.interface_type # "client_non_wg"

-----------------------------------------------------------------------------
(* The checks of the handlers that have more than one. *)

\* An interface of type t may attach to n at ip.
Attachable(n, ip, t) ==
    /\ n \in LiveNetworks
    /\ networks[n].network_type = INTERFACE_TYPE_NETWORK_TYPE[t]
    /\ ip \in networks[n].cidr

CanAddInterface(h, n, ip, t, d) ==
    /\ h \in LiveHosts
    /\ d \in DnsChoice
    /\ Attachable(n, ip, t)
    /\ ~MemberOf(hosts[h], n)
    /\ ~AddressTaken(n, ip, {})

FreeToMove_ClientsUnchecked(h, n0, n) == ~MemberOf(hosts[h], n) /\ ~PeersOn(h, n0)

FreeToMove_MemberUnchecked(h, n0, n) == ~PeersOn(h, n0) /\ ~ClientConnected(h, n0)

\* The interface of h on n0 may move to n.
FreeToMove(h, n0, n) ==
    ~MemberOf(hosts[h], n) /\ ~PeersOn(h, n0) /\ ~ClientConnected(h, n0)

\* The interface of h on n0, of which _find_membership finds the entry m, becomes
\* one of type t on n at ip.
CanEditInterface(h, n0, n, ip, t, d) ==
    /\ h \in LiveHosts
    /\ d \in DnsChoice
    /\ Attachable(n, ip, t)
    /\ n # n0 => FreeToMove(h, n0, n)
    /\ ~AddressTaken(n, ip, {h})
    /\ \E m \in hosts[h].network_memberships :
          /\ m.network_id = n0
          /\ n = n0 /\ ip # m.ip =>
                ~\E o \in hosts[h].network_memberships : o.network_id = n /\ o.ip = ip

CanRemoveInterface_PeersUnchecked(h, n) == h \in LiveHosts /\ ~ClientConnected(h, n)

CanRemoveInterface(h, n) ==
    h \in LiveHosts /\ ~PeersOn(h, n) /\ ~ClientConnected(h, n)

CanAddPeerConnection(h, p, n, a) ==
    /\ h \in LiveHosts /\ p \in LiveHosts \ {h}
    /\ n \in LiveNetworks /\ a \in allowedIps
    /\ \E m \in hosts[h].network_memberships : m.network_id = n /\ m.interface_type = "p2p"
    /\ MemberOf(hosts[p], n)
    /\ ~PeersWith(h, p, n)

CanDeleteHost(h) ==
    /\ h \in LiveHosts
    /\ ~\E c \in LiveClients : \E x \in clients[c].connections : x.host_id = h
    /\ ~\E p \in LiveHosts : \E x \in hosts[p].peer_connections : x.peer_host_id = h

CanAddNetworkMembership(c, n, ip) ==
    /\ c \in LiveClients
    /\ n \in LiveNetworks /\ ip \in networks[n].cidr
    /\ ~MemberOf(clients[c], n)
    /\ ~AddressTaken(n, ip, {})

CanRemoveNetworkMembership(c, n) ==
    c \in LiveClients /\ ~\E x \in clients[c].connections : x.network_id = n

CanAddConnection(c, h, n, a) ==
    /\ c \in LiveClients /\ h \in LiveHosts
    /\ n \in LiveNetworks /\ a \in allowedIps
    /\ MemberOf(hosts[h], n) /\ MemberOf(clients[c], n)
    /\ ~\E x \in clients[c].connections : x.host_id = h /\ x.network_id = n

-----------------------------------------------------------------------------
(* The documents handlers insert, and the update_one calls they make: the    *)
(* value of a collection after one write.  An update of a document that is   *)
(* not there writes nothing.                                                 *)

NewHost == [network_memberships |-> {}, peer_connections |-> {}]

NewClient(d) ==
    [active_key_id |-> None, dns_server_id |-> d,
     network_memberships |-> {}, connections |-> {}]

NewNetwork(cidr, t, h) ==
    [cidr |-> cidr, network_type |-> t, managing_host_id |-> StoredManager(t, h)]

NewInterface_NoAddress(n, ip, t, d) ==
    [network_id |-> n, ip |-> None, interface_type |-> t,
     dns_server_id |-> IF t = "client_non_wg" THEN None ELSE d, active_key_id |-> None]

\* A non-WireGuard interface stores no DNS server whatever the form says.
NewInterface(n, ip, t, d) ==
    [network_id |-> n, ip |-> ip, interface_type |-> t,
     dns_server_id |-> IF t = "client_non_wg" THEN None ELSE d, active_key_id |-> None]

NewPeer(p, n, a) == [peer_host_id |-> p, network_id |-> n, allowed_ips_set_id |-> a]

NewConnection(h, n, a) == [host_id |-> h, network_id |-> n, allowed_ips_set_id |-> a]

UpdateOne(coll, id, doc) == IF coll[id] = None THEN coll ELSE [coll EXCEPT ![id] = doc]

SetInterfaces(hs, h, ms) == UpdateOne(hs, h, [hs[h] EXCEPT !.network_memberships = ms])

PushInterface(hs, h, m) == SetInterfaces(hs, h, hs[h].network_memberships \cup {m})

SetInterface_DropsKey(hs, h, n, new) ==
    SetInterfaces(hs, h,
        {IF m.network_id = n THEN new ELSE m : m \in hs[h].network_memberships})

\* The $set of edit_interface: the entry keeps its key.
SetInterface(hs, h, n, new) ==
    SetInterfaces(hs, h,
        {IF m.network_id = n THEN [new EXCEPT !.active_key_id = m.active_key_id] ELSE m :
            m \in hs[h].network_memberships})

SetInterfaceKey(hs, h, n, k) ==
    SetInterfaces(hs, h,
        {IF m.network_id = n THEN [m EXCEPT !.active_key_id = k] ELSE m :
            m \in hs[h].network_memberships})

PullInterface(hs, h, n) ==
    SetInterfaces(hs, h, {m \in hs[h].network_memberships : m.network_id # n})

SetPeers(hs, h, ps) == UpdateOne(hs, h, [hs[h] EXCEPT !.peer_connections = ps])

PushPeer(hs, h, x) == SetPeers(hs, h, hs[h].peer_connections \cup {x})

PullPeer_WrongSide(hs, h, p, n) ==
    SetPeers(hs, h,
        {x \in hs[h].peer_connections : ~(x.peer_host_id = h /\ x.network_id = n)})

PullPeer(hs, h, p, n) ==
    SetPeers(hs, h,
        {x \in hs[h].peer_connections : ~(x.peer_host_id = p /\ x.network_id = n)})

SetClientKey(cs, c, k) == UpdateOne(cs, c, [cs[c] EXCEPT !.active_key_id = k])

SetClientDns(cs, c, d) == UpdateOne(cs, c, [cs[c] EXCEPT !.dns_server_id = d])

SetMemberships(cs, c, ms) == UpdateOne(cs, c, [cs[c] EXCEPT !.network_memberships = ms])

PushMembership(cs, c, n, ip) ==
    SetMemberships(cs, c, cs[c].network_memberships \cup {[network_id |-> n, ip |-> ip]})

PullMembership(cs, c, n) ==
    SetMemberships(cs, c, {m \in cs[c].network_memberships : m.network_id # n})

\* remove_connection writes back the whole array it read, less one element.
SetConnections(cs, c, xs) == UpdateOne(cs, c, [cs[c] EXCEPT !.connections = xs])

PushConnection(cs, c, x) == SetConnections(cs, c, cs[c].connections \cup {x})
=============================================================================
