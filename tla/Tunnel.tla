------------------------------- MODULE Tunnel -------------------------------
(***************************************************************************)
(* The WireGuard configuration files of app/services/tunnel.py: for an     *)
(* interface of a host, or a client on a network, whose private key the    *)
(* file holds and which peers it names, with which public key and for      *)
(* which address.  A key pair is its ObjectId.  Endpoints, ports, MTU and  *)
(* keepalive, which are copied from the documents, are left out.           *)
(***************************************************************************)
EXTENDS Store

MembershipOn(doc, n) == CHOOSE m \in doc.network_memberships : m.network_id = n

\* keys.find_one: the key, or a blank if the pointer is not set or leads nowhere.
StoredKey(k) == IF k \in keys THEN k ELSE None

InterfaceKey(h, n) ==
    IF MemberOf(hosts[h], n) THEN StoredKey(MembershipOn(hosts[h], n).active_key_id) ELSE None

Peer(who, key, allowed) == [who |-> who, key |-> key, allowed |-> allowed]

File(key, address, dns, peers) ==
    [private_key |-> key, address |-> address, dns |-> dns, peers |-> peers]

\* _single_address takes the prefix length from the network.
AddressLine(m) == IF networks[m.network_id] = None THEN None ELSE m.ip

DnsLine(d) == IF d \in dnsServers THEN d ELSE None

-----------------------------------------------------------------------------
(* render_host_interface_config *)

HasHostFile(h, n) ==
    /\ h \in LiveHosts /\ MemberOf(hosts[h], n)
    /\ MembershipOn(hosts[h], n).interface_type # "client_non_wg"

ClientPeers_AnyNetwork(h, n) ==
    {Peer(c, StoredKey(clients[c].active_key_id), MembershipOn(clients[c], n).ip) :
        c \in {d \in LiveClients :
            MemberOf(clients[d], n) /\ \E x \in clients[d].connections : x.host_id = h}}

\* A client may only use its own address.
ClientPeers(h, n) ==
    {Peer(c, StoredKey(clients[c].active_key_id), MembershipOn(clients[c], n).ip) :
        c \in {d \in LiveClients :
            /\ MemberOf(clients[d], n)
            /\ \E x \in clients[d].connections : x.host_id = h /\ x.network_id = n}}

HostPeers_AnyNetwork(h, n) ==
    {Peer(x.peer_host_id, InterfaceKey(x.peer_host_id, n), x.allowed_ips_set_id) :
        x \in {y \in hosts[h].peer_connections : y.peer_host_id \in LiveHosts}}

HostPeers(h, n) ==
    {Peer(x.peer_host_id, InterfaceKey(x.peer_host_id, n), x.allowed_ips_set_id) :
        x \in {y \in hosts[h].peer_connections :
            y.network_id = n /\ y.peer_host_id \in LiveHosts}}

HostFile(h, n) ==
    LET m == MembershipOn(hosts[h], n)
    IN  File(InterfaceKey(h, n), AddressLine(m), DnsLine(m.dns_server_id),
             ClientPeers(h, n) \cup HostPeers(h, n))

-----------------------------------------------------------------------------
(* render_client_interface_config *)

HasClientFile(c, n) == c \in LiveClients /\ MemberOf(clients[c], n)

ConnectionPeers(c, n) ==
    {Peer(x.host_id, InterfaceKey(x.host_id, n), x.allowed_ips_set_id) :
        x \in {y \in clients[c].connections : y.network_id = n /\ y.host_id \in LiveHosts}}

ClientFile(c, n) ==
    File(StoredKey(clients[c].active_key_id), AddressLine(MembershipOn(clients[c], n)),
         DnsLine(clients[c].dns_server_id), ConnectionPeers(c, n))

-----------------------------------------------------------------------------
HasFile(x, n) == IF x \in Host THEN HasHostFile(x, n) ELSE HasClientFile(x, n)

FileOf(x, n) == IF x \in Host THEN HostFile(x, n) ELSE ClientFile(x, n)

\* Both ends of a tunnel agree: of two files for one network, either each names the
\* other's owner, once, under the key whose private half the other holds, or neither
\* does.  What a host lets a client use is the address in the client's own file, and
\* no two clients in a host's file have the same.
FilesMatch ==
    \A n \in Network : \A x, y \in {z \in Host \cup Client : HasFile(z, n)} :
        LET named == {p \in FileOf(x, n).peers : p.who = y}
            naming == {p \in FileOf(y, n).peers : p.who = x}
        IN  /\ Cardinality(named) = Cardinality(naming) /\ Cardinality(named) <= 1
            /\ \A p \in named :
                  /\ p.key = FileOf(y, n).private_key
                  /\ y \in Client => p.allowed = FileOf(y, n).address
            /\ y \in Client => \A p \in named, q \in FileOf(x, n).peers :
                  q.who \in Client /\ q.allowed = p.allowed => q = p
=============================================================================
