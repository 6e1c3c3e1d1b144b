------------------------------ MODULE Integrity ------------------------------
(***************************************************************************)
(* What it means for the collections to fit together.  MongoDB enforces    *)
(* none of it: there are no foreign keys and no unique index outside       *)
(* users, so every part below rests on the checks of the handlers.         *)
(***************************************************************************)
EXTENDS Store

\* Every collection holds documents of its shape, and none under an ObjectId that
\* was not handed out.
TypeOK ==
    /\ networks \in [Network -> NetworkDoc \cup {None}]
    /\ hosts \in [Host -> HostDoc \cup {None}]
    /\ clients \in [Client -> ClientDoc \cup {None}]
    /\ keys \subseteq Key
    /\ dnsServers \subseteq DnsServer
    /\ allowedIps \subseteq AllowedIpsSet
    /\ issued \subseteq Ids
    /\ LiveNetworks \cup LiveHosts \cup LiveClients \subseteq issued
    /\ keys \cup dnsServers \cup allowedIps \subseteq issued

\* Every interface and client membership belongs to a stored network:
\* delete_network refuses while _used_ip_count is positive.
NoOrphanMembership ==
    /\ \A h \in LiveHosts : \A m \in hosts[h].network_memberships : m.network_id \in LiveNetworks
    /\ \A c \in LiveClients : \A m \in clients[c].network_memberships : m.network_id \in LiveNetworks

\* A host has one interface, and a client one membership, per network: the
\* routes address an interface by host and network alone.
OneInterfacePerNetwork ==
    /\ \A h \in LiveHosts : \A m, o \in hosts[h].network_memberships :
          m.network_id = o.network_id => m = o
    /\ \A c \in LiveClients : \A m, o \in clients[c].network_memberships :
          m.network_id = o.network_id => m = o

\* Within one network no address is given out twice, across hosts and clients.
AddressesUnique ==
    /\ \A h, g \in LiveHosts :
          \A m \in hosts[h].network_memberships, o \in hosts[g].network_memberships :
              m.network_id = o.network_id /\ m.ip = o.ip => h = g
    /\ \A h \in LiveHosts, c \in LiveClients :
          \A m \in hosts[h].network_memberships, o \in clients[c].network_memberships :
              m.network_id = o.network_id => m.ip # o.ip
    /\ \A c, b \in LiveClients :
          \A m \in clients[c].network_memberships, o \in clients[b].network_memberships :
              m.network_id = o.network_id /\ m.ip = o.ip => c = b

\* A peer connection is stored on both hosts, with the same Allowed IPs set, and
\* never links a host to itself: add_peer_connection and remove_peer_connection
\* write both sides.
PeersReciprocal ==
    \A h \in LiveHosts : \A x \in hosts[h].peer_connections :
        /\ x.peer_host_id \in LiveHosts \ {h}
        /\ NewPeer(h, x.network_id, x.allowed_ips_set_id)
              \in hosts[x.peer_host_id].peer_connections

\* Two hosts have at most one peer connection per network, a client at most one
\* connection per host and network, so that a tunnel file names each peer once.
OneLinkPerPair ==
    /\ \A h \in LiveHosts : \A x, y \in hosts[h].peer_connections :
          x.peer_host_id = y.peer_host_id /\ x.network_id = y.network_id => x = y
    /\ \A c \in LiveClients : \A x, y \in clients[c].connections :
          x.host_id = y.host_id /\ x.network_id = y.network_id => x = y

\* Both ends of a peer connection have an interface on its network for as long as
\* it is there: remove_interface, edit_interface and delete_host refuse.
PeersOverInterfaces ==
    \A h \in LiveHosts : \A x \in hosts[h].peer_connections :
        /\ MemberOf(hosts[h], x.network_id)
        /\ x.peer_host_id \in LiveHosts
        /\ MemberOf(hosts[x.peer_host_id], x.network_id)

\* So have both ends of a client's connection.
ConnectionsOverInterfaces ==
    \A c \in LiveClients : \A x \in clients[c].connections :
        /\ MemberOf(clients[c], x.network_id)
        /\ x.host_id \in LiveHosts
        /\ MemberOf(hosts[x.host_id], x.network_id)

\* A key that an interface or a client uses is stored: delete_key_if_unused.
KeysLive ==
    /\ \A h \in LiveHosts : \A m \in hosts[h].network_memberships :
          m.active_key_id \in keys \cup {None}
    /\ \A c \in LiveClients : clients[c].active_key_id \in keys \cup {None}

\* No client is without a key: create_client gives it one and later handlers only
\* replace it.
ClientsHaveKeys == \A c \in LiveClients : clients[c].active_key_id # None

\* The DNS servers and Allowed IPs sets in use are stored (_in_use of both).
PresetsLive ==
    /\ \A h \in LiveHosts : \A m \in hosts[h].network_memberships :
          m.dns_server_id \in DnsChoice
    /\ \A h \in LiveHosts : \A x \in hosts[h].peer_connections :
          x.allowed_ips_set_id \in allowedIps
    /\ \A c \in LiveClients : clients[c].dns_server_id \in DnsChoice
    /\ \A c \in LiveClients : \A x \in clients[c].connections :
          x.allowed_ips_set_id \in allowedIps

-----------------------------------------------------------------------------
(* What the documents say of the collections. *)

\* app/keys/routes.py: non-WireGuard interfaces never have a key.
NonWireGuardHasNoKey ==
    \A h \in LiveHosts : \A m \in hosts[h].network_memberships :
        m.interface_type = "client_non_wg" => m.active_key_id = None
=============================================================================
