------------------------------ MODULE Inventory ------------------------------
(***************************************************************************)
(* The inventory of hosts, clients, networks, keys and presets as its      *)
(* handlers promise it: every POST is one atomic step that checks the      *)
(* collections and then makes all its writes, as it is while one           *)
(* administrator makes one request at a time.  A request whose check fails *)
(* only flashes a message and is no step here.  Requests.tla takes the     *)
(* handlers apart.                                                         *)
(***************************************************************************)
EXTENDS Integrity

Init ==
    /\ networks = [n \in Network |-> None]
    /\ hosts = [h \in Host |-> None]
    /\ clients = [c \in Client |-> None]
    /\ keys = {} /\ dnsServers = {} /\ allowedIps = {}
    /\ issued = {}

-----------------------------------------------------------------------------
(* networks *)

CreateNetwork(n, cidr, t, h) ==
    /\ Fresh(n) /\ OverlapsNone(cidr, {}) /\ ManagerChosen(t, h)
    /\ networks' = [networks EXCEPT ![n] = NewNetwork(cidr, t, h)]
    /\ issued' = issued \cup {n}
    /\ UNCHANGED <<hosts, clients, keys, dnsServers, allowedIps>>

\* Whether interfaces hang on the network is not looked at.
EditNetwork(n, cidr, t, h) ==
    /\ n \in LiveNetworks /\ OverlapsNone(cidr, {n}) /\ ManagerChosen(t, h)
    /\ networks' = [networks EXCEPT ![n] = NewNetwork(cidr, t, h)]
    /\ UNCHANGED <<hosts, clients, keys, dnsServers, allowedIps, issued>>

DeleteNetwork(n) ==
    /\ n \in LiveNetworks /\ ~NetworkUsed(n)
    /\ networks' = [networks EXCEPT ![n] = None]
    /\ UNCHANGED <<hosts, clients, keys, dnsServers, allowedIps, issued>>

-----------------------------------------------------------------------------
(* hosts *)

CreateHost(h) ==
    /\ Fresh(h)
    /\ hosts' = [hosts EXCEPT ![h] = NewHost]
    /\ issued' = issued \cup {h}
    /\ UNCHANGED <<networks, clients, keys, dnsServers, allowedIps>>

DeleteHost(h) ==
    /\ CanDeleteHost(h)
    /\ hosts' = [hosts EXCEPT ![h] = None]
    /\ UNCHANGED <<networks, clients, keys, dnsServers, allowedIps, issued>>

AddInterface(h, n, ip, t, d) ==
    /\ CanAddInterface(h, n, ip, t, d)
    /\ hosts' = PushInterface(hosts, h, NewInterface(n, ip, t, d))
    /\ UNCHANGED <<networks, clients, keys, dnsServers, allowedIps, issued>>

EditInterface(h, n0, n, ip, t, d) ==
    /\ CanEditInterface(h, n0, n, ip, t, d)
    /\ hosts' = SetInterface(hosts, h, n0, NewInterface(n, ip, t, d))
    /\ UNCHANGED <<networks, clients, keys, dnsServers, allowedIps, issued>>

RemoveInterface(h, n) ==
    /\ CanRemoveInterface(h, n)
    /\ hosts' = PullInterface(hosts, h, n)
    /\ UNCHANGED <<networks, clients, keys, dnsServers, allowedIps, issued>>

\* generate_and_store_key and assign_key_to_host_interface; the old key stays.
RotateInterfaceKey(h, n, k) ==
    /\ Fresh(k) /\ KeyableInterface(h, n)
    /\ keys' = keys \cup {k}
    /\ issued' = issued \cup {k}
    /\ hosts' = SetInterfaceKey(hosts, h, n, k)
    /\ UNCHANGED <<networks, clients, dnsServers, allowedIps>>

AssignInterfaceKey(h, n, k) ==
    /\ k \in keys /\ KeyableInterface(h, n)
    /\ hosts' = SetInterfaceKey(hosts, h, n, k)
    /\ UNCHANGED <<networks, clients, keys, dnsServers, allowedIps, issued>>

AddPeerConnection_OneSide(h, p, n, a) ==
    /\ CanAddPeerConnection(h, p, n, a)
    /\ hosts' = PushPeer(hosts, h, NewPeer(p, n, a))
    /\ UNCHANGED <<networks, clients, keys, dnsServers, allowedIps, issued>>

\* The connection is stored in both hosts, with the same Allowed IPs set.
AddPeerConnection(h, p, n, a) ==
    /\ CanAddPeerConnection(h, p, n, a)
    /\ hosts' = PushPeer(PushPeer(hosts, h, NewPeer(p, n, a)), p, NewPeer(h, n, a))
    /\ UNCHANGED <<networks, clients, keys, dnsServers, allowedIps, issued>>

\* Nothing is checked: any two host ids and network id of a URL will do.
RemovePeerConnection(h, p, n) ==
    /\ hosts' = PullPeer(PullPeer(hosts, h, p, n), p, h, n)
    /\ UNCHANGED <<networks, clients, keys, dnsServers, allowedIps, issued>>

-----------------------------------------------------------------------------
(* clients *)

\* key_source "new": the client and its key are both new.
CreateClient(c, d, k) ==
    /\ Fresh(c) /\ Fresh(k) /\ d \in DnsChoice
    /\ clients' = [clients EXCEPT ![c] = [NewClient(d) EXCEPT !.active_key_id = k]]
    /\ keys' = keys \cup {k}
    /\ issued' = issued \cup {c, k}
    /\ UNCHANGED <<networks, hosts, dnsServers, allowedIps>>

CreateClientWithKey_NotAssigned(c, d, k) ==
    /\ Fresh(c) /\ k \in keys /\ d \in DnsChoice
    /\ clients' = [clients EXCEPT ![c] = NewClient(d)]
    /\ issued' = issued \cup {c}
    /\ UNCHANGED <<networks, hosts, keys, dnsServers, allowedIps>>

\* key_source "existing".
CreateClientWithKey(c, d, k) ==
    /\ Fresh(c) /\ k \in keys /\ d \in DnsChoice
    /\ clients' = [clients EXCEPT ![c] = [NewClient(d) EXCEPT !.active_key_id = k]]
    /\ issued' = issued \cup {c}
    /\ UNCHANGED <<networks, hosts, keys, dnsServers, allowedIps>>

EditClient(c, d) ==
    /\ c \in LiveClients /\ d \in DnsChoice
    /\ clients' = SetClientDns(clients, c, d)
    /\ UNCHANGED <<networks, hosts, keys, dnsServers, allowedIps, issued>>

DeleteClient(c) ==
    /\ c \in LiveClients
    /\ clients' = [clients EXCEPT ![c] = None]
    /\ UNCHANGED <<networks, hosts, keys, dnsServers, allowedIps, issued>>

RotateKey_DropsOldKey(c, k) ==
    /\ c \in LiveClients /\ Fresh(k)
    /\ keys' = (keys \ {clients[c].active_key_id}) \cup {k}
    /\ issued' = issued \cup {k}
    /\ clients' = SetClientKey(clients, c, k)
    /\ UNCHANGED <<networks, hosts, dnsServers, allowedIps>>

\* The old key stays.
RotateKey(c, k) ==
    /\ c \in LiveClients /\ Fresh(k)
    /\ keys' = keys \cup {k}
    /\ issued' = issued \cup {k}
    /\ clients' = SetClientKey(clients, c, k)
    /\ UNCHANGED <<networks, hosts, dnsServers, allowedIps>>

AssignExistingKey(c, k) ==
    /\ c \in LiveClients /\ k \in keys
    /\ clients' = SetClientKey(clients, c, k)
    /\ UNCHANGED <<networks, hosts, keys, dnsServers, allowedIps, issued>>

AddNetworkMembership(c, n, ip) ==
    /\ CanAddNetworkMembership(c, n, ip)
    /\ clients' = PushMembership(clients, c, n, ip)
    /\ UNCHANGED <<networks, hosts, keys, dnsServers, allowedIps, issued>>

RemoveNetworkMembership(c, n) ==
    /\ CanRemoveNetworkMembership(c, n)
    /\ clients' = PullMembership(clients, c, n)
    /\ UNCHANGED <<networks, hosts, keys, dnsServers, allowedIps, issued>>

AddConnection(c, h, n, a) ==
    /\ CanAddConnection(c, h, n, a)
    /\ clients' = PushConnection(clients, c, NewConnection(h, n, a))
    /\ UNCHANGED <<networks, hosts, keys, dnsServers, allowedIps, issued>>

\* The index of the URL picks any element of the array.
RemoveConnection(c, x) ==
    /\ c \in LiveClients /\ x \in clients[c].connections
    /\ clients' = SetConnections(clients, c, clients[c].connections \ {x})
    /\ UNCHANGED <<networks, hosts, keys, dnsServers, allowedIps, issued>>

-----------------------------------------------------------------------------
(* keys, dns_servers and allowed_ips *)

CreateKey(k) ==
    /\ Fresh(k)
    /\ keys' = keys \cup {k} /\ issued' = issued \cup {k}
    /\ UNCHANGED <<networks, hosts, clients, dnsServers, allowedIps>>

\* assign_key offers the interfaces that may have a key, and every client.
AssignKeyToInterface(k, h, n) ==
    /\ k \in keys /\ KeyableInterface(h, n)
    /\ hosts' = SetInterfaceKey(hosts, h, n, k)
    /\ UNCHANGED <<networks, clients, keys, dnsServers, allowedIps, issued>>

AssignKeyToClient(k, c) ==
    /\ k \in keys /\ c \in LiveClients
    /\ clients' = SetClientKey(clients, c, k)
    /\ UNCHANGED <<networks, hosts, keys, dnsServers, allowedIps, issued>>

DeleteKey(k) ==
    /\ k \in keys /\ ~KeyUsed(k)
    /\ keys' = keys \ {k}
    /\ UNCHANGED <<networks, hosts, clients, dnsServers, allowedIps, issued>>

CreateDnsServer(d) ==
    /\ Fresh(d)
    /\ dnsServers' = dnsServers \cup {d} /\ issued' = issued \cup {d}
    /\ UNCHANGED <<networks, hosts, clients, keys, allowedIps>>

DeleteDnsServer(d) ==
    /\ d \in dnsServers /\ ~DnsServerInUse(d)
    /\ dnsServers' = dnsServers \ {d}
    /\ UNCHANGED <<networks, hosts, clients, keys, allowedIps, issued>>

CreateAllowedIpsSet(a) ==
    /\ Fresh(a)
    /\ allowedIps' = allowedIps \cup {a} /\ issued' = issued \cup {a}
    /\ UNCHANGED <<networks, hosts, clients, keys, dnsServers>>

DeleteAllowedIpsSet(a) ==
    /\ a \in allowedIps /\ ~AllowedIpsInUse(a)
    /\ allowedIps' = allowedIps \ {a}
    /\ UNCHANGED <<networks, hosts, clients, keys, dnsServers, issued>>

-----------------------------------------------------------------------------
NetworkNext ==
    \/ \E n \in Network, cidr \in Cidr, t \in NetworkType, h \in Host \cup {None} :
          CreateNetwork(n, cidr, t, h) \/ EditNetwork(n, cidr, t, h)
    \/ \E n \in Network : DeleteNetwork(n)

HostNext ==
    \/ \E h \in Host : CreateHost(h) \/ DeleteHost(h)
    \/ \E h \in Host, n \in Network, ip \in Address, t \in InterfaceType,
          d \in DnsServer \cup {None} :
          \/ AddInterface(h, n, ip, t, d)
          \/ \E n0 \in Network : EditInterface(h, n0, n, ip, t, d)
    \/ \E h \in Host, n \in Network : RemoveInterface(h, n)
    \/ \E h \in Host, n \in Network, k \in Key :
          RotateInterfaceKey(h, n, k) \/ AssignInterfaceKey(h, n, k)
    \/ \E h, p \in Host, n \in Network :
          \/ \E a \in AllowedIpsSet : AddPeerConnection(h, p, n, a)
          \/ RemovePeerConnection(h, p, n)

ClientNext ==
    \/ \E c \in Client, d \in DnsServer \cup {None} :
          \/ \E k \in Key : CreateClient(c, d, k) \/ CreateClientWithKey(c, d, k)
          \/ EditClient(c, d)
    \/ \E c \in Client : DeleteClient(c)
    \/ \E c \in Client, k \in Key : RotateKey(c, k) \/ AssignExistingKey(c, k)
    \/ \E c \in Client, n \in Network :
          \/ \E ip \in Address : AddNetworkMembership(c, n, ip)
          \/ RemoveNetworkMembership(c, n)
    \/ \E c \in Client, x \in Connection : AddConnection(c, x.host_id, x.network_id, x.allowed_ips_set_id)
    \/ \E c \in Client, x \in Connection : RemoveConnection(c, x)

PresetNext ==
    \/ \E k \in Key :
          \/ CreateKey(k) \/ DeleteKey(k)
          \/ \E h \in Host, n \in Network : AssignKeyToInterface(k, h, n)
          \/ \E c \in Client : AssignKeyToClient(k, c)
    \/ \E d \in DnsServer : CreateDnsServer(d) \/ DeleteDnsServer(d)
    \/ \E a \in AllowedIpsSet : CreateAllowedIpsSet(a) \/ DeleteAllowedIpsSet(a)

Next == NetworkNext \/ HostNext \/ ClientNext \/ PresetNext

Spec == Init /\ [][Next]_vars

-----------------------------------------------------------------------------
(* Action properties. *)

\* A step that changes an interface in place changes its key or its other fields,
\* not both: moving or retyping an interface (edit_interface) never costs it the
\* key its peers were given, and repointing a key never moves an interface.
InterfaceKeepsKey ==
    [][\A h \in LiveHosts : hosts'[h] # None =>
        LET old == hosts[h].network_memberships \ hosts'[h].network_memberships
            new == hosts'[h].network_memberships \ hosts[h].network_memberships
        IN  \A m \in old, o \in new :
                \/ o.active_key_id = m.active_key_id
                \/ o = [m EXCEPT !.active_key_id = o.active_key_id]]_vars

\* A key that goes out of use stays stored, for whoever else was given it: no step
\* both repoints an owner and deletes a key (rotate_key leaves the old one), and a
\* key goes only while no interface and no client has it.
UnusedKeysStay ==
    [][\A k \in keys \ keys' :
        /\ hosts' = hosts /\ clients' = clients
        /\ \A h \in LiveHosts : \A m \in hosts[h].network_memberships : m.active_key_id # k
        /\ \A c \in LiveClients : clients[c].active_key_id # k]_vars
=============================================================================
