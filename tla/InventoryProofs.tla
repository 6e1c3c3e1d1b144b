--------------------------- MODULE InventoryProofs ---------------------------
(***************************************************************************)
(* Proofs about Inventory, for any number of hosts, clients, networks,     *)
(* keys, presets and addresses.                                            *)
(***************************************************************************)
EXTENDS Inventory, TLAPS

HostDocs == [Host -> HostDoc \cup {None}]
ClientDocs == [Client -> ClientDoc \cup {None}]

-----------------------------------------------------------------------------
(* What one update_one call does to a collection. *)

\* Setting the interfaces of a host changes that and nothing else.
LEMMA SetInterfacesEffect ==
    ASSUME NEW hs \in HostDocs, NEW h \in Host, NEW ms \in SUBSET Interface
    PROVE  LET new == SetInterfaces(hs, h, ms)
           IN  /\ new \in HostDocs
               /\ \A g \in Host : new[g] # None <=> hs[g] # None
               /\ \A g \in Host \ {h} : new[g] = hs[g]
               /\ hs[h] # None => /\ new[h].network_memberships = ms
                                  /\ new[h].peer_connections = hs[h].peer_connections
  <1>1. CASE hs[h] = None
    BY <1>1 DEF SetInterfaces, UpdateOne, HostDocs
  <1>2. CASE hs[h] # None
    <2> DEFINE doc == [hs[h] EXCEPT !.network_memberships = ms]
    <2>1. hs[h] \in HostDoc
      BY <1>2 DEF HostDocs
    <2>2. /\ doc \in HostDoc
          /\ doc.network_memberships = ms
          /\ doc.peer_connections = hs[h].peer_connections
      BY <2>1 DEF HostDoc
    <2>3. doc # None
      BY <2>2, NoneAssumption
    <2>4. SetInterfaces(hs, h, ms) = [hs EXCEPT ![h] = doc]
      BY <1>2 DEF SetInterfaces, UpdateOne
    <2> QED
      BY <1>2, <2>2, <2>3, <2>4 DEF HostDocs
  <1> QED
    BY <1>1, <1>2

\* So does setting the peer connections of a host.
LEMMA SetPeersEffect ==
    ASSUME NEW hs \in HostDocs, NEW h \in Host, NEW ps \in SUBSET PeerConnection
    PROVE  LET new == SetPeers(hs, h, ps)
           IN  /\ new \in HostDocs
               /\ \A g \in Host : new[g] # None <=> hs[g] # None
               /\ \A g \in Host \ {h} : new[g] = hs[g]
               /\ hs[h] # None => /\ new[h].peer_connections = ps
                                  /\ new[h].network_memberships = hs[h].network_memberships
  <1>1. CASE hs[h] = None
    BY <1>1 DEF SetPeers, UpdateOne, HostDocs
  <1>2. CASE hs[h] # None
    <2> DEFINE doc == [hs[h] EXCEPT !.peer_connections = ps]
    <2>1. hs[h] \in HostDoc
      BY <1>2 DEF HostDocs
    <2>2. /\ doc \in HostDoc
          /\ doc.peer_connections = ps
          /\ doc.network_memberships = hs[h].network_memberships
      BY <2>1 DEF HostDoc
    <2>3. doc # None
      BY <2>2, NoneAssumption
    <2>4. SetPeers(hs, h, ps) = [hs EXCEPT ![h] = doc]
      BY <1>2 DEF SetPeers, UpdateOne
    <2> QED
      BY <1>2, <2>2, <2>3, <2>4 DEF HostDocs
  <1> QED
    BY <1>1, <1>2

\* The same for the four fields of a client that handlers set.
LEMMA ClientEffect ==
    ASSUME NEW cs \in ClientDocs, NEW c \in Client, NEW doc \in ClientDoc
    PROVE  LET new == UpdateOne(cs, c, doc)
           IN  /\ new \in ClientDocs
               /\ \A b \in Client : new[b] # None <=> cs[b] # None
               /\ \A b \in Client \ {c} : new[b] = cs[b]
               /\ cs[c] # None => new[c] = doc
  BY NoneAssumption DEF UpdateOne, ClientDocs

-----------------------------------------------------------------------------
(* What the handlers build. *)

\* The documents and entries that handlers build have their shapes.
LEMMA NewDocs ==
    /\ \A cidr \in Cidr, t \in NetworkType, h \in Host \cup {None} :
          NewNetwork(cidr, t, h) \in NetworkDoc
    /\ NewHost \in HostDoc
    /\ \A d \in DnsServer \cup {None}, k \in Key \cup {None} :
          [NewClient(d) EXCEPT !.active_key_id = k] \in ClientDoc
    /\ \A n \in Network, ip \in Address, t \in InterfaceType, d \in DnsServer \cup {None} :
          NewInterface(n, ip, t, d) \in Interface
    /\ \A p \in Host, n \in Network, a \in AllowedIpsSet :
          NewPeer(p, n, a) \in PeerConnection /\ NewConnection(p, n, a) \in Connection
  BY DEF NewNetwork, StoredManager, NetworkDoc, NewHost, HostDoc, NewClient, ClientDoc,
         NewInterface, Interface, NewPeer, PeerConnection, NewConnection, Connection

\* The writes to a host's arrays, each as SetInterfaces or SetPeers of a well-typed set.
LEMMA HostWrites ==
    ASSUME NEW hs \in HostDocs, NEW h \in Host, hs[h] # None
    PROVE  /\ hs[h].network_memberships \in SUBSET Interface
           /\ hs[h].peer_connections \in SUBSET PeerConnection
           /\ \A n \in Network, new \in Interface :
                 {IF m.network_id = n THEN [new EXCEPT !.active_key_id = m.active_key_id] ELSE m :
                     m \in hs[h].network_memberships} \in SUBSET Interface
           /\ \A n \in Network, k \in Key :
                 {IF m.network_id = n THEN [m EXCEPT !.active_key_id = k] ELSE m :
                     m \in hs[h].network_memberships} \in SUBSET Interface
  <1>1. hs[h] \in HostDoc
    BY DEF HostDocs
  <1>2. /\ hs[h].network_memberships \in SUBSET Interface
        /\ hs[h].peer_connections \in SUBSET PeerConnection
    BY <1>1 DEF HostDoc
  <1>3. \A m, new \in Interface : [new EXCEPT !.active_key_id = m.active_key_id] \in Interface
    BY DEF Interface
  <1>4. \A m \in Interface, k \in Key : [m EXCEPT !.active_key_id = k] \in Interface
    BY DEF Interface
  <1> QED
    BY <1>2, <1>3, <1>4

\* The documents of live hosts and clients have their shape.
LEMMA LiveDocs ==
    ASSUME TypeOK
    PROVE  /\ hosts \in HostDocs /\ clients \in ClientDocs
           /\ \A h \in LiveHosts : /\ h \in Host /\ hosts[h] # None /\ hosts[h] \in HostDoc
                                   /\ hosts[h].network_memberships \in SUBSET Interface
                                   /\ hosts[h].peer_connections \in SUBSET PeerConnection
           /\ \A c \in LiveClients : /\ c \in Client /\ clients[c] # None /\ clients[c] \in ClientDoc
                                     /\ clients[c].network_memberships \in SUBSET ClientMembership
                                     /\ clients[c].connections \in SUBSET Connection
  BY DEF TypeOK, LiveHosts, LiveClients, HostDoc, ClientDoc, HostDocs, ClientDocs

-----------------------------------------------------------------------------
(* What each handler that writes hosts does to them. *)

\* Only the interfaces of h changed, to ms.
OnlyInterfaces(h, ms) ==
    /\ hosts' \in HostDocs
    /\ LiveHosts' = LiveHosts
    /\ \A g \in LiveHosts \ {h} : hosts'[g] = hosts[g]
    /\ hosts'[h].network_memberships = ms
    /\ hosts'[h].peer_connections = hosts[h].peer_connections

LEMMA InterfacesStep ==
    ASSUME TypeOK, NEW h \in LiveHosts, NEW ms \in SUBSET Interface,
           hosts' = SetInterfaces(hosts, h, ms)
    PROVE  OnlyInterfaces(h, ms)
  BY LiveDocs, SetInterfacesEffect DEF LiveHosts, OnlyInterfaces

LEMMA AddInterfaceEffect ==
    ASSUME TypeOK, NEW h \in Host, NEW n \in Network, NEW ip \in Address,
           NEW t \in InterfaceType, NEW d \in DnsServer \cup {None}, AddInterface(h, n, ip, t, d)
    PROVE  /\ h \in LiveHosts
           /\ OnlyInterfaces(h, hosts[h].network_memberships \cup {NewInterface(n, ip, t, d)})
  <1>1. h \in LiveHosts
    BY DEF AddInterface, CanAddInterface
  <1>2. hosts[h].network_memberships \cup {NewInterface(n, ip, t, d)} \in SUBSET Interface
    BY <1>1, LiveDocs, NewDocs
  <1> QED
    BY <1>1, <1>2, InterfacesStep DEF AddInterface, PushInterface

Edited(h, n0, new) ==
    {IF m.network_id = n0 THEN [new EXCEPT !.active_key_id = m.active_key_id] ELSE m :
        m \in hosts[h].network_memberships}

LEMMA EditInterfaceEffect ==
    ASSUME TypeOK, NEW h \in Host, NEW n0 \in Network, NEW n \in Network, NEW ip \in Address,
           NEW t \in InterfaceType, NEW d \in DnsServer \cup {None},
           EditInterface(h, n0, n, ip, t, d)
    PROVE  /\ h \in LiveHosts
           /\ OnlyInterfaces(h, Edited(h, n0, NewInterface(n, ip, t, d)))
  <1>1. h \in LiveHosts
    BY DEF EditInterface, CanEditInterface
  <1>2. NewInterface(n, ip, t, d) \in Interface
    BY NewDocs
  <1>3. Edited(h, n0, NewInterface(n, ip, t, d)) \in SUBSET Interface
    BY <1>1, <1>2, HostWrites, LiveDocs DEF Edited
  <1> QED
    BY <1>1, <1>3, InterfacesStep DEF EditInterface, SetInterface, Edited

LEMMA RemoveInterfaceEffect ==
    ASSUME TypeOK, NEW h \in Host, NEW n \in Network, RemoveInterface(h, n)
    PROVE  /\ h \in LiveHosts
           /\ OnlyInterfaces(h, {m \in hosts[h].network_memberships : m.network_id # n})
  <1>1. h \in LiveHosts
    BY DEF RemoveInterface, CanRemoveInterface
  <1>2. {m \in hosts[h].network_memberships : m.network_id # n} \in SUBSET Interface
    BY <1>1, LiveDocs
  <1> QED
    BY <1>1, <1>2, InterfacesStep DEF RemoveInterface, PullInterface

Rekeyed(h, n, k) ==
    {IF m.network_id = n THEN [m EXCEPT !.active_key_id = k] ELSE m :
        m \in hosts[h].network_memberships}

InterfaceKeyStep(h, n, k) ==
    RotateInterfaceKey(h, n, k) \/ AssignInterfaceKey(h, n, k) \/ AssignKeyToInterface(k, h, n)

LEMMA InterfaceKeyEffect ==
    ASSUME TypeOK, NEW h \in Host, NEW n \in Network, NEW k \in Key, InterfaceKeyStep(h, n, k)
    PROVE  h \in LiveHosts /\ OnlyInterfaces(h, Rekeyed(h, n, k)) /\ k \in keys'
  <1>1. h \in LiveHosts /\ hosts' = SetInterfaceKey(hosts, h, n, k) /\ k \in keys'
    BY DEF InterfaceKeyStep, RotateInterfaceKey, AssignInterfaceKey, AssignKeyToInterface,
           KeyableInterface
  <1>2. Rekeyed(h, n, k) \in SUBSET Interface
    BY <1>1, HostWrites, LiveDocs DEF Rekeyed
  <1>3. hosts' = SetInterfaces(hosts, h, Rekeyed(h, n, k))
    BY <1>1 DEF SetInterfaceKey, Rekeyed
  <1> QED
    BY <1>1, <1>2, <1>3, InterfacesStep

\* Only peer connections changed: those of h to ps, those of p to qs.
OnlyPeers(h, p, ps, qs) ==
    /\ hosts' \in HostDocs
    /\ LiveHosts' = LiveHosts
    /\ \A g \in LiveHosts \ {h, p} : hosts'[g] = hosts[g]
    /\ \A g \in LiveHosts : hosts'[g].network_memberships = hosts[g].network_memberships
    /\ h \in LiveHosts => hosts'[h].peer_connections = ps
    /\ p \in LiveHosts => hosts'[p].peer_connections = qs

LEMMA AddPeerConnectionEffect ==
    ASSUME TypeOK, NEW h \in Host, NEW p \in Host, NEW n \in Network, NEW a \in AllowedIpsSet,
           AddPeerConnection(h, p, n, a)
    PROVE  /\ h \in LiveHosts /\ p \in LiveHosts \ {h}
           /\ OnlyPeers(h, p, hosts[h].peer_connections \cup {NewPeer(p, n, a)},
                              hosts[p].peer_connections \cup {NewPeer(h, n, a)})
  <1> DEFINE ps == hosts[h].peer_connections \cup {NewPeer(p, n, a)}
             qs == hosts[p].peer_connections \cup {NewPeer(h, n, a)}
             hs == SetPeers(hosts, h, ps)
  <1>1. h \in LiveHosts /\ p \in LiveHosts \ {h}
    BY DEF AddPeerConnection, CanAddPeerConnection
  <1>2. ps \in SUBSET PeerConnection /\ qs \in SUBSET PeerConnection
    BY <1>1, LiveDocs, NewDocs
  <1>3. /\ hs \in HostDocs
        /\ \A g \in Host : hs[g] # None <=> hosts[g] # None
        /\ \A g \in Host \ {h} : hs[g] = hosts[g]
        /\ hs[h].peer_connections = ps
        /\ hs[h].network_memberships = hosts[h].network_memberships
    BY <1>1, <1>2, LiveDocs, SetPeersEffect
  <1>4. hosts' = SetPeers(hs, p, qs)
    BY <1>1, <1>3 DEF AddPeerConnection, PushPeer, LiveHosts
  <1> HIDE DEF hs, ps, qs
  <1>5. /\ hosts' \in HostDocs
        /\ \A g \in Host : hosts'[g] # None <=> hs[g] # None
        /\ \A g \in Host \ {p} : hosts'[g] = hs[g]
        /\ hosts'[p].peer_connections = qs
        /\ hosts'[p].network_memberships = hs[p].network_memberships
    <2>1. p \in Host /\ hs[p] # None
      BY <1>1, <1>3, LiveDocs
    <2> QED
      BY <1>2, <1>3, <1>4, <2>1, SetPeersEffect
  <1>6. LiveHosts' = LiveHosts
    BY <1>3, <1>5 DEF LiveHosts
  <1> QED
    BY <1>1, <1>3, <1>5, <1>6 DEF OnlyPeers, LiveHosts, ps, qs

\* x names the peer p on n.
Names(x, p, n) == x.peer_host_id = p /\ x.network_id = n

\* Pulling an entry, whether or not the host is there.
LEMMA PullPeerEffect ==
    ASSUME NEW hs \in HostDocs, NEW h \in Host, NEW p \in Host, NEW n \in Network
    PROVE  LET new == PullPeer(hs, h, p, n)
           IN  /\ new \in HostDocs
               /\ \A g \in Host : new[g] # None <=> hs[g] # None
               /\ \A g \in Host \ {h} : new[g] = hs[g]
               /\ hs[h] # None =>
                     /\ new[h].peer_connections = {x \in hs[h].peer_connections : ~Names(x, p, n)}
                     /\ new[h].network_memberships = hs[h].network_memberships
  <1>1. CASE hs[h] = None
    BY <1>1 DEF PullPeer, SetPeers, UpdateOne
  <1>2. CASE hs[h] # None
    <2>1. {x \in hs[h].peer_connections : ~Names(x, p, n)} \in SUBSET PeerConnection
      BY <1>2, HostWrites
    <2>2. PullPeer(hs, h, p, n) = SetPeers(hs, h, {x \in hs[h].peer_connections : ~Names(x, p, n)})
      BY DEF PullPeer, Names
    <2> QED
      BY <2>1, <2>2, SetPeersEffect
  <1> QED
    BY <1>1, <1>2

LEMMA RemovePeerConnectionEffect ==
    ASSUME TypeOK, NEW h \in Host, NEW p \in Host, NEW n \in Network, RemovePeerConnection(h, p, n)
    PROVE  OnlyPeers(h, p, {x \in hosts[h].peer_connections : ~Names(x, p, n)},
                           {x \in hosts[p].peer_connections : ~Names(x, h, n)})
  <1> DEFINE hs == PullPeer(hosts, h, p, n)
  <1>1. /\ hs \in HostDocs
        /\ \A g \in Host : hs[g] # None <=> hosts[g] # None
        /\ \A g \in Host \ {h} : hs[g] = hosts[g]
        /\ hosts[h] # None =>
              /\ hs[h].peer_connections = {x \in hosts[h].peer_connections : ~Names(x, p, n)}
              /\ hs[h].network_memberships = hosts[h].network_memberships
    BY LiveDocs, PullPeerEffect
  <1>2. hosts' = PullPeer(hs, p, h, n)
    BY DEF RemovePeerConnection
  <1>3. /\ hosts' \in HostDocs
        /\ \A g \in Host : hosts'[g] # None <=> hs[g] # None
        /\ \A g \in Host \ {p} : hosts'[g] = hs[g]
        /\ hs[p] # None =>
              /\ hosts'[p].peer_connections = {x \in hs[p].peer_connections : ~Names(x, h, n)}
              /\ hosts'[p].network_memberships = hs[p].network_memberships
    BY <1>1, <1>2, PullPeerEffect
  <1>4. LiveHosts' = LiveHosts
    BY <1>1, <1>3 DEF LiveHosts
  <1> QED
    BY <1>1, <1>3, <1>4 DEF OnlyPeers, LiveHosts

LEMMA CreateHostEffect ==
    ASSUME TypeOK, NEW h \in Host, CreateHost(h)
    PROVE  /\ h \notin LiveHosts
           /\ hosts' \in HostDocs
           /\ LiveHosts' = LiveHosts \cup {h}
           /\ \A g \in LiveHosts : hosts'[g] = hosts[g]
           /\ hosts'[h].network_memberships = {} /\ hosts'[h].peer_connections = {}
  <1>1. NewHost \in HostDoc /\ NewHost # None
    BY NewDocs, NoneAssumption
  <1>2. h \notin LiveHosts
    BY DEF CreateHost, Fresh, TypeOK
  <1>3. hosts \in HostDocs /\ hosts' = [hosts EXCEPT ![h] = NewHost]
    BY LiveDocs DEF CreateHost
  <1> QED
    BY <1>1, <1>2, <1>3 DEF HostDocs, LiveHosts, NewHost

LEMMA DeleteHostEffect ==
    ASSUME TypeOK, NEW h \in Host, DeleteHost(h)
    PROVE  /\ hosts' \in HostDocs
           /\ LiveHosts' = LiveHosts \ {h}
           /\ \A g \in LiveHosts' : hosts'[g] = hosts[g]
  <1>1. hosts \in HostDocs /\ hosts' = [hosts EXCEPT ![h] = None]
    BY LiveDocs DEF DeleteHost
  <1> QED
    BY <1>1 DEF HostDocs, LiveHosts

-----------------------------------------------------------------------------
(* What each handler that writes clients does to them. *)

\* Only the document of c changed, to doc.
OnlyClient(c, doc) ==
    /\ clients' \in ClientDocs
    /\ LiveClients' = LiveClients
    /\ \A b \in LiveClients \ {c} : clients'[b] = clients[b]
    /\ clients'[c] = doc

LEMMA ClientStep ==
    ASSUME TypeOK, NEW c \in LiveClients, NEW doc \in ClientDoc,
           clients' = UpdateOne(clients, c, doc)
    PROVE  OnlyClient(c, doc)
  <1>1. c \in Client /\ clients \in ClientDocs /\ clients[c] # None
    BY LiveDocs
  <1>2. /\ clients' \in ClientDocs
        /\ \A b \in Client : clients'[b] # None <=> clients[b] # None
        /\ \A b \in Client \ {c} : clients'[b] = clients[b]
        /\ clients'[c] = doc
    BY <1>1, ClientEffect
  <1> QED
    BY <1>2 DEF LiveClients, OnlyClient

ClientKeyStep(c, k) == RotateKey(c, k) \/ AssignExistingKey(c, k) \/ AssignKeyToClient(k, c)

LEMMA ClientKeyEffect ==
    ASSUME TypeOK, NEW c \in Client, NEW k \in Key, ClientKeyStep(c, k)
    PROVE  /\ c \in LiveClients /\ k \in keys'
           /\ OnlyClient(c, [clients[c] EXCEPT !.active_key_id = k])
  <1>1. c \in LiveClients /\ k \in keys' /\ clients' = SetClientKey(clients, c, k)
    BY DEF ClientKeyStep, RotateKey, AssignExistingKey, AssignKeyToClient
  <1>2. clients[c] \in ClientDoc
    BY <1>1, LiveDocs
  <1>3. [clients[c] EXCEPT !.active_key_id = k] \in ClientDoc
    BY <1>2 DEF ClientDoc
  <1> QED
    BY <1>1, <1>3, ClientStep DEF SetClientKey

LEMMA EditClientEffect ==
    ASSUME TypeOK, NEW c \in Client, NEW d \in DnsServer \cup {None}, EditClient(c, d)
    PROVE  /\ c \in LiveClients /\ d \in DnsChoice
           /\ OnlyClient(c, [clients[c] EXCEPT !.dns_server_id = d])
  <1>1. c \in LiveClients /\ d \in DnsChoice /\ clients' = SetClientDns(clients, c, d)
    BY DEF EditClient
  <1>2. clients[c] \in ClientDoc
    BY <1>1, LiveDocs
  <1>3. [clients[c] EXCEPT !.dns_server_id = d] \in ClientDoc
    BY <1>2 DEF ClientDoc
  <1> QED
    BY <1>1, <1>3, ClientStep DEF SetClientDns

LEMMA MembershipsStep ==
    ASSUME TypeOK, NEW c \in LiveClients, NEW ms \in SUBSET ClientMembership,
           clients' = SetMemberships(clients, c, ms)
    PROVE  OnlyClient(c, [clients[c] EXCEPT !.network_memberships = ms])
  <1>1. clients[c] \in ClientDoc
    BY LiveDocs
  <1>2. [clients[c] EXCEPT !.network_memberships = ms] \in ClientDoc
    BY <1>1 DEF ClientDoc
  <1> QED
    BY <1>2, ClientStep DEF SetMemberships

LEMMA ConnectionsStep ==
    ASSUME TypeOK, NEW c \in LiveClients, NEW xs \in SUBSET Connection,
           clients' = SetConnections(clients, c, xs)
    PROVE  OnlyClient(c, [clients[c] EXCEPT !.connections = xs])
  <1>1. clients[c] \in ClientDoc
    BY LiveDocs
  <1>2. [clients[c] EXCEPT !.connections = xs] \in ClientDoc
    BY <1>1 DEF ClientDoc
  <1> QED
    BY <1>2, ClientStep DEF SetConnections

LEMMA AddNetworkMembershipEffect ==
    ASSUME TypeOK, NEW c \in Client, NEW n \in Network, NEW ip \in Address,
           AddNetworkMembership(c, n, ip)
    PROVE  /\ c \in LiveClients
           /\ OnlyClient(c, [clients[c] EXCEPT !.network_memberships =
                                clients[c].network_memberships \cup {[network_id |-> n, ip |-> ip]}])
  <1>1. c \in LiveClients
    BY DEF AddNetworkMembership, CanAddNetworkMembership
  <1>2. clients[c].network_memberships \cup {[network_id |-> n, ip |-> ip]} \in SUBSET ClientMembership
    BY <1>1, LiveDocs DEF ClientMembership
  <1> QED
    BY <1>1, <1>2, MembershipsStep DEF AddNetworkMembership, PushMembership

LEMMA RemoveNetworkMembershipEffect ==
    ASSUME TypeOK, NEW c \in Client, NEW n \in Network, RemoveNetworkMembership(c, n)
    PROVE  /\ c \in LiveClients
           /\ OnlyClient(c, [clients[c] EXCEPT !.network_memberships =
                                {m \in clients[c].network_memberships : m.network_id # n}])
  <1>1. c \in LiveClients
    BY DEF RemoveNetworkMembership, CanRemoveNetworkMembership
  <1>2. {m \in clients[c].network_memberships : m.network_id # n} \in SUBSET ClientMembership
    BY <1>1, LiveDocs
  <1> QED
    BY <1>1, <1>2, MembershipsStep DEF RemoveNetworkMembership, PullMembership

LEMMA AddConnectionEffect ==
    ASSUME TypeOK, NEW c \in Client, NEW h \in Host, NEW n \in Network, NEW a \in AllowedIpsSet,
           AddConnection(c, h, n, a)
    PROVE  /\ c \in LiveClients
           /\ OnlyClient(c, [clients[c] EXCEPT !.connections =
                                clients[c].connections \cup {NewConnection(h, n, a)}])
  <1>1. c \in LiveClients
    BY DEF AddConnection, CanAddConnection
  <1>2. clients[c].connections \cup {NewConnection(h, n, a)} \in SUBSET Connection
    BY <1>1, LiveDocs, NewDocs
  <1> QED
    BY <1>1, <1>2, ConnectionsStep DEF AddConnection, PushConnection

LEMMA RemoveConnectionEffect ==
    ASSUME TypeOK, NEW c \in Client, NEW x \in Connection, RemoveConnection(c, x)
    PROVE  /\ c \in LiveClients
           /\ OnlyClient(c, [clients[c] EXCEPT !.connections = clients[c].connections \ {x}])
  <1>1. c \in LiveClients
    BY DEF RemoveConnection
  <1>2. clients[c].connections \ {x} \in SUBSET Connection
    BY <1>1, LiveDocs
  <1> QED
    BY <1>1, <1>2, ConnectionsStep DEF RemoveConnection

NewClientStep(c, d, k) == CreateClient(c, d, k) \/ CreateClientWithKey(c, d, k)

LEMMA CreateClientEffect ==
    ASSUME TypeOK, NEW c \in Client, NEW d \in DnsServer \cup {None}, NEW k \in Key,
           NewClientStep(c, d, k)
    PROVE  /\ c \notin LiveClients /\ k \in keys' /\ d \in DnsChoice
           /\ clients' \in ClientDocs
           /\ LiveClients' = LiveClients \cup {c}
           /\ \A b \in LiveClients : clients'[b] = clients[b]
           /\ clients'[c] = [NewClient(d) EXCEPT !.active_key_id = k]
  <1> DEFINE doc == [NewClient(d) EXCEPT !.active_key_id = k]
  <1>1. doc \in ClientDoc /\ doc # None
    BY NewDocs, NoneAssumption
  <1>2. c \notin LiveClients /\ k \in keys' /\ d \in DnsChoice
    BY DEF NewClientStep, CreateClient, CreateClientWithKey, Fresh, TypeOK
  <1>3. clients \in ClientDocs /\ clients' = [clients EXCEPT ![c] = doc]
    BY LiveDocs DEF NewClientStep, CreateClient, CreateClientWithKey
  <1> HIDE DEF doc
  <1>4. clients' \in ClientDocs /\ clients'[c] = doc
    BY <1>1, <1>3 DEF ClientDocs
  <1>5. LiveClients' = LiveClients \cup {c}
    BY <1>1, <1>3 DEF ClientDocs, LiveClients
  <1>6. \A b \in LiveClients : clients'[b] = clients[b]
    BY <1>2, <1>3 DEF ClientDocs, LiveClients
  <1> QED
    BY <1>2, <1>4, <1>5, <1>6 DEF doc

LEMMA DeleteClientEffect ==
    ASSUME TypeOK, NEW c \in Client, DeleteClient(c)
    PROVE  /\ clients' \in ClientDocs
           /\ LiveClients' = LiveClients \ {c}
           /\ \A b \in LiveClients' : clients'[b] = clients[b]
  <1>1. clients \in ClientDocs /\ clients' = [clients EXCEPT ![c] = None]
    BY LiveDocs DEF DeleteClient
  <1> QED
    BY <1>1 DEF ClientDocs, LiveClients

-----------------------------------------------------------------------------
(* Networks. *)

\* Besides networks and issued, the network handlers change nothing.
LEMMA NetworkNextEffect ==
    ASSUME NetworkNext
    PROVE  UNCHANGED <<hosts, clients, keys, dnsServers, allowedIps>>
  BY DEF NetworkNext, CreateNetwork, EditNetwork, DeleteNetwork

\* A network goes only while nothing belongs to it.
LEMMA NetworkNextLive ==
    ASSUME TypeOK, NetworkNext
    PROVE  /\ networks' \in [Network -> NetworkDoc \cup {None}]
           /\ issued \subseteq issued' /\ issued' \subseteq Ids /\ LiveNetworks' \subseteq issued'
           /\ \A n \in LiveNetworks \ LiveNetworks' : ~NetworkUsed(n)
  <1>1. ASSUME NEW n \in Network, NEW cidr \in Cidr, NEW t \in NetworkType,
               NEW h \in Host \cup {None},
               CreateNetwork(n, cidr, t, h) \/ EditNetwork(n, cidr, t, h)
        PROVE  /\ networks' \in [Network -> NetworkDoc \cup {None}]
               /\ issued \subseteq issued' /\ issued' \subseteq Ids /\ LiveNetworks' \subseteq issued'
               /\ LiveNetworks \subseteq LiveNetworks'
    <2>1. NewNetwork(cidr, t, h) \in NetworkDoc /\ NewNetwork(cidr, t, h) # None
      BY NewDocs, NoneAssumption
    <2>2. /\ networks \in [Network -> NetworkDoc \cup {None}]
          /\ networks' = [networks EXCEPT ![n] = NewNetwork(cidr, t, h)]
      BY <1>1 DEF TypeOK, CreateNetwork, EditNetwork
    <2>3. /\ networks' \in [Network -> NetworkDoc \cup {None}]
          /\ LiveNetworks' = LiveNetworks \cup {n}
      BY <2>1, <2>2 DEF LiveNetworks
    <2>4. issued \subseteq issued' /\ issued' \subseteq Ids /\ n \in issued'
      BY <1>1 DEF TypeOK, CreateNetwork, EditNetwork, Ids
    <2> QED
      BY <2>3, <2>4 DEF TypeOK
  <1>2. ASSUME NEW n \in Network, DeleteNetwork(n)
        PROVE  /\ networks' \in [Network -> NetworkDoc \cup {None}]
               /\ issued' = issued /\ ~NetworkUsed(n)
               /\ LiveNetworks' = LiveNetworks \ {n}
    BY <1>2 DEF TypeOK, DeleteNetwork, LiveNetworks
  <1>3. CASE \E n \in Network, cidr \in Cidr, t \in NetworkType, h \in Host \cup {None} :
               CreateNetwork(n, cidr, t, h) \/ EditNetwork(n, cidr, t, h)
    BY <1>1, <1>3
  <1>4. CASE \E n \in Network : DeleteNetwork(n)
    BY <1>2, <1>4 DEF TypeOK
  <1> QED
    BY <1>3, <1>4 DEF NetworkNext

-----------------------------------------------------------------------------
(* Type correctness. *)

LEMMA InitTypeOK == Init => TypeOK
  BY DEF Init, TypeOK, LiveNetworks, LiveHosts, LiveClients

\* A step keeps TypeOK if it keeps the documents well typed and hands out an
\* ObjectId for each that it adds.
LEMMA TypeKept ==
    ASSUME TypeOK, UNCHANGED networks, hosts' \in HostDocs, clients' \in ClientDocs,
           keys' \subseteq Key, dnsServers' \subseteq DnsServer, allowedIps' \subseteq AllowedIpsSet,
           issued' \subseteq Ids, issued \subseteq issued',
           LiveHosts' \subseteq LiveHosts \cup issued',
           LiveClients' \subseteq LiveClients \cup issued',
           keys' \subseteq keys \cup issued', dnsServers' \subseteq dnsServers \cup issued',
           allowedIps' \subseteq allowedIps \cup issued'
    PROVE  TypeOK'
  BY DEF TypeOK, HostDocs, ClientDocs, LiveNetworks

LEMMA HostNextTypeOK ==
    ASSUME TypeOK, HostNext
    PROVE  TypeOK'
  <1>0. hosts \in HostDocs /\ clients \in ClientDocs
    BY LiveDocs
  <1>1. ASSUME NEW h \in Host, CreateHost(h)
        PROVE  TypeOK'
    <2>1. /\ UNCHANGED <<networks, clients, keys, dnsServers, allowedIps>>
          /\ issued' = issued \cup {h}
      BY <1>1 DEF CreateHost
    <2> QED
      BY <1>0, <1>1, <2>1, CreateHostEffect, TypeKept DEF TypeOK, Ids, LiveClients
  <1>2. ASSUME NEW h \in Host, DeleteHost(h)
        PROVE  TypeOK'
    <2>1. UNCHANGED <<networks, clients, keys, dnsServers, allowedIps, issued>>
      BY <1>2 DEF DeleteHost
    <2> QED
      BY <1>0, <1>2, <2>1, DeleteHostEffect, TypeKept DEF TypeOK, LiveClients
  <1>3. ASSUME hosts' \in HostDocs, LiveHosts' = LiveHosts,
               UNCHANGED <<networks, clients, keys, dnsServers, allowedIps, issued>>
        PROVE  TypeOK'
    BY <1>0, <1>3, TypeKept DEF TypeOK, LiveClients
  <1>4. ASSUME NEW h \in Host, NEW n \in Network, NEW ip \in Address, NEW t \in InterfaceType,
               NEW d \in DnsServer \cup {None}, AddInterface(h, n, ip, t, d)
        PROVE  TypeOK'
    BY <1>3, <1>4, AddInterfaceEffect DEF OnlyInterfaces, AddInterface
  <1>5. ASSUME NEW h \in Host, NEW n0 \in Network, NEW n \in Network, NEW ip \in Address,
               NEW t \in InterfaceType, NEW d \in DnsServer \cup {None},
               EditInterface(h, n0, n, ip, t, d)
        PROVE  TypeOK'
    BY <1>3, <1>5, EditInterfaceEffect DEF OnlyInterfaces, EditInterface
  <1>6. ASSUME NEW h \in Host, NEW n \in Network, RemoveInterface(h, n)
        PROVE  TypeOK'
    BY <1>3, <1>6, RemoveInterfaceEffect DEF OnlyInterfaces, RemoveInterface
  <1>7. ASSUME NEW h \in Host, NEW n \in Network, NEW k \in Key, RotateInterfaceKey(h, n, k)
        PROVE  TypeOK'
    <2>1. /\ UNCHANGED <<networks, clients, dnsServers, allowedIps>>
          /\ keys' = keys \cup {k} /\ issued' = issued \cup {k}
      BY <1>7 DEF RotateInterfaceKey
    <2>2. hosts' \in HostDocs /\ LiveHosts' = LiveHosts
      BY <1>7, InterfaceKeyEffect DEF InterfaceKeyStep, OnlyInterfaces
    <2> QED
      BY <1>0, <2>1, <2>2, TypeKept DEF TypeOK, Ids, LiveClients
  <1>8. ASSUME NEW h \in Host, NEW n \in Network, NEW k \in Key, AssignInterfaceKey(h, n, k)
        PROVE  TypeOK'
    <2>1. hosts' \in HostDocs /\ LiveHosts' = LiveHosts
      BY <1>8, InterfaceKeyEffect DEF InterfaceKeyStep, OnlyInterfaces
    <2> QED
      BY <1>3, <1>8, <2>1 DEF AssignInterfaceKey
  <1>9. ASSUME NEW h \in Host, NEW p \in Host, NEW n \in Network, NEW a \in AllowedIpsSet,
               AddPeerConnection(h, p, n, a)
        PROVE  TypeOK'
    BY <1>3, <1>9, AddPeerConnectionEffect DEF OnlyPeers, AddPeerConnection
  <1>10. ASSUME NEW h \in Host, NEW p \in Host, NEW n \in Network, RemovePeerConnection(h, p, n)
         PROVE  TypeOK'
    BY <1>3, <1>10, RemovePeerConnectionEffect DEF OnlyPeers, RemovePeerConnection
  <1> QED
    BY <1>1, <1>2, <1>4, <1>5, <1>6, <1>7, <1>8, <1>9, <1>10 DEF HostNext

LEMMA ClientNextTypeOK ==
    ASSUME TypeOK, ClientNext
    PROVE  TypeOK'
  <1>0. hosts \in HostDocs /\ clients \in ClientDocs
    BY LiveDocs
  <1>1. ASSUME NEW c \in Client, NEW d \in DnsServer \cup {None}, NEW k \in Key,
               NewClientStep(c, d, k)
        PROVE  TypeOK'
    <2>1. /\ UNCHANGED <<networks, hosts, dnsServers, allowedIps>>
          /\ keys' \subseteq Key /\ keys' \subseteq keys \cup issued'
          /\ issued' \subseteq Ids /\ issued \subseteq issued' /\ c \in issued'
      BY <1>1 DEF NewClientStep, CreateClient, CreateClientWithKey, TypeOK, Ids
    <2>2. clients' \in ClientDocs /\ LiveClients' = LiveClients \cup {c}
      BY <1>1, CreateClientEffect
    <2> QED
      BY <1>0, <2>1, <2>2, TypeKept DEF TypeOK, LiveHosts
  <1>2. ASSUME NEW c \in Client, DeleteClient(c)
        PROVE  TypeOK'
    <2>1. UNCHANGED <<networks, hosts, keys, dnsServers, allowedIps, issued>>
      BY <1>2 DEF DeleteClient
    <2> QED
      BY <1>0, <1>2, <2>1, DeleteClientEffect, TypeKept DEF TypeOK, LiveHosts
  <1>3. ASSUME NEW c, NEW doc, OnlyClient(c, doc),
               UNCHANGED <<networks, hosts, keys, dnsServers, allowedIps, issued>>
        PROVE  TypeOK'
    BY <1>0, <1>3, TypeKept DEF TypeOK, LiveHosts, OnlyClient
  <1>4. ASSUME NEW c \in Client, NEW d \in DnsServer \cup {None}, EditClient(c, d)
        PROVE  TypeOK'
    BY <1>3, <1>4, EditClientEffect DEF EditClient
  <1>5. ASSUME NEW c \in Client, NEW k \in Key, RotateKey(c, k)
        PROVE  TypeOK'
    <2>1. /\ UNCHANGED <<networks, hosts, dnsServers, allowedIps>>
          /\ keys' = keys \cup {k} /\ issued' = issued \cup {k}
      BY <1>5 DEF RotateKey
    <2>2. clients' \in ClientDocs /\ LiveClients' = LiveClients
      BY <1>5, ClientKeyEffect DEF ClientKeyStep, OnlyClient
    <2> QED
      BY <1>0, <2>1, <2>2, TypeKept DEF TypeOK, Ids, LiveHosts
  <1>6. ASSUME NEW c \in Client, NEW k \in Key, AssignExistingKey(c, k)
        PROVE  TypeOK'
    BY <1>3, <1>6, ClientKeyEffect DEF ClientKeyStep, AssignExistingKey
  <1>7. ASSUME NEW c \in Client, NEW n \in Network, NEW ip \in Address,
               AddNetworkMembership(c, n, ip)
        PROVE  TypeOK'
    BY <1>3, <1>7, AddNetworkMembershipEffect DEF AddNetworkMembership
  <1>8. ASSUME NEW c \in Client, NEW n \in Network, RemoveNetworkMembership(c, n)
        PROVE  TypeOK'
    BY <1>3, <1>8, RemoveNetworkMembershipEffect DEF RemoveNetworkMembership
  <1>9. ASSUME NEW c \in Client, NEW x \in Connection,
               AddConnection(c, x.host_id, x.network_id, x.allowed_ips_set_id)
        PROVE  TypeOK'
    <2>1. x.host_id \in Host /\ x.network_id \in Network /\ x.allowed_ips_set_id \in AllowedIpsSet
      BY DEF Connection
    <2> QED
      BY <1>3, <1>9, <2>1, AddConnectionEffect DEF AddConnection
  <1>10. ASSUME NEW c \in Client, NEW x \in Connection, RemoveConnection(c, x)
         PROVE  TypeOK'
    BY <1>3, <1>10, RemoveConnectionEffect DEF RemoveConnection
  <1> QED
    BY <1>1, <1>2, <1>4, <1>5, <1>6, <1>7, <1>8, <1>9, <1>10 DEF ClientNext, NewClientStep

LEMMA PresetNextTypeOK ==
    ASSUME TypeOK, PresetNext
    PROVE  TypeOK'
  <1>0. hosts \in HostDocs /\ clients \in ClientDocs
    BY LiveDocs
  <1>1. CASE UNCHANGED <<hosts, clients>>
    <2>1. /\ UNCHANGED networks
          /\ keys' \subseteq Key /\ dnsServers' \subseteq DnsServer /\ allowedIps' \subseteq AllowedIpsSet
          /\ issued' \subseteq Ids /\ issued \subseteq issued'
          /\ keys' \subseteq keys \cup issued' /\ dnsServers' \subseteq dnsServers \cup issued'
          /\ allowedIps' \subseteq allowedIps \cup issued'
      BY DEF PresetNext, CreateKey, DeleteKey, AssignKeyToInterface, AssignKeyToClient,
             CreateDnsServer, DeleteDnsServer, CreateAllowedIpsSet, DeleteAllowedIpsSet, TypeOK, Ids
    <2> QED
      BY <1>0, <1>1, <2>1, TypeKept DEF LiveHosts, LiveClients
  <1>2. ASSUME NEW k \in Key, NEW h \in Host, NEW n \in Network, AssignKeyToInterface(k, h, n)
        PROVE  TypeOK'
    <2>1. hosts' \in HostDocs /\ LiveHosts' = LiveHosts
      BY <1>2, InterfaceKeyEffect DEF InterfaceKeyStep, OnlyInterfaces
    <2> QED
      BY <1>0, <1>2, <2>1, TypeKept DEF TypeOK, AssignKeyToInterface, LiveClients
  <1>3. ASSUME NEW k \in Key, NEW c \in Client, AssignKeyToClient(k, c)
        PROVE  TypeOK'
    <2>1. clients' \in ClientDocs /\ LiveClients' = LiveClients
      BY <1>3, ClientKeyEffect DEF ClientKeyStep, OnlyClient
    <2> QED
      BY <1>0, <1>3, <2>1, TypeKept DEF TypeOK, AssignKeyToClient, LiveHosts
  <1> QED
    BY <1>1, <1>2, <1>3 DEF PresetNext, CreateKey, DeleteKey, CreateDnsServer, DeleteDnsServer,
       CreateAllowedIpsSet, DeleteAllowedIpsSet

LEMMA NextTypeOK ==
    ASSUME TypeOK, [Next]_vars
    PROVE  TypeOK'
  <1>1. CASE NetworkNext
    BY <1>1, NetworkNextEffect, NetworkNextLive DEF TypeOK, LiveHosts, LiveClients
  <1>2. CASE UNCHANGED vars
    BY <1>2 DEF vars, TypeOK, LiveNetworks, LiveHosts, LiveClients
  <1> QED
    BY <1>1, <1>2, HostNextTypeOK, ClientNextTypeOK, PresetNextTypeOK DEF Next

\* In every state the handlers can build, each document has the shape that the
\* handlers give it and carries an ObjectId that was handed out, once, before.
THEOREM TypeCorrect == Spec => []TypeOK
  BY InitTypeOK, NextTypeOK, PTL DEF Spec
=============================================================================
