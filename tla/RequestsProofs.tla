--------------------------- MODULE RequestsProofs ---------------------------
(***************************************************************************)
(* Proofs about Requests: what stays true of the collections when the      *)
(* writes of a request are sent one by one, other threads write between    *)
(* them and workers are killed half-way.                                   *)
(***************************************************************************)
EXTENDS Requests, InventoryProofs, SequenceTheorems

-----------------------------------------------------------------------------
(* The writes that handlers send, with documents and entries as they build   *)
(* them.                                                                     *)

NetworkWrite ==
    {Insert("networks", n, doc) : n \in Network, doc \in NetworkDoc}
    \cup {Replace("networks", n, doc) : n \in Network, doc \in NetworkDoc}
    \cup {Delete("networks", n) : n \in Network}

InterfaceWrite ==
    {OnHost("push_interface", h, n, m) : h \in Host, n \in Network, m \in Interface}
    \cup {OnHost("set_interface", h, n, m) : h \in Host, n \in Network, m \in Interface}
    \cup {OnHost("set_interface_key", h, n, k) : h \in Host, n \in Network, k \in Key}
    \cup {OnHost("pull_interface", h, n, None) : h \in Host, n \in Network}

HostWrite ==
    {Insert("hosts", h, NewHost) : h \in Host}
    \cup {Delete("hosts", h) : h \in Host}
    \cup {OnHost("push_peer", h, n, x) : h \in Host, n \in Network, x \in PeerConnection}
    \cup {OnHost("pull_peer", h, n, p) : h \in Host, n \in Network, p \in Host}

ClientWrite ==
    {Insert("clients", c, NewClient(d)) : c \in Client, d \in DnsServer \cup {None}}
    \cup {Delete("clients", c) : c \in Client}
    \cup {OnClient("set_key", c, None, k) : c \in Client, k \in Key}
    \cup {OnClient("set_dns", c, None, d) : c \in Client, d \in DnsServer \cup {None}}

LinkWrite ==
    {OnClient("push_membership", c, n, ip) : c \in Client, n \in Network, ip \in Address}
    \cup {OnClient("pull_membership", c, n, None) : c \in Client, n \in Network}
    \cup {OnClient("push_connection", c, n, x) : c \in Client, n \in Network, x \in Connection}
    \cup {OnClient("set_connections", c, None, xs) : c \in Client, xs \in SUBSET Connection}

IdWrite ==
    {InsertId("keys", k) : k \in Key} \cup {DeleteId("keys", k) : k \in Key}
    \cup {InsertId("dnsServers", d) : d \in DnsServer}
    \cup {DeleteId("dnsServers", d) : d \in DnsServer}
    \cup {InsertId("allowedIps", a) : a \in AllowedIpsSet}
    \cup {DeleteId("allowedIps", a) : a \in AllowedIpsSet}

Write == NetworkWrite \cup InterfaceWrite \cup HostWrite \cup ClientWrite \cup LinkWrite \cup IdWrite

\* The write brings in no document under an id that was not handed out.
Known(u, ids) == u.op \in {"insert", "insert_id"} => u.id \in ids

PendingOK ==
    /\ pending \in [Thread -> Seq(Write)]
    /\ \A w \in Thread :
          /\ Len(pending[w]) <= 3
          /\ \A i \in DOMAIN pending[w] : Known(pending[w][i], issued)

-----------------------------------------------------------------------------
(* What a write does to the database. *)

\* The writes of the collections of documents.
LEMMA DocumentWrites ==
    ASSUME NEW coll, NEW c, NEW id, NEW doc
    PROVE  /\ Written(coll, Insert(c, id, doc)) = [coll EXCEPT ![id] = doc]
           /\ Written(coll, Replace(c, id, doc)) = UpdateOne(coll, id, doc)
           /\ Written(coll, Delete(c, id)) = [coll EXCEPT ![id] = None]
  BY DEF Written, Insert, Replace, Delete

\* The writes of the collections of which only the ids are kept.
LEMMA IdWrites ==
    ASSUME NEW coll, NEW c, NEW id
    PROVE  /\ Written(coll, InsertId(c, id)) = coll \cup {id}
           /\ Written(coll, DeleteId(c, id)) = coll \ {id}
  BY DEF Written, InsertId, DeleteId

\* The updates of a host.
LEMMA HostUpdates ==
    ASSUME NEW coll, NEW h, NEW n, NEW v
    PROVE  /\ Written(coll, OnHost("push_interface", h, n, v)) = PushInterface(coll, h, v)
           /\ Written(coll, OnHost("set_interface", h, n, v)) = SetInterface(coll, h, n, v)
           /\ Written(coll, OnHost("set_interface_key", h, n, v)) = SetInterfaceKey(coll, h, n, v)
           /\ Written(coll, OnHost("pull_interface", h, n, v)) = PullInterface(coll, h, n)
           /\ Written(coll, OnHost("push_peer", h, n, v)) = PushPeer(coll, h, v)
           /\ Written(coll, OnHost("pull_peer", h, n, v)) = PullPeer(coll, h, v, n)
  BY DEF Written, OnHost

\* The updates of a client.
LEMMA ClientUpdates ==
    ASSUME NEW coll, NEW c, NEW n, NEW v
    PROVE  /\ Written(coll, OnClient("set_key", c, n, v)) = SetClientKey(coll, c, v)
           /\ Written(coll, OnClient("set_dns", c, n, v)) = SetClientDns(coll, c, v)
           /\ Written(coll, OnClient("push_membership", c, n, v)) = PushMembership(coll, c, n, v)
           /\ Written(coll, OnClient("pull_membership", c, n, v)) = PullMembership(coll, c, n)
           /\ Written(coll, OnClient("push_connection", c, n, v)) = PushConnection(coll, c, v)
           /\ Written(coll, OnClient("set_connections", c, n, v)) = SetConnections(coll, c, v)
  BY DEF Written, OnClient

\* A write is a write of one of the six collections, and of it alone.
LEMMA OneCollectionWritten ==
    ASSUME NEW u,
           networks' = Apply(Db, u).networks, hosts' = Apply(Db, u).hosts,
           clients' = Apply(Db, u).clients, keys' = Apply(Db, u).keys,
           dnsServers' = Apply(Db, u).dnsServers, allowedIps' = Apply(Db, u).allowedIps
    PROVE  /\ networks' = IF u.coll = "networks" THEN Written(networks, u) ELSE networks
           /\ hosts' = IF u.coll = "hosts" THEN Written(hosts, u) ELSE hosts
           /\ clients' = IF u.coll = "clients" THEN Written(clients, u) ELSE clients
           /\ keys' = IF u.coll = "keys" THEN Written(keys, u) ELSE keys
           /\ dnsServers' = IF u.coll = "dnsServers" THEN Written(dnsServers, u) ELSE dnsServers
           /\ allowedIps' = IF u.coll = "allowedIps" THEN Written(allowedIps, u) ELSE allowedIps
  BY DEF Apply, Db

\* Sending takes the first write off the line and applies it.
LEMMA SendEffect ==
    ASSUME PendingOK, NEW w \in Thread, Send(w)
    PROVE  \E u \in Write :
             /\ pending[w] # <<>> /\ u = Head(pending[w]) /\ u = pending[w][1] /\ Known(u, issued)
             /\ networks' = IF u.coll = "networks" THEN Written(networks, u) ELSE networks
             /\ hosts' = IF u.coll = "hosts" THEN Written(hosts, u) ELSE hosts
             /\ clients' = IF u.coll = "clients" THEN Written(clients, u) ELSE clients
             /\ keys' = IF u.coll = "keys" THEN Written(keys, u) ELSE keys
             /\ dnsServers' = IF u.coll = "dnsServers" THEN Written(dnsServers, u) ELSE dnsServers
             /\ allowedIps' = IF u.coll = "allowedIps" THEN Written(allowedIps, u) ELSE allowedIps
             /\ issued' = issued
             /\ Tail(pending[w]) \in Seq(Write) /\ Len(Tail(pending[w])) <= 3
             /\ DOMAIN Tail(pending[w]) = 1 .. (Len(pending[w]) - 1)
             /\ \A i \in DOMAIN Tail(pending[w]) :
                   i + 1 \in DOMAIN pending[w] /\ Tail(pending[w])[i] = pending[w][i + 1]
             /\ pending' = [pending EXCEPT ![w] = Tail(pending[w])]
  <1> DEFINE s == pending[w]  u == Head(pending[w])
  <1>1. s \in Seq(Write) /\ s # <<>>
    BY DEF PendingOK, Send
  <1>2. u \in Write /\ u = s[1] /\ 1 \in DOMAIN s
    BY <1>1
  <1>3. Known(u, issued)
    BY <1>2 DEF PendingOK
  <1>4. /\ Tail(s) \in Seq(Write) /\ DOMAIN Tail(s) = 1 .. (Len(s) - 1)
        /\ \A i \in DOMAIN Tail(s) : i + 1 \in DOMAIN s /\ Tail(s)[i] = s[i + 1]
    BY <1>1
  <1>5. Len(Tail(s)) <= 3
    <2>1. Len(s) <= 3
      BY DEF PendingOK
    <2>2. Len(s) \in Nat /\ Len(Tail(s)) = Len(s) - 1
      BY <1>1
    <2> QED
      BY <2>1, <2>2
  <1>6. /\ networks' = Apply(Db, u).networks /\ hosts' = Apply(Db, u).hosts
        /\ clients' = Apply(Db, u).clients /\ keys' = Apply(Db, u).keys
        /\ dnsServers' = Apply(Db, u).dnsServers /\ allowedIps' = Apply(Db, u).allowedIps
        /\ pending' = [pending EXCEPT ![w] = Tail(s)] /\ issued' = issued
    BY DEF Send
  <1> HIDE DEF s, u
  <1>7. /\ networks' = IF u.coll = "networks" THEN Written(networks, u) ELSE networks
        /\ hosts' = IF u.coll = "hosts" THEN Written(hosts, u) ELSE hosts
        /\ clients' = IF u.coll = "clients" THEN Written(clients, u) ELSE clients
        /\ keys' = IF u.coll = "keys" THEN Written(keys, u) ELSE keys
        /\ dnsServers' = IF u.coll = "dnsServers" THEN Written(dnsServers, u) ELSE dnsServers
        /\ allowedIps' = IF u.coll = "allowedIps" THEN Written(allowedIps, u) ELSE allowedIps
    BY <1>6, OneCollectionWritten
  <1> QED
    BY <1>1, <1>2, <1>3, <1>4, <1>6, <1>7, <1>5 DEF s, u

-----------------------------------------------------------------------------
(* The updates of a host or a client, which change nothing if it is gone.    *)

\* The interfaces and the peer connections of h after the updates that rewrite them.
EditedIn(hs, h, n, new) ==
    {IF m.network_id = n THEN [new EXCEPT !.active_key_id = m.active_key_id] ELSE m :
        m \in hs[h].network_memberships}

RekeyedIn(hs, h, n, k) ==
    {IF m.network_id = n THEN [m EXCEPT !.active_key_id = k] ELSE m :
        m \in hs[h].network_memberships}

Elsewhere(doc, n) == {m \in doc.network_memberships : m.network_id # n}

OtherPeers(hs, h, p, n) ==
    {x \in hs[h].peer_connections : ~(x.peer_host_id = p /\ x.network_id = n)}

\* Between hs and new only the interfaces of h changed, to ms.
InterfacesSet(hs, new, h, ms) ==
    /\ new \in HostDocs
    /\ \A g \in Host : new[g] # None <=> hs[g] # None
    /\ \A g \in Host \ {h} : new[g] = hs[g]
    /\ hs[h] # None => /\ new[h].network_memberships = ms
                       /\ new[h].peer_connections = hs[h].peer_connections

\* Between hs and new only the peer connections of h changed, to ps.
PeersSet(hs, new, h, ps) ==
    /\ new \in HostDocs
    /\ \A g \in Host : new[g] # None <=> hs[g] # None
    /\ \A g \in Host \ {h} : new[g] = hs[g]
    /\ hs[h] # None => /\ new[h].peer_connections = ps
                       /\ new[h].network_memberships = hs[h].network_memberships

\* Between cs and new only the document of c changed, to doc.
ClientSet(cs, new, c, doc) ==
    /\ new \in ClientDocs
    /\ \A b \in Client : new[b] # None <=> cs[b] # None
    /\ \A b \in Client \ {c} : new[b] = cs[b]
    /\ cs[c] # None => new[c] = doc

LEMMA InterfacesSetIf ==
    ASSUME NEW hs \in HostDocs, NEW h \in Host, NEW ms,
           hs[h] # None => ms \in SUBSET Interface
    PROVE  InterfacesSet(hs, SetInterfaces(hs, h, ms), h, ms)
  <1>1. CASE hs[h] = None
    BY <1>1 DEF SetInterfaces, UpdateOne, InterfacesSet
  <1>2. CASE hs[h] # None
    BY <1>2, SetInterfacesEffect DEF InterfacesSet
  <1> QED
    BY <1>1, <1>2

LEMMA PeersSetIf ==
    ASSUME NEW hs \in HostDocs, NEW h \in Host, NEW ps,
           hs[h] # None => ps \in SUBSET PeerConnection
    PROVE  PeersSet(hs, SetPeers(hs, h, ps), h, ps)
  <1>1. CASE hs[h] = None
    BY <1>1 DEF SetPeers, UpdateOne, PeersSet
  <1>2. CASE hs[h] # None
    BY <1>2, SetPeersEffect DEF PeersSet
  <1> QED
    BY <1>1, <1>2

LEMMA ClientSetIf ==
    ASSUME NEW cs \in ClientDocs, NEW c \in Client, NEW doc,
           cs[c] # None => doc \in ClientDoc
    PROVE  ClientSet(cs, UpdateOne(cs, c, doc), c, doc)
  <1>1. CASE cs[c] = None
    BY <1>1 DEF UpdateOne, ClientSet
  <1>2. CASE cs[c] # None
    BY <1>2, ClientEffect DEF ClientSet
  <1> QED
    BY <1>1, <1>2

LEMMA InterfaceUpdates ==
    ASSUME NEW hs \in HostDocs, NEW h \in Host, NEW n \in Network
    PROVE  /\ \A m \in Interface :
                 InterfacesSet(hs, PushInterface(hs, h, m), h, hs[h].network_memberships \cup {m})
           /\ \A new \in Interface :
                 InterfacesSet(hs, SetInterface(hs, h, n, new), h, EditedIn(hs, h, n, new))
           /\ \A k \in Key :
                 InterfacesSet(hs, SetInterfaceKey(hs, h, n, k), h, RekeyedIn(hs, h, n, k))
           /\ InterfacesSet(hs, PullInterface(hs, h, n), h, Elsewhere(hs[h], n))
  <1>1. ASSUME NEW m \in Interface
        PROVE  InterfacesSet(hs, PushInterface(hs, h, m), h, hs[h].network_memberships \cup {m})
    <2>1. hs[h] # None => hs[h].network_memberships \cup {m} \in SUBSET Interface
      BY HostWrites
    <2> QED
      BY <2>1, InterfacesSetIf DEF PushInterface
  <1>2. ASSUME NEW new \in Interface
        PROVE  InterfacesSet(hs, SetInterface(hs, h, n, new), h, EditedIn(hs, h, n, new))
    <2>1. hs[h] # None => EditedIn(hs, h, n, new) \in SUBSET Interface
      BY HostWrites DEF EditedIn
    <2>2. SetInterface(hs, h, n, new) = SetInterfaces(hs, h, EditedIn(hs, h, n, new))
      BY DEF SetInterface, EditedIn
    <2> QED
      BY <2>1, <2>2, InterfacesSetIf
  <1>3. ASSUME NEW k \in Key
        PROVE  InterfacesSet(hs, SetInterfaceKey(hs, h, n, k), h, RekeyedIn(hs, h, n, k))
    <2>1. hs[h] # None => RekeyedIn(hs, h, n, k) \in SUBSET Interface
      BY HostWrites DEF RekeyedIn
    <2>2. SetInterfaceKey(hs, h, n, k) = SetInterfaces(hs, h, RekeyedIn(hs, h, n, k))
      BY DEF SetInterfaceKey, RekeyedIn
    <2> QED
      BY <2>1, <2>2, InterfacesSetIf
  <1>4. InterfacesSet(hs, PullInterface(hs, h, n), h, Elsewhere(hs[h], n))
    <2>1. hs[h] # None => Elsewhere(hs[h], n) \in SUBSET Interface
      BY HostWrites DEF Elsewhere
    <2>2. PullInterface(hs, h, n) = SetInterfaces(hs, h, Elsewhere(hs[h], n))
      BY DEF PullInterface, Elsewhere
    <2> QED
      BY <2>1, <2>2, InterfacesSetIf
  <1> QED
    BY <1>1, <1>2, <1>3, <1>4

LEMMA PeerUpdates ==
    ASSUME NEW hs \in HostDocs, NEW h \in Host, NEW n
    PROVE  /\ \A x \in PeerConnection :
                 PeersSet(hs, PushPeer(hs, h, x), h, hs[h].peer_connections \cup {x})
           /\ \A p : PeersSet(hs, PullPeer(hs, h, p, n), h, OtherPeers(hs, h, p, n))
  <1>1. ASSUME NEW x \in PeerConnection
        PROVE  PeersSet(hs, PushPeer(hs, h, x), h, hs[h].peer_connections \cup {x})
    <2>1. hs[h] # None => hs[h].peer_connections \cup {x} \in SUBSET PeerConnection
      BY HostWrites
    <2> QED
      BY <2>1, PeersSetIf DEF PushPeer
  <1>2. ASSUME NEW p
        PROVE  PeersSet(hs, PullPeer(hs, h, p, n), h, OtherPeers(hs, h, p, n))
    <2>1. hs[h] # None => OtherPeers(hs, h, p, n) \in SUBSET PeerConnection
      BY HostWrites DEF OtherPeers
    <2>2. PullPeer(hs, h, p, n) = SetPeers(hs, h, OtherPeers(hs, h, p, n))
      BY DEF PullPeer, OtherPeers
    <2> QED
      BY <2>1, <2>2, PeersSetIf
  <1> QED
    BY <1>1, <1>2

LEMMA ClientFieldUpdates ==
    ASSUME NEW cs \in ClientDocs, NEW c \in Client
    PROVE  /\ \A k \in Key :
                 ClientSet(cs, SetClientKey(cs, c, k), c, [cs[c] EXCEPT !.active_key_id = k])
           /\ \A d \in DnsServer \cup {None} :
                 ClientSet(cs, SetClientDns(cs, c, d), c, [cs[c] EXCEPT !.dns_server_id = d])
           /\ \A ms : (cs[c] # None => ms \in SUBSET ClientMembership) =>
                 ClientSet(cs, SetMemberships(cs, c, ms), c, [cs[c] EXCEPT !.network_memberships = ms])
           /\ \A xs : (cs[c] # None => xs \in SUBSET Connection) =>
                 ClientSet(cs, SetConnections(cs, c, xs), c, [cs[c] EXCEPT !.connections = xs])
  <1>1. cs[c] # None => cs[c] \in ClientDoc
    BY DEF ClientDocs
  <1>2. ASSUME NEW k \in Key
        PROVE  ClientSet(cs, SetClientKey(cs, c, k), c, [cs[c] EXCEPT !.active_key_id = k])
    <2>1. cs[c] # None => [cs[c] EXCEPT !.active_key_id = k] \in ClientDoc
      BY <1>1 DEF ClientDoc
    <2> QED
      BY <2>1, ClientSetIf DEF SetClientKey
  <1>3. ASSUME NEW d \in DnsServer \cup {None}
        PROVE  ClientSet(cs, SetClientDns(cs, c, d), c, [cs[c] EXCEPT !.dns_server_id = d])
    <2>1. cs[c] # None => [cs[c] EXCEPT !.dns_server_id = d] \in ClientDoc
      BY <1>1 DEF ClientDoc
    <2> QED
      BY <2>1, ClientSetIf DEF SetClientDns
  <1>4. ASSUME NEW ms, cs[c] # None => ms \in SUBSET ClientMembership
        PROVE  ClientSet(cs, SetMemberships(cs, c, ms), c, [cs[c] EXCEPT !.network_memberships = ms])
    <2>1. cs[c] # None => [cs[c] EXCEPT !.network_memberships = ms] \in ClientDoc
      BY <1>1, <1>4 DEF ClientDoc
    <2> QED
      BY <2>1, ClientSetIf DEF SetMemberships
  <1>5. ASSUME NEW xs, cs[c] # None => xs \in SUBSET Connection
        PROVE  ClientSet(cs, SetConnections(cs, c, xs), c, [cs[c] EXCEPT !.connections = xs])
    <2>1. cs[c] # None => [cs[c] EXCEPT !.connections = xs] \in ClientDoc
      BY <1>1, <1>5 DEF ClientDoc
    <2> QED
      BY <2>1, ClientSetIf DEF SetConnections
  <1> QED
    BY <1>2, <1>3, <1>4, <1>5

LEMMA LinkUpdates ==
    ASSUME NEW cs \in ClientDocs, NEW c \in Client, NEW n \in Network
    PROVE  /\ \A ip \in Address :
                 ClientSet(cs, PushMembership(cs, c, n, ip), c,
                     [cs[c] EXCEPT !.network_memberships =
                         cs[c].network_memberships \cup {[network_id |-> n, ip |-> ip]}])
           /\ ClientSet(cs, PullMembership(cs, c, n), c,
                  [cs[c] EXCEPT !.network_memberships = Elsewhere(cs[c], n)])
           /\ \A x \in Connection :
                 ClientSet(cs, PushConnection(cs, c, x), c,
                     [cs[c] EXCEPT !.connections = cs[c].connections \cup {x}])
  <1>1. cs[c] # None => /\ cs[c].network_memberships \in SUBSET ClientMembership
                        /\ cs[c].connections \in SUBSET Connection
    BY DEF ClientDocs, ClientDoc
  <1>2. ASSUME NEW ip \in Address
        PROVE  ClientSet(cs, PushMembership(cs, c, n, ip), c,
                   [cs[c] EXCEPT !.network_memberships =
                       cs[c].network_memberships \cup {[network_id |-> n, ip |-> ip]}])
    <2>1. cs[c] # None => cs[c].network_memberships \cup {[network_id |-> n, ip |-> ip]}
                              \in SUBSET ClientMembership
      BY <1>1 DEF ClientMembership
    <2> QED
      BY <2>1, ClientFieldUpdates DEF PushMembership
  <1>3. ClientSet(cs, PullMembership(cs, c, n), c,
            [cs[c] EXCEPT !.network_memberships = Elsewhere(cs[c], n)])
    <2>1. cs[c] # None => Elsewhere(cs[c], n) \in SUBSET ClientMembership
      BY <1>1 DEF Elsewhere
    <2>2. PullMembership(cs, c, n) = SetMemberships(cs, c, Elsewhere(cs[c], n))
      BY DEF PullMembership, Elsewhere
    <2> QED
      BY <2>1, <2>2, ClientFieldUpdates
  <1>4. ASSUME NEW x \in Connection
        PROVE  ClientSet(cs, PushConnection(cs, c, x), c,
                   [cs[c] EXCEPT !.connections = cs[c].connections \cup {x}])
    <2>1. cs[c] # None => cs[c].connections \cup {x} \in SUBSET Connection
      BY <1>1
    <2> QED
      BY <2>1, ClientFieldUpdates DEF PushConnection
  <1> QED
    BY <1>2, <1>3, <1>4

-----------------------------------------------------------------------------
(* Type correctness. *)

\* A write of a host keeps the hosts well typed, and only an insert adds one.
LEMMA HostWritesTyped ==
    ASSUME NEW hs \in HostDocs, NEW u \in HostWrite \cup InterfaceWrite
    PROVE  /\ u.coll = "hosts" /\ Written(hs, u) \in HostDocs
           /\ \A g \in Host : Written(hs, u)[g] # None /\ hs[g] = None => u.op = "insert" /\ u.id = g
  <1>1. ASSUME NEW h \in Host, u = Insert("hosts", h, NewHost)
        PROVE  /\ u.coll = "hosts" /\ Written(hs, u) \in HostDocs
               /\ \A g \in Host : Written(hs, u)[g] # None /\ hs[g] = None => u.op = "insert" /\ u.id = g
    <2>1. u.coll = "hosts" /\ u.op = "insert" /\ u.id = h
      BY <1>1 DEF Insert
    <2>2. Written(hs, u) = [hs EXCEPT ![h] = NewHost]
      BY <1>1, DocumentWrites
    <2>3. NewHost \in HostDoc
      BY NewDocs
    <2> QED
      BY <2>1, <2>2, <2>3 DEF HostDocs
  <1>2. ASSUME NEW h \in Host, u = Delete("hosts", h)
        PROVE  /\ u.coll = "hosts" /\ Written(hs, u) \in HostDocs
               /\ \A g \in Host : Written(hs, u)[g] # None => hs[g] # None
    <2>1. u.coll = "hosts"
      BY <1>2 DEF Delete
    <2>2. Written(hs, u) = [hs EXCEPT ![h] = None]
      BY <1>2, DocumentWrites
    <2> QED
      BY <2>1, <2>2 DEF HostDocs
  <1>3. ASSUME NEW op, NEW h, NEW n, NEW v
        PROVE  OnHost(op, h, n, v).coll = "hosts"
    BY DEF OnHost
  <1>4. CASE \/ \E h \in Host, n \in Network, m \in Interface : u = OnHost("push_interface", h, n, m)
             \/ \E h \in Host, n \in Network, m \in Interface : u = OnHost("set_interface", h, n, m)
             \/ \E h \in Host, n \in Network, k \in Key : u = OnHost("set_interface_key", h, n, k)
             \/ \E h \in Host, n \in Network : u = OnHost("pull_interface", h, n, None)
    BY <1>3, <1>4, HostUpdates, InterfaceUpdates DEF InterfacesSet
  <1>5. ASSUME NEW h \in Host, NEW n \in Network, NEW x \in PeerConnection,
               u = OnHost("push_peer", h, n, x)
        PROVE  u.coll = "hosts" /\ PeersSet(hs, Written(hs, u), h, hs[h].peer_connections \cup {x})
    BY <1>3, <1>5, HostUpdates, PeerUpdates
  <1>6. ASSUME NEW h \in Host, NEW n \in Network, NEW p \in Host, u = OnHost("pull_peer", h, n, p)
        PROVE  /\ u.coll = "hosts"
               /\ PeersSet(hs, Written(hs, u), h, OtherPeers(hs, h, p, n))
    BY <1>3, <1>6, HostUpdates, PeerUpdates
  <1>7. CASE \/ \E h \in Host, n \in Network, x \in PeerConnection : u = OnHost("push_peer", h, n, x)
             \/ \E h \in Host, n \in Network, p \in Host : u = OnHost("pull_peer", h, n, p)
    BY <1>5, <1>6, <1>7 DEF PeersSet
  <1> QED
    BY <1>1, <1>2, <1>4, <1>7 DEF HostWrite, InterfaceWrite

\* So does a write of a client.
LEMMA ClientWritesTyped ==
    ASSUME NEW cs \in ClientDocs, NEW u \in ClientWrite \cup LinkWrite
    PROVE  /\ u.coll = "clients" /\ Written(cs, u) \in ClientDocs
           /\ \A b \in Client : Written(cs, u)[b] # None /\ cs[b] = None => u.op = "insert" /\ u.id = b
  <1>1. ASSUME NEW c \in Client, NEW d \in DnsServer \cup {None}, u = Insert("clients", c, NewClient(d))
        PROVE  /\ u.coll = "clients" /\ Written(cs, u) \in ClientDocs
               /\ \A b \in Client : Written(cs, u)[b] # None /\ cs[b] = None => u.op = "insert" /\ u.id = b
    <2>1. u.coll = "clients" /\ u.op = "insert" /\ u.id = c
      BY <1>1 DEF Insert
    <2>2. Written(cs, u) = [cs EXCEPT ![c] = NewClient(d)]
      BY <1>1, DocumentWrites
    <2>3. NewClient(d) \in ClientDoc
      BY DEF NewClient, ClientDoc
    <2> QED
      BY <2>1, <2>2, <2>3 DEF ClientDocs
  <1>2. ASSUME NEW c \in Client, u = Delete("clients", c)
        PROVE  /\ u.coll = "clients" /\ Written(cs, u) \in ClientDocs
               /\ \A b \in Client : Written(cs, u)[b] # None => cs[b] # None
    <2>1. u.coll = "clients"
      BY <1>2 DEF Delete
    <2>2. Written(cs, u) = [cs EXCEPT ![c] = None]
      BY <1>2, DocumentWrites
    <2> QED
      BY <2>1, <2>2 DEF ClientDocs
  <1>3. ASSUME NEW op, NEW c, NEW n, NEW v
        PROVE  OnClient(op, c, n, v).coll = "clients"
    BY DEF OnClient
  <1> DEFINE Kept(new) == /\ new \in ClientDocs
                          /\ \A b \in Client : new[b] # None <=> cs[b] # None
  <1>4. ASSUME NEW new, NEW c, NEW doc, ClientSet(cs, new, c, doc)
        PROVE  Kept(new)
    BY <1>4 DEF ClientSet
  <1> HIDE DEF Kept
  <1>5. ASSUME NEW c \in Client
        PROVE  /\ \A k \in Key : Kept(SetClientKey(cs, c, k))
               /\ \A d \in DnsServer \cup {None} : Kept(SetClientDns(cs, c, d))
               /\ \A xs \in SUBSET Connection : Kept(SetConnections(cs, c, xs))
    <2>1. \A k \in Key : Kept(SetClientKey(cs, c, k))
      BY <1>4, ClientFieldUpdates
    <2>2. \A d \in DnsServer \cup {None} : Kept(SetClientDns(cs, c, d))
      BY <1>4, ClientFieldUpdates
    <2>3. \A xs \in SUBSET Connection : Kept(SetConnections(cs, c, xs))
      BY <1>4, ClientFieldUpdates
    <2> QED
      BY <2>1, <2>2, <2>3
  <1>6. ASSUME NEW c \in Client, NEW n \in Network
        PROVE  /\ \A ip \in Address : Kept(PushMembership(cs, c, n, ip))
               /\ Kept(PullMembership(cs, c, n))
               /\ \A x \in Connection : Kept(PushConnection(cs, c, x))
    <2>1. \A ip \in Address : Kept(PushMembership(cs, c, n, ip))
      BY <1>4, LinkUpdates
    <2>2. Kept(PullMembership(cs, c, n))
      BY <1>4, LinkUpdates
    <2>3. \A x \in Connection : Kept(PushConnection(cs, c, x))
      BY <1>4, LinkUpdates
    <2> QED
      BY <2>1, <2>2, <2>3
  <1>7. CASE \/ \E c \in Client, k \in Key : u = OnClient("set_key", c, None, k)
             \/ \E c \in Client, d \in DnsServer \cup {None} : u = OnClient("set_dns", c, None, d)
             \/ u \in LinkWrite
    <2>1. Kept(Written(cs, u)) /\ u.coll = "clients"
      BY <1>3, <1>5, <1>6, <1>7, ClientUpdates DEF LinkWrite
    <2> QED
      BY <2>1 DEF Kept
  <1> QED
    BY <1>1, <1>2, <1>7 DEF ClientWrite

\* And a write of a network.
LEMMA NetworkWritesTyped ==
    ASSUME NEW ns \in [Network -> NetworkDoc \cup {None}], NEW u \in NetworkWrite
    PROVE  /\ u.coll = "networks" /\ Written(ns, u) \in [Network -> NetworkDoc \cup {None}]
           /\ \A m \in Network : Written(ns, u)[m] # None /\ ns[m] = None => u.op = "insert" /\ u.id = m
  <1>1. ASSUME NEW n \in Network, NEW doc \in NetworkDoc, u = Insert("networks", n, doc)
        PROVE  /\ u.coll = "networks" /\ u.op = "insert" /\ u.id = n
               /\ Written(ns, u) = [ns EXCEPT ![n] = doc]
    <2>1. u.coll = "networks" /\ u.op = "insert" /\ u.id = n
      BY <1>1 DEF Insert
    <2>2. Written(ns, u) = [ns EXCEPT ![n] = doc]
      BY <1>1, DocumentWrites
    <2> QED
      BY <2>1, <2>2
  <1>2. ASSUME NEW n \in Network, NEW doc \in NetworkDoc, u = Replace("networks", n, doc)
        PROVE  u.coll = "networks" /\ Written(ns, u) = UpdateOne(ns, n, doc)
    BY <1>2, DocumentWrites DEF Replace
  <1>3. ASSUME NEW n \in Network, u = Delete("networks", n)
        PROVE  u.coll = "networks" /\ Written(ns, u) = [ns EXCEPT ![n] = None]
    BY <1>3, DocumentWrites DEF Delete
  <1>4. CASE \E n \in Network, doc \in NetworkDoc : u = Insert("networks", n, doc)
    BY <1>1, <1>4
  <1>5. CASE \E n \in Network, doc \in NetworkDoc : u = Replace("networks", n, doc)
    BY <1>2, <1>5 DEF UpdateOne
  <1>6. CASE \E n \in Network : u = Delete("networks", n)
    BY <1>3, <1>6
  <1> QED
    BY <1>4, <1>5, <1>6 DEF NetworkWrite

\* And a write of an id.
LEMMA IdWritesTyped ==
    ASSUME NEW ids, NEW u \in IdWrite
    PROVE  \/ /\ u.coll = "keys" /\ u.id \in Key
              /\ \/ u.op = "insert_id" /\ Written(ids, u) = ids \cup {u.id}
                 \/ u = DeleteId("keys", u.id) /\ Written(ids, u) = ids \ {u.id}
           \/ /\ u.coll = "dnsServers" /\ u.id \in DnsServer
              /\ \/ u.op = "insert_id" /\ Written(ids, u) = ids \cup {u.id}
                 \/ Written(ids, u) = ids \ {u.id}
           \/ /\ u.coll = "allowedIps" /\ u.id \in AllowedIpsSet
              /\ \/ u.op = "insert_id" /\ Written(ids, u) = ids \cup {u.id}
                 \/ Written(ids, u) = ids \ {u.id}
  <1>1. ASSUME NEW coll, NEW k
        PROVE  /\ InsertId(coll, k).coll = coll /\ InsertId(coll, k).id = k
               /\ InsertId(coll, k).op = "insert_id"
               /\ DeleteId(coll, k).coll = coll /\ DeleteId(coll, k).id = k
    BY DEF InsertId, DeleteId
  <1>2. CASE \E k \in Key : u = InsertId("keys", k) \/ u = DeleteId("keys", k)
    BY <1>1, <1>2, IdWrites
  <1>3. CASE \E d \in DnsServer : u = InsertId("dnsServers", d) \/ u = DeleteId("dnsServers", d)
    BY <1>1, <1>3, IdWrites
  <1>4. CASE \E a \in AllowedIpsSet : u = InsertId("allowedIps", a) \/ u = DeleteId("allowedIps", a)
    BY <1>1, <1>4, IdWrites
  <1> QED
    BY <1>2, <1>3, <1>4 DEF IdWrite

-----------------------------------------------------------------------------
(* What a handler has made sure of when it sends its writes, as long as no    *)
(* other thread writes between.                                               *)

\* The write leaves no peer connection without its host or its own interface.
PeerSafe(u) ==
    /\ u.op = "delete" /\ u.coll = "hosts" =>
          \A g \in LiveHosts : \A x \in hosts[g].peer_connections : x.peer_host_id # u.id
    /\ u.op = "set_interface" =>
          u.value.network_id = u.network_id \/ ~PeersOn(u.id, u.network_id)
    /\ u.op = "pull_interface" => ~PeersOn(u.id, u.network_id)
    /\ u.op = "push_peer" =>
          u.value.peer_host_id \in LiveHosts /\ MemberOf(hosts[u.id], u.value.network_id)

\* The write points to no key that is not stored by then: `stored` holds the keys
\* inserted before it.
KeySafe(u, stored) ==
    /\ u.op \in {"set_interface_key", "set_key"} => u.value \in keys \cup stored
    /\ u.op = "push_interface" => u.value.active_key_id = None
    /\ u.op = "delete_id" /\ u.coll = "keys" => ~KeyUsed(u.id)

\* The writes of the handlers that send more than one.
Gentle(u) ==
    \/ u.op \in {"insert_id", "set_interface_key", "set_key", "push_peer", "pull_peer"}
    \/ u.op = "insert" /\ u.coll = "clients"

\* The keys that the writes before the ith insert.
StoredBefore(ws, i) == {k \in Key : \E j \in 1 .. (i - 1) : ws[j] = InsertId("keys", k)}

Checked(ws) ==
    /\ \A i \in DOMAIN ws : PeerSafe(ws[i]) /\ KeySafe(ws[i], StoredBefore(ws, i))
    /\ Len(ws) > 1 => \A i \in DOMAIN ws : Gentle(ws[i])

PendingChecked == \A w \in Thread : Checked(pending[w])

-----------------------------------------------------------------------------
(* What a request puts on a thread's line.                                   *)

\* Thread w starts a request with writes that are in order.
StartsInOrder(w) ==
    \E ws \in Seq(Write), new \in SUBSET Ids :
        /\ Start(w, ws, new)
        /\ Len(ws) <= 3 /\ \A i \in DOMAIN ws : Known(ws[i], issued \cup new)
        /\ Checked(ws)

LEMMA OneWrite ==
    ASSUME NEW w, NEW u \in Write, NEW new \in SUBSET Ids, Start(w, <<u>>, new),
           Known(u, issued \cup new), PeerSafe(u), KeySafe(u, {})
    PROVE  StartsInOrder(w)
  <1> DEFINE ws == <<u>>
  <1>1. /\ ws \in Seq(Write) /\ Len(ws) = 1 /\ DOMAIN ws = {1} /\ ws[1] = u
    OBVIOUS
  <1>2. StoredBefore(ws, 1) = {}
    BY DEF StoredBefore
  <1>3. Start(w, ws, new)
    OBVIOUS
  <1> HIDE DEF ws
  <1>4. PeerSafe(ws[1]) /\ KeySafe(ws[1], StoredBefore(ws, 1))
    BY <1>1, <1>2
  <1>5. Checked(ws)
    <2>1. ASSUME NEW i \in DOMAIN ws
          PROVE  PeerSafe(ws[i]) /\ KeySafe(ws[i], StoredBefore(ws, i))
      <3>1. i = 1
        BY <1>1
      <3> QED
        BY <1>4, <3>1
    <2>2. ~(Len(ws) > 1)
      BY <1>1
    <2> QED
      BY <2>1, <2>2 DEF Checked
  <1>6. Len(ws) <= 3 /\ \A i \in DOMAIN ws : Known(ws[i], issued \cup new)
    BY <1>1
  <1> QED
    BY <1>1, <1>3, <1>5, <1>6 DEF StartsInOrder

LEMMA TwoWrites ==
    ASSUME NEW w, NEW u \in Write, NEW v \in Write, NEW new \in SUBSET Ids,
           Start(w, <<u, v>>, new),
           Known(u, issued \cup new), PeerSafe(u), KeySafe(u, {}), Gentle(u),
           Known(v, issued \cup new), PeerSafe(v), Gentle(v),
           \A stored : (\A k \in Key : u = InsertId("keys", k) => k \in stored) => KeySafe(v, stored)
    PROVE  StartsInOrder(w)
  <1> DEFINE ws == <<u, v>>
  <1>1. /\ ws \in Seq(Write) /\ Len(ws) = 2 /\ DOMAIN ws = {1, 2} /\ ws[1] = u /\ ws[2] = v
    OBVIOUS
  <1>2. Start(w, ws, new)
    OBVIOUS
  <1> HIDE DEF ws
  <1>3. /\ StoredBefore(ws, 1) = {}
        /\ \A k \in Key : u = InsertId("keys", k) => k \in StoredBefore(ws, 2)
    BY <1>1 DEF StoredBefore
  <1>4. Checked(ws)
    BY <1>1, <1>3 DEF Checked
  <1>5. Len(ws) <= 3 /\ \A i \in DOMAIN ws : Known(ws[i], issued \cup new)
    BY <1>1
  <1> QED
    BY <1>1, <1>2, <1>4, <1>5 DEF StartsInOrder

LEMMA ThreeWrites ==
    ASSUME NEW w, NEW u \in Write, NEW v \in Write, NEW x \in Write, NEW new \in SUBSET Ids,
           Start(w, <<u, v, x>>, new),
           Known(u, issued \cup new), PeerSafe(u), KeySafe(u, {}), Gentle(u),
           Known(v, issued \cup new), PeerSafe(v), KeySafe(v, {}), Gentle(v),
           Known(x, issued \cup new), PeerSafe(x), Gentle(x),
           \A stored : (\A k \in Key : v = InsertId("keys", k) => k \in stored) => KeySafe(x, stored)
    PROVE  StartsInOrder(w)
  <1> DEFINE ws == <<u, v, x>>
  <1>1. /\ ws \in Seq(Write) /\ Len(ws) = 3 /\ DOMAIN ws = {1, 2, 3}
        /\ ws[1] = u /\ ws[2] = v /\ ws[3] = x
    OBVIOUS
  <1>2. Start(w, ws, new)
    OBVIOUS
  <1> HIDE DEF ws
  <1>3. /\ StoredBefore(ws, 1) = {}
        /\ \A k \in Key : v = InsertId("keys", k) => k \in StoredBefore(ws, 3)
    BY <1>1 DEF StoredBefore
  <1>4. KeySafe(v, StoredBefore(ws, 2)) /\ KeySafe(x, StoredBefore(ws, 3))
    BY <1>3 DEF KeySafe
  <1>5. Checked(ws)
    BY <1>1, <1>3, <1>4 DEF Checked
  <1>6. Len(ws) <= 3 /\ \A i \in DOMAIN ws : Known(ws[i], issued \cup new)
    BY <1>1
  <1> QED
    BY <1>1, <1>2, <1>5, <1>6 DEF StartsInOrder

\* The fields of the writes.
LEMMA WriteFields ==
    /\ \A coll, id, doc :
          /\ Insert(coll, id, doc).op = "insert" /\ Insert(coll, id, doc).coll = coll
          /\ Insert(coll, id, doc).id = id
          /\ Replace(coll, id, doc).op = "set" /\ Replace(coll, id, doc).coll = coll
          /\ Delete(coll, id).op = "delete" /\ Delete(coll, id).coll = coll
          /\ Delete(coll, id).id = id
          /\ InsertId(coll, id).op = "insert_id" /\ InsertId(coll, id).coll = coll
          /\ InsertId(coll, id).id = id
          /\ DeleteId(coll, id).op = "delete_id" /\ DeleteId(coll, id).coll = coll
          /\ DeleteId(coll, id).id = id
    /\ \A op, h, n, v :
          /\ OnHost(op, h, n, v).op = op /\ OnHost(op, h, n, v).coll = "hosts"
          /\ OnHost(op, h, n, v).id = h /\ OnHost(op, h, n, v).network_id = n
          /\ OnHost(op, h, n, v).value = v
          /\ OnClient(op, h, n, v).op = op /\ OnClient(op, h, n, v).coll = "clients"
          /\ OnClient(op, h, n, v).id = h /\ OnClient(op, h, n, v).network_id = n
          /\ OnClient(op, h, n, v).value = v
  BY DEF Insert, Replace, Delete, InsertId, DeleteId, OnHost, OnClient

LEMMA NetworkRequestInOrder ==
    ASSUME TypeOK, NEW w \in Thread, NetworkRequest(w)
    PROVE  StartsInOrder(w)
  <1>1. ASSUME NEW n \in Network, NEW cidr \in Cidr, NEW t \in NetworkType,
               NEW h \in Host \cup {None},
               Start(w, <<Insert("networks", n, NewNetwork(cidr, t, h))>>, {n})
        PROVE  StartsInOrder(w)
    <2> DEFINE u == Insert("networks", n, NewNetwork(cidr, t, h))
    <2>1. u \in Write
      BY NewDocs DEF Write, NetworkWrite
    <2>2. u.op = "insert" /\ u.id = n /\ u.coll = "networks"
      BY WriteFields
    <2> HIDE DEF u
    <2>3. Known(u, issued \cup {n}) /\ PeerSafe(u) /\ KeySafe(u, {})
      BY <2>2 DEF Known, PeerSafe, KeySafe
    <2>4. {n} \in SUBSET Ids
      BY DEF Ids
    <2> QED
      BY <1>1, <2>1, <2>3, <2>4, OneWrite DEF u
  <1>2. ASSUME NEW n \in LiveNetworks, NEW cidr \in Cidr, NEW t \in NetworkType,
               NEW h \in Host \cup {None},
               Start(w, <<Replace("networks", n, NewNetwork(cidr, t, h))>>, {})
        PROVE  StartsInOrder(w)
    <2> DEFINE u == Replace("networks", n, NewNetwork(cidr, t, h))
    <2>1. u \in Write
      BY NewDocs DEF Write, NetworkWrite, LiveNetworks
    <2>2. u.op = "set"
      BY WriteFields
    <2> HIDE DEF u
    <2>3. Known(u, issued \cup {}) /\ PeerSafe(u) /\ KeySafe(u, {})
      BY <2>2 DEF Known, PeerSafe, KeySafe
    <2> QED
      BY <1>2, <2>1, <2>3, OneWrite DEF u
  <1>3. ASSUME NEW n \in LiveNetworks, Start(w, <<Delete("networks", n)>>, {})
        PROVE  StartsInOrder(w)
    <2> DEFINE u == Delete("networks", n)
    <2>1. u \in Write
      BY DEF Write, NetworkWrite, LiveNetworks
    <2>2. u.op = "delete" /\ u.coll = "networks"
      BY WriteFields
    <2> HIDE DEF u
    <2>3. Known(u, issued \cup {}) /\ PeerSafe(u) /\ KeySafe(u, {})
      BY <2>2 DEF Known, PeerSafe, KeySafe
    <2> QED
      BY <1>3, <2>1, <2>3, OneWrite DEF u
  <1> QED
    BY <1>1, <1>2, <1>3 DEF NetworkRequest

LEMMA HostRequestInOrder ==
    ASSUME TypeOK, NEW w \in Thread, HostRequest(w)
    PROVE  StartsInOrder(w)
  <1>1. ASSUME NEW h \in Host, Start(w, <<Insert("hosts", h, NewHost)>>, {h})
        PROVE  StartsInOrder(w)
    <2> DEFINE u == Insert("hosts", h, NewHost)
    <2>1. u \in Write
      BY DEF Write, HostWrite
    <2>2. u.op = "insert" /\ u.id = h
      BY WriteFields
    <2> HIDE DEF u
    <2>3. Known(u, issued \cup {h}) /\ PeerSafe(u) /\ KeySafe(u, {})
      BY <2>2 DEF Known, PeerSafe, KeySafe
    <2>4. {h} \in SUBSET Ids
      BY DEF Ids
    <2> QED
      BY <1>1, <2>1, <2>3, <2>4, OneWrite DEF u
  <1>2. ASSUME NEW h \in Host, CanDeleteHost(h), Start(w, <<Delete("hosts", h)>>, {})
        PROVE  StartsInOrder(w)
    <2> DEFINE u == Delete("hosts", h)
    <2>1. u \in Write
      BY DEF Write, HostWrite
    <2>2. u.op = "delete" /\ u.id = h
      BY WriteFields
    <2> HIDE DEF u
    <2>3. \A g \in LiveHosts : \A x \in hosts[g].peer_connections : x.peer_host_id # h
      BY <1>2 DEF CanDeleteHost
    <2>4. Known(u, issued \cup {}) /\ PeerSafe(u) /\ KeySafe(u, {})
      BY <2>2, <2>3 DEF Known, PeerSafe, KeySafe
    <2> QED
      BY <1>2, <2>1, <2>4, OneWrite DEF u
  <1>3. ASSUME NEW h \in Host, NEW n \in Network, NEW ip \in Address, NEW t \in InterfaceType,
               NEW d \in DnsChoice,
               Start(w, <<OnHost("push_interface", h, n, NewInterface(n, ip, t, d))>>, {})
        PROVE  StartsInOrder(w)
    <2> DEFINE m == NewInterface(n, ip, t, d)  u == OnHost("push_interface", h, n, m)
    <2>1. d \in DnsServer \cup {None}
      BY DEF TypeOK, DnsChoice
    <2>2. m \in Interface
      BY <2>1, NewDocs
    <2>3. u \in Write
      BY <2>2 DEF Write, InterfaceWrite
    <2>4. u.op = "push_interface" /\ u.value = m
      BY WriteFields
    <2>5. m.active_key_id = None
      BY DEF NewInterface
    <2> HIDE DEF m, u
    <2>6. Known(u, issued \cup {}) /\ PeerSafe(u) /\ KeySafe(u, {})
      BY <2>4, <2>5 DEF Known, PeerSafe, KeySafe
    <2> QED
      BY <1>3, <2>3, <2>6, OneWrite DEF u, m
  <1>4. ASSUME NEW h \in Host, NEW n0 \in Network, NEW n \in Network, NEW ip \in Address,
               NEW t \in InterfaceType, NEW d \in DnsChoice, CanEditInterface(h, n0, n, ip, t, d),
               Start(w, <<OnHost("set_interface", h, n0, NewInterface(n, ip, t, d))>>, {})
        PROVE  StartsInOrder(w)
    <2> DEFINE m == NewInterface(n, ip, t, d)  u == OnHost("set_interface", h, n0, m)
    <2>1. d \in DnsServer \cup {None}
      BY DEF TypeOK, DnsChoice
    <2>2. m \in Interface
      BY <2>1, NewDocs
    <2>3. u \in Write
      BY <2>2 DEF Write, InterfaceWrite
    <2>4. u.op = "set_interface" /\ u.value = m /\ u.network_id = n0 /\ u.id = h
      BY WriteFields
    <2>5. m.network_id = n
      BY DEF NewInterface
    <2>6. n = n0 \/ ~PeersOn(h, n0)
      BY <1>4 DEF CanEditInterface, FreeToMove
    <2> HIDE DEF m, u
    <2>7. Known(u, issued \cup {}) /\ PeerSafe(u) /\ KeySafe(u, {})
      BY <2>4, <2>5, <2>6 DEF Known, PeerSafe, KeySafe
    <2> QED
      BY <1>4, <2>3, <2>7, OneWrite DEF u, m
  <1>5. ASSUME NEW h \in Host, NEW n \in Network, CanRemoveInterface(h, n),
               Start(w, <<OnHost("pull_interface", h, n, None)>>, {})
        PROVE  StartsInOrder(w)
    <2> DEFINE u == OnHost("pull_interface", h, n, None)
    <2>1. u \in Write
      BY DEF Write, InterfaceWrite
    <2>2. u.op = "pull_interface" /\ u.network_id = n /\ u.id = h
      BY WriteFields
    <2>3. ~PeersOn(h, n)
      BY <1>5 DEF CanRemoveInterface
    <2> HIDE DEF u
    <2>4. Known(u, issued \cup {}) /\ PeerSafe(u) /\ KeySafe(u, {})
      BY <2>2, <2>3 DEF Known, PeerSafe, KeySafe
    <2> QED
      BY <1>5, <2>1, <2>4, OneWrite DEF u
  <1>6. CASE \E h \in Host : Start(w, <<Insert("hosts", h, NewHost)>>, {h})
    BY <1>1, <1>6
  <1>7. CASE \E h \in Host : CanDeleteHost(h) /\ Start(w, <<Delete("hosts", h)>>, {})
    BY <1>2, <1>7
  <1>8. ASSUME NEW h \in Host, NEW n \in Network, NEW ip \in Address, NEW t \in InterfaceType,
               NEW d \in DnsChoice,
               \/ Start(w, <<OnHost("push_interface", h, n, NewInterface(n, ip, t, d))>>, {})
               \/ \E n0 \in Network :
                     /\ CanEditInterface(h, n0, n, ip, t, d)
                     /\ Start(w, <<OnHost("set_interface", h, n0, NewInterface(n, ip, t, d))>>, {})
        PROVE  StartsInOrder(w)
    BY <1>3, <1>4, <1>8
  <1>9. CASE \E h \in Host, n \in Network :
                CanRemoveInterface(h, n) /\ Start(w, <<OnHost("pull_interface", h, n, None)>>, {})
    BY <1>5, <1>9
  <1> QED
    BY <1>6, <1>7, <1>8, <1>9 DEF HostRequest

LEMMA PeerRequestInOrder ==
    ASSUME TypeOK, NEW w \in Thread, PeerRequest(w)
    PROVE  StartsInOrder(w)
  <1>1. ASSUME NEW h \in Host, NEW p \in Host, NEW n \in Network, NEW a \in AllowedIpsSet,
               CanAddPeerConnection(h, p, n, a), Start(w, PeerWrites(h, p, n, a), {})
        PROVE  StartsInOrder(w)
    <2> DEFINE u == OnHost("push_peer", h, n, NewPeer(p, n, a))
               v == OnHost("push_peer", p, n, NewPeer(h, n, a))
    <2>1. u \in Write /\ v \in Write
      BY NewDocs DEF Write, HostWrite
    <2>2. /\ u.op = "push_peer" /\ u.id = h /\ u.value = NewPeer(p, n, a)
          /\ v.op = "push_peer" /\ v.id = p /\ v.value = NewPeer(h, n, a)
      BY WriteFields
    <2>3. /\ h \in LiveHosts /\ p \in LiveHosts /\ MemberOf(hosts[h], n) /\ MemberOf(hosts[p], n)
      BY <1>1 DEF CanAddPeerConnection, MemberOf
    <2>4. /\ NewPeer(p, n, a).peer_host_id = p /\ NewPeer(p, n, a).network_id = n
          /\ NewPeer(h, n, a).peer_host_id = h /\ NewPeer(h, n, a).network_id = n
      BY DEF NewPeer
    <2>5. Start(w, <<u, v>>, {})
      BY <1>1 DEF PeerWrites
    <2> HIDE DEF u, v
    <2>6. PeerSafe(u) /\ PeerSafe(v)
      BY <2>2, <2>3, <2>4 DEF PeerSafe
    <2>7. \A stored : KeySafe(u, stored) /\ KeySafe(v, stored)
      BY <2>2 DEF KeySafe
    <2>8. /\ Known(u, issued \cup {}) /\ Gentle(u) /\ Known(v, issued \cup {}) /\ Gentle(v)
      BY <2>2 DEF Known, Gentle
    <2> QED
      BY <2>1, <2>5, <2>6, <2>7, <2>8, TwoWrites
  <1>2. ASSUME NEW h \in Host, NEW p \in Host, NEW n \in Network,
               Start(w, <<OnHost("pull_peer", h, n, p), OnHost("pull_peer", p, n, h)>>, {})
        PROVE  StartsInOrder(w)
    <2> DEFINE u == OnHost("pull_peer", h, n, p)
               v == OnHost("pull_peer", p, n, h)
    <2>1. u \in Write /\ v \in Write
      BY DEF Write, HostWrite
    <2>2. u.op = "pull_peer" /\ v.op = "pull_peer"
      BY WriteFields
    <2>3. Start(w, <<u, v>>, {})
      BY <1>2
    <2> HIDE DEF u, v
    <2>4. PeerSafe(u) /\ PeerSafe(v)
      BY <2>2 DEF PeerSafe
    <2>5. \A stored : KeySafe(u, stored) /\ KeySafe(v, stored)
      BY <2>2 DEF KeySafe
    <2>6. /\ Known(u, issued \cup {}) /\ Gentle(u) /\ Known(v, issued \cup {}) /\ Gentle(v)
      BY <2>2 DEF Known, Gentle
    <2> QED
      BY <2>1, <2>3, <2>4, <2>5, <2>6, TwoWrites
  <1> QED
    BY <1>1, <1>2 DEF PeerRequest

\* A write that points an interface or a client to a key.
LEMMA PointInOrder ==
    ASSUME NEW u \in Write, NEW k \in Key,
           u.op \in {"set_interface_key", "set_key"}, u.value = k
    PROVE  /\ PeerSafe(u) /\ Gentle(u) /\ \A ids : Known(u, ids)
           /\ \A stored : k \in keys \cup stored => KeySafe(u, stored)
  BY DEF PeerSafe, Gentle, Known, KeySafe

\* A write that stores an id.
LEMMA StoreInOrder ==
    ASSUME NEW u \in Write, u.op = "insert_id"
    PROVE  /\ PeerSafe(u) /\ Gentle(u) /\ \A ids : u.id \in ids => Known(u, ids)
           /\ \A stored : KeySafe(u, stored)
  BY DEF PeerSafe, Gentle, Known, KeySafe

LEMMA StoreThenPointInOrder ==
    ASSUME NEW w, NEW k \in Key, NEW point \in Write,
           point.op \in {"set_interface_key", "set_key"}, point.value = k,
           Start(w, StoreThenPoint(k, point), {k})
    PROVE  StartsInOrder(w)
  <1> DEFINE u == InsertId("keys", k)
  <1>1. u \in Write
    BY DEF Write, IdWrite
  <1>2. u.op = "insert_id" /\ u.id = k
    BY WriteFields
  <1>3. u = InsertId("keys", k)
    OBVIOUS
  <1>4. Start(w, <<u, point>>, {k})
    BY DEF StoreThenPoint
  <1> HIDE DEF u
  <1>5. /\ Known(u, issued \cup {k}) /\ PeerSafe(u) /\ KeySafe(u, {}) /\ Gentle(u)
    BY <1>1, <1>2, StoreInOrder
  <1>6. /\ Known(point, issued \cup {k}) /\ PeerSafe(point) /\ Gentle(point)
        /\ \A stored : (\A j \in Key : u = InsertId("keys", j) => j \in stored) => KeySafe(point, stored)
    BY <1>3, PointInOrder
  <1>7. {k} \in SUBSET Ids
    BY DEF Ids
  <1> QED
    BY <1>1, <1>4, <1>5, <1>6, <1>7, TwoWrites

LEMMA PointRequestInOrder ==
    ASSUME NEW w, NEW k \in keys, NEW point \in Write, k \in Key,
           point.op \in {"set_interface_key", "set_key"}, point.value = k,
           Start(w, <<point>>, {})
    PROVE  StartsInOrder(w)
  <1>1. /\ Known(point, issued \cup {}) /\ PeerSafe(point) /\ KeySafe(point, {})
    BY PointInOrder
  <1> QED
    BY <1>1, OneWrite

LEMMA KeyRequestInOrder ==
    ASSUME TypeOK, NEW w \in Thread, KeyRequest(w)
    PROVE  StartsInOrder(w)
  <1>1. ASSUME NEW point \in Write, NEW k \in Key,
               point.op \in {"set_interface_key", "set_key"}, point.value = k,
               \/ Start(w, StoreThenPoint(k, point), {k})
               \/ k \in keys /\ Start(w, <<point>>, {})
        PROVE  StartsInOrder(w)
    BY <1>1, StoreThenPointInOrder, PointRequestInOrder
  <1>2. ASSUME NEW h \in Host, NEW n \in Network, NEW k \in Key
        PROVE  LET point == OnHost("set_interface_key", h, n, k)
               IN  point \in Write /\ point.op = "set_interface_key" /\ point.value = k
    BY WriteFields DEF Write, InterfaceWrite
  <1>3. ASSUME NEW c \in LiveClients, NEW k \in Key
        PROVE  LET point == OnClient("set_key", c, None, k)
               IN  point \in Write /\ point.op = "set_key" /\ point.value = k
    BY WriteFields DEF Write, ClientWrite, LiveClients
  <1>4. CASE \E h \in Host, n \in Network, k \in Key :
                LET point == OnHost("set_interface_key", h, n, k)
                IN  \/ Start(w, StoreThenPoint(k, point), {k})
                    \/ k \in keys /\ Start(w, <<point>>, {})
    BY <1>1, <1>2, <1>4
  <1>5. CASE \E c \in LiveClients, k \in Key :
                LET point == OnClient("set_key", c, None, k)
                IN  \/ Start(w, StoreThenPoint(k, point), {k})
                    \/ k \in keys /\ Start(w, <<point>>, {})
    BY <1>1, <1>3, <1>5
  <1>6. ASSUME NEW k \in Key, Start(w, <<InsertId("keys", k)>>, {k})
        PROVE  StartsInOrder(w)
    <2> DEFINE u == InsertId("keys", k)
    <2>1. u \in Write
      BY DEF Write, IdWrite
    <2>2. u.op = "insert_id" /\ u.id = k
      BY WriteFields
    <2> HIDE DEF u
    <2>3. Known(u, issued \cup {k}) /\ PeerSafe(u) /\ KeySafe(u, {})
      BY <2>1, <2>2, StoreInOrder
    <2>4. {k} \in SUBSET Ids
      BY DEF Ids
    <2> QED
      BY <1>6, <2>1, <2>3, <2>4, OneWrite DEF u
  <1>7. ASSUME NEW k \in keys, ~KeyUsed(k), Start(w, <<DeleteId("keys", k)>>, {})
        PROVE  StartsInOrder(w)
    <2> DEFINE u == DeleteId("keys", k)
    <2>1. u \in Write
      BY DEF Write, IdWrite, TypeOK
    <2>2. u.op = "delete_id" /\ u.id = k
      BY WriteFields
    <2> HIDE DEF u
    <2>3. Known(u, issued \cup {}) /\ PeerSafe(u) /\ KeySafe(u, {})
      BY <1>7, <2>2 DEF Known, PeerSafe, KeySafe
    <2> QED
      BY <1>7, <2>1, <2>3, OneWrite DEF u
  <1>8. CASE \E k \in Key : Start(w, <<InsertId("keys", k)>>, {k})
    BY <1>6, <1>8
  <1>9. CASE \E k \in keys : ~KeyUsed(k) /\ Start(w, <<DeleteId("keys", k)>>, {})
    BY <1>7, <1>9
  <1> QED
    BY <1>4, <1>5, <1>8, <1>9
       DEF KeyRequest, InterfaceKeyRequest, ClientKeyRequest, StoredKeyRequest

\* The requests that only write an id.
LEMMA PresetRequestInOrder ==
    ASSUME TypeOK, NEW w \in Thread, PresetRequest(w)
    PROVE  StartsInOrder(w)
  <1>1. ASSUME NEW u \in Write, NEW id \in Ids, u.op = "insert_id", u.id = id, Start(w, <<u>>, {id})
        PROVE  StartsInOrder(w)
    <2>1. Known(u, issued \cup {id}) /\ PeerSafe(u) /\ KeySafe(u, {})
      BY <1>1, StoreInOrder
    <2> QED
      BY <1>1, <2>1, OneWrite
  <1>2. ASSUME NEW u \in Write, u.op = "delete_id", u.coll # "keys", Start(w, <<u>>, {})
        PROVE  StartsInOrder(w)
    <2>1. Known(u, issued \cup {}) /\ PeerSafe(u) /\ KeySafe(u, {})
      BY <1>2 DEF Known, PeerSafe, KeySafe
    <2> QED
      BY <1>2, <2>1, OneWrite
  <1>3. ASSUME NEW d \in DnsServer
        PROVE  /\ d \in Ids /\ InsertId("dnsServers", d) \in Write /\ DeleteId("dnsServers", d) \in Write
    BY DEF Ids, Write, IdWrite
  <1>4. ASSUME NEW a \in AllowedIpsSet
        PROVE  /\ a \in Ids /\ InsertId("allowedIps", a) \in Write /\ DeleteId("allowedIps", a) \in Write
    BY DEF Ids, Write, IdWrite
  <1>5. CASE \E d \in DnsServer : Start(w, <<InsertId("dnsServers", d)>>, {d})
    BY <1>1, <1>3, <1>5, WriteFields
  <1>6. CASE \E d \in dnsServers : Start(w, <<DeleteId("dnsServers", d)>>, {})
    BY <1>2, <1>3, <1>6, WriteFields DEF TypeOK
  <1>7. CASE \E a \in AllowedIpsSet : Start(w, <<InsertId("allowedIps", a)>>, {a})
    BY <1>1, <1>4, <1>7, WriteFields
  <1>8. CASE \E a \in allowedIps : Start(w, <<DeleteId("allowedIps", a)>>, {})
    BY <1>2, <1>4, <1>8, WriteFields DEF TypeOK
  <1> QED
    BY <1>5, <1>6, <1>7, <1>8 DEF PresetRequest, DnsServerRequest, AllowedIpsRequest

LEMMA OneAndTwo ==
    ASSUME NEW x, NEW y, NEW z
    PROVE  <<x>> \o <<y, z>> = <<x, y, z>>
  <1> DEFINE S == {x, y, z}  s == <<x>>  t == <<y, z>>  r == <<x, y, z>>
  <1>1. /\ s \in Seq(S) /\ Len(s) = 1 /\ s[1] = x
        /\ t \in Seq(S) /\ Len(t) = 2 /\ t[1] = y /\ t[2] = z
        /\ r \in Seq(S) /\ Len(r) = 3 /\ r[1] = x /\ r[2] = y /\ r[3] = z
    OBVIOUS
  <1> HIDE DEF S, s, t, r
  <1>2. /\ s \o t \in Seq(S) /\ Len(s \o t) = 3
        /\ (s \o t)[1] = x /\ (s \o t)[2] = y /\ (s \o t)[3] = z
    <2>1. /\ s \o t \in Seq(S) /\ Len(s \o t) = Len(s) + Len(t)
          /\ \A i \in 1 .. Len(s) + Len(t) :
                (s \o t)[i] = IF i <= Len(s) THEN s[i] ELSE t[i - Len(s)]
      BY <1>1, ConcatProperties, Zenon
    <2>2. \A i \in 1 .. 3 : (s \o t)[i] = IF i <= 1 THEN s[i] ELSE t[i - 1]
      BY <1>1, <2>1
    <2> QED
      BY <1>1, <2>1, <2>2
  <1>3. s \o t = r
    BY <1>1, <1>2, SeqEqual
  <1> QED
    BY <1>3 DEF s, t, r

LEMMA CreateClientRequestInOrder ==
    ASSUME TypeOK, NEW w \in Thread, NEW c \in Client, NEW d \in DnsServer \cup {None},
           NEW k \in Key, CreateClientRequest(w, c, d, k)
    PROVE  StartsInOrder(w)
  <1> DEFINE insert == Insert("clients", c, NewClient(d))
             store == InsertId("keys", k)
             point == OnClient("set_key", c, None, k)
  <1>1. insert \in Write /\ store \in Write /\ point \in Write
    BY DEF Write, ClientWrite, IdWrite
  <1>2. /\ insert.op = "insert" /\ insert.coll = "clients" /\ insert.id = c
        /\ store.op = "insert_id" /\ store.id = k
        /\ point.op = "set_key" /\ point.value = k
    BY WriteFields
  <1>3. \/ Start(w, <<insert, store, point>>, {c, k})
        \/ k \in keys /\ Start(w, <<insert, point>>, {c})
    <2>1. <<insert>> \o <<store, point>> = <<insert, store, point>>
      BY OneAndTwo
    <2>2. \/ Start(w, <<insert>> \o <<store, point>>, {c, k})
          \/ k \in keys /\ Start(w, <<insert, point>>, {c})
      BY DEF CreateClientRequest, StoreThenPoint
    <2> HIDE DEF insert, store, point
    <2> QED
      BY <2>1, <2>2
  <1>4. store = InsertId("keys", k)
    OBVIOUS
  <1> HIDE DEF insert, store, point
  <1>5. /\ PeerSafe(insert) /\ Gentle(insert) /\ \A ids : c \in ids => Known(insert, ids)
        /\ \A stored : KeySafe(insert, stored)
    BY <1>2 DEF PeerSafe, Gentle, Known, KeySafe
  <1>6. /\ PeerSafe(store) /\ Gentle(store) /\ Known(store, issued \cup {c, k}) /\ KeySafe(store, {})
    BY <1>1, <1>2, StoreInOrder
  <1>7. /\ PeerSafe(point) /\ Gentle(point) /\ \A ids : Known(point, ids)
        /\ \A stored : k \in keys \cup stored => KeySafe(point, stored)
    BY <1>1, <1>2, PointInOrder
  <1>8. {c, k} \in SUBSET Ids /\ {c} \in SUBSET Ids
    BY DEF Ids
  <1>9. CASE Start(w, <<insert, store, point>>, {c, k})
    <2>1. \A stored : (\A j \in Key : store = InsertId("keys", j) => j \in stored) =>
              KeySafe(point, stored)
      BY <1>4, <1>7
    <2>2. Known(insert, issued \cup {c, k}) /\ Known(point, issued \cup {c, k}) /\ KeySafe(insert, {})
      BY <1>5, <1>7
    <2> QED
      BY <1>1, <1>5, <1>6, <1>7, <1>8, <1>9, <2>1, <2>2, ThreeWrites
  <1>10. CASE k \in keys /\ Start(w, <<insert, point>>, {c})
    <2>1. \A stored : KeySafe(point, stored)
      BY <1>7, <1>10
    <2>2. Known(insert, issued \cup {c}) /\ Known(point, issued \cup {c}) /\ KeySafe(insert, {})
      BY <1>5, <1>7
    <2> QED
      BY <1>1, <1>5, <1>7, <1>8, <1>10, <2>1, <2>2, TwoWrites
  <1> QED
    BY <1>3, <1>9, <1>10

\* The requests that make one update of a client, or delete it.
LEMMA ClientRequestInOrder ==
    ASSUME TypeOK, NEW w \in Thread, ClientRequest(w)
    PROVE  StartsInOrder(w)
  <1>1. ASSUME NEW u \in Write, Start(w, <<u>>, {}),
               \/ u.op \in {"set_dns", "push_membership", "pull_membership", "push_connection",
                            "set_connections"}
               \/ u.op = "delete" /\ u.coll = "clients"
        PROVE  StartsInOrder(w)
    <2>1. Known(u, issued \cup {}) /\ PeerSafe(u) /\ KeySafe(u, {})
      BY <1>1 DEF Known, PeerSafe, KeySafe
    <2> QED
      BY <1>1, <2>1, OneWrite
  <1>2. DnsChoice \subseteq DnsServer \cup {None}
    BY DEF DnsChoice, TypeOK
  <1>3. CASE \E c \in Client, d \in DnsChoice, k \in Key : CreateClientRequest(w, c, d, k)
    BY <1>2, <1>3, CreateClientRequestInOrder
  <1>4. ASSUME NEW c \in LiveClients
        PROVE  /\ Delete("clients", c) \in Write
               /\ \A d \in DnsChoice : OnClient("set_dns", c, None, d) \in Write
               /\ \A xs \in SUBSET Connection : OnClient("set_connections", c, None, xs) \in Write
               /\ \A n \in Network :
                     /\ \A ip \in Address : OnClient("push_membership", c, n, ip) \in Write
                     /\ OnClient("pull_membership", c, n, None) \in Write
                     /\ \A x \in Connection : OnClient("push_connection", c, n, x) \in Write
    <2>1. c \in Client
      BY DEF LiveClients
    <2>2. Delete("clients", c) \in Write /\ \A d \in DnsChoice : OnClient("set_dns", c, None, d) \in Write
      BY <1>2, <2>1 DEF Write, ClientWrite
    <2>3. \A xs \in SUBSET Connection : OnClient("set_connections", c, None, xs) \in Write
      BY <2>1 DEF Write, LinkWrite
    <2>4. ASSUME NEW n \in Network
          PROVE  /\ \A ip \in Address : OnClient("push_membership", c, n, ip) \in Write
                 /\ OnClient("pull_membership", c, n, None) \in Write
                 /\ \A x \in Connection : OnClient("push_connection", c, n, x) \in Write
      BY <2>1 DEF Write, LinkWrite
    <2> QED
      BY <2>2, <2>3, <2>4
  <1>5. ASSUME NEW c \in LiveClients, Start(w, <<Delete("clients", c)>>, {})
        PROVE  StartsInOrder(w)
    BY <1>1, <1>4, <1>5, WriteFields
  <1>6. ASSUME NEW c \in LiveClients, NEW d \in DnsChoice,
               Start(w, <<OnClient("set_dns", c, None, d)>>, {})
        PROVE  StartsInOrder(w)
    BY <1>1, <1>4, <1>6, WriteFields
  <1>7. ASSUME NEW c \in LiveClients, NEW n \in Network, NEW ip \in Address,
               Start(w, <<OnClient("push_membership", c, n, ip)>>, {})
        PROVE  StartsInOrder(w)
    BY <1>1, <1>4, <1>7, WriteFields
  <1>8. ASSUME NEW c \in LiveClients, NEW n \in Network,
               Start(w, <<OnClient("pull_membership", c, n, None)>>, {})
        PROVE  StartsInOrder(w)
    BY <1>1, <1>4, <1>8, WriteFields
  <1>9. ASSUME NEW c \in LiveClients, NEW n \in Network, NEW h \in Host, NEW a \in AllowedIpsSet,
               Start(w, <<OnClient("push_connection", c, n, NewConnection(h, n, a))>>, {})
        PROVE  StartsInOrder(w)
    <2>1. NewConnection(h, n, a) \in Connection
      BY NewDocs
    <2> QED
      BY <1>1, <1>4, <1>9, <2>1, WriteFields
  <1>10. ASSUME NEW c \in LiveClients, NEW x,
                Start(w, <<OnClient("set_connections", c, None, clients[c].connections \ {x})>>, {})
         PROVE  StartsInOrder(w)
    <2>1. clients[c].connections \ {x} \in SUBSET Connection
      BY LiveDocs
    <2> QED
      BY <1>1, <1>4, <1>10, <2>1, WriteFields
  <1> QED
    BY <1>3, <1>5, <1>6, <1>7, <1>8, <1>9, <1>10 DEF ClientRequest

LEMMA BeginInOrder ==
    ASSUME TypeOK, NEW w \in Thread, Begin(w)
    PROVE  /\ StartsInOrder(w)
           /\ UNCHANGED <<networks, hosts, clients, keys, dnsServers, allowedIps>>
  BY NetworkRequestInOrder, HostRequestInOrder, PeerRequestInOrder, KeyRequestInOrder,
     ClientRequestInOrder, PresetRequestInOrder DEF Begin

-----------------------------------------------------------------------------
(* Type correctness, whatever the threads do. *)

LEMMA BeginTypeOK ==
    ASSUME TypeOK, PendingOK, NEW w \in Thread, Begin(w)
    PROVE  TypeOK' /\ PendingOK'
  <1>1. PICK ws \in Seq(Write), new \in SUBSET Ids :
           /\ Start(w, ws, new)
           /\ Len(ws) <= 3 /\ \A i \in DOMAIN ws : Known(ws[i], issued \cup new)
    BY BeginInOrder DEF StartsInOrder
  <1>2. /\ UNCHANGED <<networks, hosts, clients, keys, dnsServers, allowedIps>>
        /\ issued' = issued \cup new /\ pending' = [pending EXCEPT ![w] = ws]
    BY <1>1, BeginInOrder DEF Start
  <1>3. TypeOK'
    BY <1>2 DEF TypeOK, LiveNetworks, LiveHosts, LiveClients
  <1>4. PendingOK'
    <2>1. \A v \in Thread : pending'[v] = IF v = w THEN ws ELSE pending[v]
      BY <1>2 DEF PendingOK
    <2>2. pending' \in [Thread -> Seq(Write)]
      BY <1>2 DEF PendingOK
    <2>3. \A u : Known(u, issued) => Known(u, issued')
      BY <1>2 DEF Known
    <2> QED
      BY <1>1, <1>2, <2>1, <2>2, <2>3 DEF PendingOK
  <1> QED
    BY <1>3, <1>4

\* Sending a write changes one collection, which it keeps well typed.
LEMMA SendTypeOK ==
    ASSUME TypeOK, PendingOK, NEW w \in Thread, Send(w)
    PROVE  TypeOK' /\ PendingOK'
  <1>1. PICK u \in Write :
           /\ Known(u, issued)
           /\ networks' = IF u.coll = "networks" THEN Written(networks, u) ELSE networks
           /\ hosts' = IF u.coll = "hosts" THEN Written(hosts, u) ELSE hosts
           /\ clients' = IF u.coll = "clients" THEN Written(clients, u) ELSE clients
           /\ keys' = IF u.coll = "keys" THEN Written(keys, u) ELSE keys
           /\ dnsServers' = IF u.coll = "dnsServers" THEN Written(dnsServers, u) ELSE dnsServers
           /\ allowedIps' = IF u.coll = "allowedIps" THEN Written(allowedIps, u) ELSE allowedIps
           /\ issued' = issued
           /\ Tail(pending[w]) \in Seq(Write) /\ Len(Tail(pending[w])) <= 3
           /\ \A i \in DOMAIN Tail(pending[w]) :
                 i + 1 \in DOMAIN pending[w] /\ Tail(pending[w])[i] = pending[w][i + 1]
           /\ pending' = [pending EXCEPT ![w] = Tail(pending[w])]
    BY SendEffect
  <1>2. PendingOK'
    <2>1. \A v \in Thread : pending'[v] = IF v = w THEN Tail(pending[w]) ELSE pending[v]
      BY <1>1 DEF PendingOK
    <2>2. pending' \in [Thread -> Seq(Write)]
      BY <1>1 DEF PendingOK
    <2> QED
      BY <1>1, <2>1, <2>2 DEF PendingOK
  <1>3. CASE u \in NetworkWrite
    <2>1. networks \in [Network -> NetworkDoc \cup {None}]
      BY DEF TypeOK
    <2>2. /\ u.coll = "networks" /\ networks' \in [Network -> NetworkDoc \cup {None}]
          /\ LiveNetworks' \subseteq LiveNetworks \cup issued
      BY <1>1, <1>3, <2>1, NetworkWritesTyped DEF LiveNetworks, Known
    <2>3. UNCHANGED <<hosts, clients, keys, dnsServers, allowedIps, issued>>
      BY <1>1, <2>2
    <2> QED
      BY <1>2, <2>2, <2>3 DEF TypeOK, LiveHosts, LiveClients
  <1>4. CASE u \in HostWrite \cup InterfaceWrite
    <2>1. hosts \in HostDocs
      BY LiveDocs
    <2>2. /\ u.coll = "hosts" /\ hosts' \in HostDocs /\ LiveHosts' \subseteq LiveHosts \cup issued
      BY <1>1, <1>4, <2>1, HostWritesTyped DEF LiveHosts, Known
    <2>3. UNCHANGED <<networks, clients, keys, dnsServers, allowedIps, issued>>
      BY <1>1, <2>2
    <2> QED
      BY <1>2, <2>2, <2>3 DEF TypeOK, LiveNetworks, LiveClients, HostDocs
  <1>5. CASE u \in ClientWrite \cup LinkWrite
    <2>1. clients \in ClientDocs
      BY LiveDocs
    <2>2. /\ u.coll = "clients" /\ clients' \in ClientDocs /\ LiveClients' \subseteq LiveClients \cup issued
      BY <1>1, <1>5, <2>1, ClientWritesTyped DEF LiveClients, Known
    <2>3. UNCHANGED <<networks, hosts, keys, dnsServers, allowedIps, issued>>
      BY <1>1, <2>2
    <2> QED
      BY <1>2, <2>2, <2>3 DEF TypeOK, LiveNetworks, LiveHosts, ClientDocs
  <1>6. CASE u \in IdWrite
    <2>1. \A ids : Written(ids, u) \subseteq ids \cup (issued \cap {u.id})
      <3>1. ASSUME NEW ids
            PROVE  (u.op = "insert_id" /\ Written(ids, u) = ids \cup {u.id}) \/ Written(ids, u) = ids \ {u.id}
        BY <1>6, IdWritesTyped
      <3>2. u.op = "insert_id" => u.id \in issued
        BY <1>1 DEF Known
      <3> QED
        BY <3>1, <3>2
    <2>2. \/ u.coll = "keys" /\ u.id \in Key
          \/ u.coll = "dnsServers" /\ u.id \in DnsServer
          \/ u.coll = "allowedIps" /\ u.id \in AllowedIpsSet
      BY <1>6, IdWritesTyped
    <2>3. /\ UNCHANGED <<networks, hosts, clients, issued>>
          /\ keys' \subseteq Key /\ dnsServers' \subseteq DnsServer /\ allowedIps' \subseteq AllowedIpsSet
          /\ keys' \cup dnsServers' \cup allowedIps' \subseteq issued
      BY <1>1, <2>2, <2>1 DEF TypeOK
    <2> QED
      BY <1>2, <2>3 DEF TypeOK, LiveNetworks, LiveHosts, LiveClients
  <1> QED
    BY <1>3, <1>4, <1>5, <1>6 DEF Write

LEMMA RequestsInitTypeOK == RequestsInit => TypeOK /\ PendingOK
  <1> SUFFICES ASSUME RequestsInit
               PROVE  TypeOK /\ PendingOK
    OBVIOUS
  <1>1. TypeOK
    BY DEF RequestsInit, TypeOK, LiveNetworks, LiveHosts, LiveClients
  <1>2. PendingOK
    BY DEF RequestsInit, PendingOK
  <1> QED
    BY <1>1, <1>2

LEMMA RequestsNextTypeOK ==
    ASSUME TypeOK, PendingOK, [RequestsNext]_rvars
    PROVE  TypeOK' /\ PendingOK'
  <1>1. ASSUME NEW w \in Thread, Kill(w)
        PROVE  TypeOK' /\ PendingOK'
    <2>1. TypeOK'
      BY <1>1 DEF Kill, vars, TypeOK, LiveNetworks, LiveHosts, LiveClients
    <2>2. PendingOK'
      BY <1>1 DEF Kill, vars, PendingOK
    <2> QED
      BY <2>1, <2>2
  <1>2. CASE UNCHANGED rvars
    BY <1>2 DEF rvars, vars, TypeOK, LiveNetworks, LiveHosts, LiveClients, PendingOK
  <1> QED
    BY <1>1, <1>2, BeginTypeOK, SendTypeOK DEF RequestsNext

\* However the threads interleave and wherever a worker is killed, each document
\* keeps the shape the handlers give it and carries an ObjectId that was handed out.
THEOREM RequestsTypeCorrect == RequestsSpec => []TypeOK
  <1>1. RequestsSpec => [](TypeOK /\ PendingOK)
    BY RequestsInitTypeOK, RequestsNextTypeOK, PTL DEF RequestsSpec
  <1> QED
    BY <1>1, PTL

-----------------------------------------------------------------------------
(* One thread at a time, with workers killed half-way. *)

\* What becomes of the hosts in each write of a host.
LEMMA HostForms ==
    ASSUME NEW hs \in HostDocs, NEW u \in HostWrite \cup InterfaceWrite
    PROVE  /\ u.id \in Host /\ u.coll = "hosts"
           /\ \/ u.op = "insert" /\ Written(hs, u) = [hs EXCEPT ![u.id] = NewHost]
              \/ u.op = "delete" /\ Written(hs, u) = [hs EXCEPT ![u.id] = None]
              \/ /\ u.op = "push_interface" /\ u.value \in Interface
                 /\ InterfacesSet(hs, Written(hs, u), u.id, hs[u.id].network_memberships \cup {u.value})
              \/ /\ u.op = "set_interface" /\ u.value \in Interface
                 /\ InterfacesSet(hs, Written(hs, u), u.id, EditedIn(hs, u.id, u.network_id, u.value))
              \/ /\ u.op = "set_interface_key" /\ u.value \in Key
                 /\ InterfacesSet(hs, Written(hs, u), u.id, RekeyedIn(hs, u.id, u.network_id, u.value))
              \/ /\ u.op = "pull_interface"
                 /\ InterfacesSet(hs, Written(hs, u), u.id, Elsewhere(hs[u.id], u.network_id))
              \/ /\ u.op = "push_peer" /\ u.value \in PeerConnection
                 /\ PeersSet(hs, Written(hs, u), u.id, hs[u.id].peer_connections \cup {u.value})
              \/ /\ u.op = "pull_peer"
                 /\ PeersSet(hs, Written(hs, u), u.id, OtherPeers(hs, u.id, u.value, u.network_id))
  <1>1. CASE \E h \in Host : u = Insert("hosts", h, NewHost)
    BY <1>1, DocumentWrites, WriteFields
  <1>2. CASE \E h \in Host : u = Delete("hosts", h)
    <2>1. PICK h \in Host : u = Delete("hosts", h)
      BY <1>2
    <2>2. u.op = "delete" /\ u.coll = "hosts" /\ u.id = h
      BY <2>1, WriteFields
    <2>3. Written(hs, u) = [hs EXCEPT ![h] = None]
      BY <2>1, DocumentWrites
    <2> QED
      BY <2>2, <2>3
  <1>3. ASSUME NEW h \in Host, NEW n \in Network, NEW op, NEW v, u = OnHost(op, h, n, v)
        PROVE  u.op = op /\ u.coll = "hosts" /\ u.id = h /\ u.network_id = n /\ u.value = v
    BY <1>3, WriteFields
  <1>4. CASE \E h \in Host, n \in Network, m \in Interface : u = OnHost("push_interface", h, n, m)
    BY <1>3, <1>4, HostUpdates, InterfaceUpdates
  <1>5. CASE \E h \in Host, n \in Network, m \in Interface : u = OnHost("set_interface", h, n, m)
    BY <1>3, <1>5, HostUpdates, InterfaceUpdates
  <1>6. CASE \E h \in Host, n \in Network, k \in Key : u = OnHost("set_interface_key", h, n, k)
    BY <1>3, <1>6, HostUpdates, InterfaceUpdates
  <1>7. CASE \E h \in Host, n \in Network : u = OnHost("pull_interface", h, n, None)
    BY <1>3, <1>7, HostUpdates, InterfaceUpdates
  <1>8. CASE \E h \in Host, n \in Network, x \in PeerConnection : u = OnHost("push_peer", h, n, x)
    BY <1>3, <1>8, HostUpdates, PeerUpdates
  <1>9. CASE \E h \in Host, n \in Network, p \in Host : u = OnHost("pull_peer", h, n, p)
    BY <1>3, <1>9, HostUpdates, PeerUpdates
  <1> QED
    BY <1>1, <1>4, <1>5, <1>6, <1>7, <1>8, <1>9, <1>2 DEF HostWrite, InterfaceWrite

\* The networks on which an interface write leaves h an interface.
LEMMA StillMember ==
    ASSUME NEW hs \in HostDocs, NEW h \in Host, hs[h] # None, NEW n, NEW doc
    PROVE  /\ \A m : doc.network_memberships = hs[h].network_memberships \cup {m} =>
                        (MemberOf(hs[h], n) => MemberOf(doc, n))
           /\ \A n0 : \A new \in Interface :
                 doc.network_memberships = EditedIn(hs, h, n0, new) /\ (n # n0 \/ new.network_id = n0) =>
                        (MemberOf(hs[h], n) => MemberOf(doc, n))
           /\ \A n0, k : doc.network_memberships = RekeyedIn(hs, h, n0, k) =>
                        (MemberOf(hs[h], n) => MemberOf(doc, n))
           /\ \A n0 : doc.network_memberships = Elsewhere(hs[h], n0) /\ n # n0 =>
                        (MemberOf(hs[h], n) => MemberOf(doc, n))
  <1>1. \A m \in hs[h].network_memberships : m \in Interface
    BY HostWrites
  <1>2. ASSUME NEW m, doc.network_memberships = hs[h].network_memberships \cup {m}, MemberOf(hs[h], n)
        PROVE  MemberOf(doc, n)
    BY <1>2 DEF MemberOf
  <1>3. ASSUME NEW n0, NEW new \in Interface, doc.network_memberships = EditedIn(hs, h, n0, new),
               n # n0 \/ new.network_id = n0, MemberOf(hs[h], n)
        PROVE  MemberOf(doc, n)
    <2>1. PICK m \in hs[h].network_memberships : m.network_id = n
      BY <1>3 DEF MemberOf
    <2> DEFINE o == IF m.network_id = n0 THEN [new EXCEPT !.active_key_id = m.active_key_id] ELSE m
    <2>2. o \in doc.network_memberships
      BY <1>3 DEF EditedIn
    <2>3. [new EXCEPT !.active_key_id = m.active_key_id].network_id = new.network_id
      BY DEF Interface
    <2>4. o.network_id = n
      BY <1>3, <2>1, <2>3
    <2> QED
      BY <2>2, <2>4 DEF MemberOf
  <1>4. ASSUME NEW n0, NEW k, doc.network_memberships = RekeyedIn(hs, h, n0, k), MemberOf(hs[h], n)
        PROVE  MemberOf(doc, n)
    <2>1. PICK m \in hs[h].network_memberships : m.network_id = n
      BY <1>4 DEF MemberOf
    <2> DEFINE o == IF m.network_id = n0 THEN [m EXCEPT !.active_key_id = k] ELSE m
    <2>2. o \in doc.network_memberships
      BY <1>4 DEF RekeyedIn
    <2>3. m \in Interface
      BY <1>1
    <2>4. [m EXCEPT !.active_key_id = k].network_id = m.network_id
      BY <2>3 DEF Interface
    <2>5. o.network_id = n
      BY <2>1, <2>4
    <2> QED
      BY <2>2, <2>5 DEF MemberOf
  <1>5. ASSUME NEW n0, doc.network_memberships = Elsewhere(hs[h], n0), n # n0, MemberOf(hs[h], n)
        PROVE  MemberOf(doc, n)
    BY <1>5 DEF MemberOf, Elsewhere
  <1> QED
    BY <1>2, <1>3, <1>4, <1>5

\* A write keeps PeerSidesHold if it deletes no host that is named and leaves every
\* peer connection that stays, or comes, on an interface of its own host.
LEMMA HostWriteKeepsSides ==
    ASSUME TypeOK, PeerSidesHold, NEW u \in HostWrite \cup InterfaceWrite, PeerSafe(u),
           hosts' = Written(hosts, u)
    PROVE  PeerSidesHold'
  <1>1. hosts \in HostDocs
    BY LiveDocs
  <1> DEFINE h == u.id
  <1>2. CASE u.op = "insert" /\ hosts' = [hosts EXCEPT ![h] = NewHost]
    <2>1. NewHost.peer_connections = {}
      BY DEF NewHost
    <2>2. LiveHosts \subseteq LiveHosts'
      BY <1>1, <1>2, NewDocs, NoneAssumption DEF LiveHosts, HostDocs
    <2>3. ASSUME NEW g \in LiveHosts', NEW x \in hosts'[g].peer_connections
          PROVE  x.peer_host_id \in LiveHosts' /\ MemberOf(hosts'[g], x.network_id)
      <3>1. g # h /\ g \in LiveHosts /\ hosts'[g] = hosts[g]
        BY <1>1, <1>2, <2>1, <2>3 DEF LiveHosts, HostDocs
      <3> QED
        BY <2>2, <2>3, <3>1 DEF PeerSidesHold
    <2> QED
      BY <2>3 DEF PeerSidesHold
  <1>3. CASE u.op = "delete" /\ u.coll = "hosts" /\ hosts' = [hosts EXCEPT ![h] = None]
    <2>1. LiveHosts' = LiveHosts \ {h} /\ \A g \in LiveHosts' : hosts'[g] = hosts[g]
      BY <1>1, <1>3 DEF LiveHosts, HostDocs
    <2>2. \A g \in LiveHosts : \A x \in hosts[g].peer_connections : x.peer_host_id # h
      BY <1>3 DEF PeerSafe
    <2> QED
      BY <2>1, <2>2 DEF PeerSidesHold
  <1>4. ASSUME hosts[h] = None,
               \/ \E ms : InterfacesSet(hosts, hosts', h, ms)
               \/ \E ps : PeersSet(hosts, hosts', h, ps)
        PROVE  PeerSidesHold'
    <2>1. LiveHosts' = LiveHosts /\ \A g \in LiveHosts : hosts'[g] = hosts[g]
      BY <1>1, <1>4 DEF InterfacesSet, PeersSet, LiveHosts
    <2> QED
      BY <2>1 DEF PeerSidesHold
  <1>5. ASSUME NEW ms, InterfacesSet(hosts, hosts', h, ms), h \in LiveHosts,
               \A n : PeersOn(h, n) /\ MemberOf(hosts[h], n) => MemberOf(hosts'[h], n)
        PROVE  PeerSidesHold'
    <2>1. LiveHosts' = LiveHosts /\ \A g \in LiveHosts \ {h} : hosts'[g] = hosts[g]
      BY <1>5 DEF InterfacesSet, LiveHosts
    <2>2. hosts'[h].peer_connections = hosts[h].peer_connections
      BY <1>5 DEF InterfacesSet, LiveHosts
    <2>3. ASSUME NEW x \in hosts'[h].peer_connections
          PROVE  x.peer_host_id \in LiveHosts /\ MemberOf(hosts'[h], x.network_id)
      BY <1>5, <2>2 DEF PeerSidesHold, PeersOn
    <2> QED
      BY <2>1, <2>3 DEF PeerSidesHold
  <1>6. ASSUME NEW ps, PeersSet(hosts, hosts', h, ps), h \in LiveHosts,
               \A x \in ps : x.peer_host_id \in LiveHosts /\ MemberOf(hosts[h], x.network_id)
        PROVE  PeerSidesHold'
    <2>1. LiveHosts' = LiveHosts /\ \A g \in LiveHosts \ {h} : hosts'[g] = hosts[g]
      BY <1>6 DEF PeersSet, LiveHosts
    <2>2. /\ hosts'[h].peer_connections = ps
          /\ hosts'[h].network_memberships = hosts[h].network_memberships
      BY <1>6 DEF PeersSet, LiveHosts
    <2>3. \A n : MemberOf(hosts[h], n) => MemberOf(hosts'[h], n)
      BY <2>2 DEF MemberOf
    <2> QED
      BY <1>6, <2>1, <2>2, <2>3 DEF PeerSidesHold
  <1>7. CASE h \in LiveHosts
    <2>1. h \in Host /\ hosts[h] # None
      BY <1>7 DEF LiveHosts
    <2>2. CASE /\ u.op = "push_interface"
               /\ InterfacesSet(hosts, hosts', h, hosts[h].network_memberships \cup {u.value})
      <3>1. hosts'[h].network_memberships = hosts[h].network_memberships \cup {u.value}
        BY <2>1, <2>2 DEF InterfacesSet
      <3>2. \A n : MemberOf(hosts[h], n) => MemberOf(hosts'[h], n)
        BY <3>1 DEF MemberOf
      <3> QED
        BY <1>5, <1>7, <2>2, <3>2
    <2>3. CASE /\ u.op = "set_interface" /\ u.value \in Interface
               /\ InterfacesSet(hosts, hosts', h, EditedIn(hosts, h, u.network_id, u.value))
      <3>1. hosts'[h].network_memberships = EditedIn(hosts, h, u.network_id, u.value)
        BY <2>1, <2>3 DEF InterfacesSet
      <3>2. u.value.network_id = u.network_id \/ ~PeersOn(h, u.network_id)
        BY <2>3 DEF PeerSafe
      <3>3. \A n : PeersOn(h, n) /\ MemberOf(hosts[h], n) => MemberOf(hosts'[h], n)
        BY <1>1, <2>1, <2>3, <3>1, <3>2, StillMember
      <3> QED
        BY <1>5, <1>7, <2>3, <3>3
    <2>4. CASE InterfacesSet(hosts, hosts', h, RekeyedIn(hosts, h, u.network_id, u.value))
      <3>1. hosts'[h].network_memberships = RekeyedIn(hosts, h, u.network_id, u.value)
        BY <2>1, <2>4 DEF InterfacesSet
      <3>2. \A n : MemberOf(hosts[h], n) => MemberOf(hosts'[h], n)
        BY <1>1, <2>1, <3>1, StillMember
      <3> QED
        BY <1>5, <1>7, <2>4, <3>2
    <2>5. CASE /\ u.op = "pull_interface"
               /\ InterfacesSet(hosts, hosts', h, Elsewhere(hosts[h], u.network_id))
      <3>1. hosts'[h].network_memberships = Elsewhere(hosts[h], u.network_id)
        BY <2>1, <2>5 DEF InterfacesSet
      <3>2. ~PeersOn(h, u.network_id)
        BY <2>5 DEF PeerSafe
      <3>3. \A n : PeersOn(h, n) /\ MemberOf(hosts[h], n) => MemberOf(hosts'[h], n)
        BY <1>1, <2>1, <3>1, <3>2, StillMember
      <3> QED
        BY <1>5, <1>7, <2>5, <3>3
    <2>6. CASE /\ u.op = "push_peer"
               /\ PeersSet(hosts, hosts', h, hosts[h].peer_connections \cup {u.value})
      <3>1. u.value.peer_host_id \in LiveHosts /\ MemberOf(hosts[h], u.value.network_id)
        BY <2>6 DEF PeerSafe
      <3>2. \A x \in hosts[h].peer_connections \cup {u.value} :
               x.peer_host_id \in LiveHosts /\ MemberOf(hosts[h], x.network_id)
        BY <1>7, <3>1 DEF PeerSidesHold
      <3> QED
        BY <1>6, <1>7, <2>6, <3>2
    <2>7. CASE PeersSet(hosts, hosts', h, OtherPeers(hosts, h, u.value, u.network_id))
      <3>1. \A x \in OtherPeers(hosts, h, u.value, u.network_id) :
               x.peer_host_id \in LiveHosts /\ MemberOf(hosts[h], x.network_id)
        BY <1>7 DEF PeerSidesHold, OtherPeers
      <3> QED
        BY <1>6, <1>7, <2>7, <3>1
    <2> HIDE DEF h
    <2> QED
      BY <1>1, <1>2, <1>3, <2>2, <2>3, <2>4, <2>5, <2>6, <2>7, HostForms DEF h
  <1>8. CASE h \notin LiveHosts
    <2>1. h \in Host /\ hosts[h] = None
      BY <1>1, <1>8, HostForms DEF LiveHosts
    <2> QED
      BY <1>1, <1>2, <1>3, <1>4, <2>1, HostForms
  <1> QED
    BY <1>7, <1>8

\* No write of a host but set_interface_key gives an interface a key it had not.
LEMMA HostWriteKeys ==
    ASSUME NEW hs \in HostDocs, NEW u \in HostWrite \cup InterfaceWrite, KeySafe(u, {}),
           NEW g \in Host, Written(hs, u)[g] # None,
           NEW o \in Written(hs, u)[g].network_memberships
    PROVE  \/ o.active_key_id \in keys \cup {None}
           \/ hs[g] # None /\ \E m \in hs[g].network_memberships : m.active_key_id = o.active_key_id
  <1> DEFINE new == Written(hs, u)
  <1>1. CASE u.op = "insert" /\ new = [hs EXCEPT ![u.id] = NewHost]
    <2>1. CASE g = u.id
      BY <1>1, <2>1 DEF NewHost, HostDocs
    <2>2. CASE g # u.id
      BY <1>1, <2>2 DEF HostDocs
    <2> QED
      BY <2>1, <2>2
  <1>2. CASE u.op = "delete" /\ new = [hs EXCEPT ![u.id] = None]
    BY <1>2 DEF HostDocs
  <1>3. ASSUME \/ \E ps : PeersSet(hs, new, u.id, ps)
               \/ g # u.id /\ \E ms : InterfacesSet(hs, new, u.id, ms)
        PROVE  hs[g] # None /\ new[g].network_memberships = hs[g].network_memberships
    BY <1>3 DEF PeersSet, InterfacesSet
  <1>4. ASSUME g = u.id, NEW ms, InterfacesSet(hs, new, u.id, ms)
        PROVE  hs[g] # None /\ o \in ms /\ hs[g].network_memberships \in SUBSET Interface
    <2>1. hs[g] # None
      BY <1>4 DEF InterfacesSet
    <2> QED
      BY <1>4, <2>1, HostWrites DEF InterfacesSet
  <1>5. CASE g = u.id /\ u.op = "push_interface" /\
             InterfacesSet(hs, new, u.id, hs[u.id].network_memberships \cup {u.value})
    BY <1>4, <1>5 DEF KeySafe
  <1>6. CASE /\ g = u.id /\ u.value \in Interface
             /\ InterfacesSet(hs, new, u.id, EditedIn(hs, u.id, u.network_id, u.value))
    <2>1. /\ hs[g] # None /\ o \in EditedIn(hs, g, u.network_id, u.value)
          /\ hs[g].network_memberships \in SUBSET Interface
      BY <1>4, <1>6
    <2>2. PICK m \in hs[g].network_memberships :
             o = IF m.network_id = u.network_id
                 THEN [u.value EXCEPT !.active_key_id = m.active_key_id] ELSE m
      BY <2>1 DEF EditedIn
    <2>3. [u.value EXCEPT !.active_key_id = m.active_key_id].active_key_id = m.active_key_id
      BY <1>6 DEF Interface
    <2> QED
      BY <2>1, <2>2, <2>3
  <1>7. CASE /\ g = u.id /\ u.op = "set_interface_key"
             /\ InterfacesSet(hs, new, u.id, RekeyedIn(hs, u.id, u.network_id, u.value))
    <2>1. /\ hs[g] # None /\ o \in RekeyedIn(hs, g, u.network_id, u.value)
          /\ hs[g].network_memberships \in SUBSET Interface
      BY <1>4, <1>7
    <2>2. PICK m \in hs[g].network_memberships :
             o = IF m.network_id = u.network_id THEN [m EXCEPT !.active_key_id = u.value] ELSE m
      BY <2>1 DEF RekeyedIn
    <2>3. m \in Interface
      BY <2>1
    <2>4. [m EXCEPT !.active_key_id = u.value].active_key_id = u.value
      BY <2>3 DEF Interface
    <2>5. u.value \in keys
      BY <1>7 DEF KeySafe
    <2> QED
      BY <2>1, <2>2, <2>4, <2>5
  <1>8. CASE g = u.id /\ InterfacesSet(hs, new, u.id, Elsewhere(hs[u.id], u.network_id))
    BY <1>4, <1>8 DEF Elsewhere
  <1> HIDE DEF new
  <1> QED
    BY <1>1, <1>2, <1>3, <1>5, <1>6, <1>7, <1>8, HostForms DEF new

\* No write of a client but set_key changes its key.
LEMMA ClientWriteKeys ==
    ASSUME NEW cs \in ClientDocs, NEW u \in ClientWrite \cup LinkWrite, KeySafe(u, {}),
           NEW b \in Client, Written(cs, u)[b] # None
    PROVE  \/ Written(cs, u)[b].active_key_id \in keys \cup {None}
           \/ cs[b] # None /\ Written(cs, u)[b].active_key_id = cs[b].active_key_id
  <1> DEFINE new == Written(cs, u)
  <1>1. cs[b] # None => cs[b] \in ClientDoc
    BY DEF ClientDocs
  <1>2. CASE \E c \in Client, d \in DnsServer \cup {None} : u = Insert("clients", c, NewClient(d))
    <2>1. PICK c \in Client, d \in DnsServer \cup {None} : u = Insert("clients", c, NewClient(d))
      BY <1>2
    <2>2. new = [cs EXCEPT ![c] = NewClient(d)]
      BY <2>1, DocumentWrites
    <2>3. NewClient(d).active_key_id = None
      BY DEF NewClient
    <2> QED
      BY <2>2, <2>3 DEF ClientDocs
  <1>3. CASE \E c \in Client : u = Delete("clients", c)
    <2>1. PICK c \in Client : u = Delete("clients", c)
      BY <1>3
    <2>2. new = [cs EXCEPT ![c] = None]
      BY <2>1, DocumentWrites
    <2> QED
      BY <2>2 DEF ClientDocs
  <1>4. ASSUME NEW c \in Client, NEW doc, ClientSet(cs, new, c, doc),
               cs[c] # None => doc.active_key_id \in {cs[c].active_key_id} \cup keys
        PROVE  cs[b] # None /\ new[b].active_key_id \in {cs[b].active_key_id} \cup keys
    BY <1>4 DEF ClientSet
  <1>5. CASE \E c \in Client, k \in Key : u = OnClient("set_key", c, None, k)
    <2>1. PICK c \in Client, k \in Key : u = OnClient("set_key", c, None, k)
      BY <1>5
    <2>2. ClientSet(cs, new, c, [cs[c] EXCEPT !.active_key_id = k])
      BY <2>1, ClientUpdates, ClientFieldUpdates
    <2>3. u.op = "set_key" /\ u.value = k
      BY <2>1, WriteFields
    <2>4. k \in keys
      BY <2>3 DEF KeySafe
    <2>5. cs[c] # None => [cs[c] EXCEPT !.active_key_id = k].active_key_id = k
      BY DEF ClientDocs, ClientDoc
    <2>6. cs[b] # None /\ new[b].active_key_id \in {cs[b].active_key_id} \cup keys
      BY <1>4, <2>2, <2>4, <2>5
    <2> QED
      BY <2>6
  <1> DEFINE KeyKept(n) == \A d \in Client :
                n[d] # None => cs[d] # None /\ n[d].active_key_id = cs[d].active_key_id
  <1>6. ASSUME NEW c \in Client, NEW n, NEW doc, ClientSet(cs, n, c, doc),
               cs[c] # None => doc.active_key_id = cs[c].active_key_id
        PROVE  KeyKept(n)
    BY <1>6 DEF ClientSet
  <1> HIDE DEF KeyKept
  <1>7. ASSUME NEW c \in Client, NEW d \in DnsServer \cup {None}
        PROVE  KeyKept(SetClientDns(cs, c, d))
    <2> DEFINE doc == [cs[c] EXCEPT !.dns_server_id = d]
    <2>1. ClientSet(cs, SetClientDns(cs, c, d), c, doc)
      BY ClientFieldUpdates
    <2>2. cs[c] # None => doc.active_key_id = cs[c].active_key_id
      BY DEF ClientDocs, ClientDoc
    <2> HIDE DEF doc
    <2> QED
      BY <1>6, <2>1, <2>2
  <1>8. ASSUME NEW c \in Client, NEW xs \in SUBSET Connection
        PROVE  KeyKept(SetConnections(cs, c, xs))
    <2> DEFINE doc == [cs[c] EXCEPT !.connections = xs]
    <2>1. ClientSet(cs, SetConnections(cs, c, xs), c, doc)
      BY ClientFieldUpdates
    <2>2. cs[c] # None => doc.active_key_id = cs[c].active_key_id
      BY DEF ClientDocs, ClientDoc
    <2> HIDE DEF doc
    <2> QED
      BY <1>6, <2>1, <2>2
  <1>9. ASSUME NEW c \in Client, NEW n \in Network, NEW ip \in Address
        PROVE  KeyKept(PushMembership(cs, c, n, ip))
    <2> DEFINE doc == [cs[c] EXCEPT !.network_memberships =
                            cs[c].network_memberships \cup {[network_id |-> n, ip |-> ip]}]
    <2>1. ClientSet(cs, PushMembership(cs, c, n, ip), c, doc)
      BY LinkUpdates
    <2>2. cs[c] # None => doc.active_key_id = cs[c].active_key_id
      BY DEF ClientDocs, ClientDoc
    <2> HIDE DEF doc
    <2> QED
      BY <1>6, <2>1, <2>2
  <1>10. ASSUME NEW c \in Client, NEW n \in Network
        PROVE  KeyKept(PullMembership(cs, c, n))
    <2> DEFINE doc == [cs[c] EXCEPT !.network_memberships = Elsewhere(cs[c], n)]
    <2>1. ClientSet(cs, PullMembership(cs, c, n), c, doc)
      BY LinkUpdates
    <2>2. cs[c] # None => doc.active_key_id = cs[c].active_key_id
      BY DEF ClientDocs, ClientDoc
    <2> HIDE DEF doc
    <2> QED
      BY <1>6, <2>1, <2>2
  <1>11. ASSUME NEW c \in Client, NEW n \in Network, NEW x \in Connection
        PROVE  KeyKept(PushConnection(cs, c, x))
    <2> DEFINE doc == [cs[c] EXCEPT !.connections = cs[c].connections \cup {x}]
    <2>1. ClientSet(cs, PushConnection(cs, c, x), c, doc)
      BY LinkUpdates
    <2>2. cs[c] # None => doc.active_key_id = cs[c].active_key_id
      BY DEF ClientDocs, ClientDoc
    <2> HIDE DEF doc
    <2> QED
      BY <1>6, <2>1, <2>2
  <1>12. CASE u \in LinkWrite \/ \E c \in Client, d \in DnsServer \cup {None} : u = OnClient("set_dns", c, None, d)
    <2>1. KeyKept(new)
      <3>1. CASE \E c \in Client, d \in DnsServer \cup {None} : u = OnClient("set_dns", c, None, d)
        BY <1>7, <3>1, ClientUpdates
      <3>2. CASE \E c \in Client, xs \in SUBSET Connection : u = OnClient("set_connections", c, None, xs)
        BY <1>8, <3>2, ClientUpdates
      <3>3. CASE \E c \in Client, n \in Network, ip \in Address : u = OnClient("push_membership", c, n, ip)
        BY <1>9, <3>3, ClientUpdates
      <3>4. CASE \E c \in Client, n \in Network : u = OnClient("pull_membership", c, n, None)
        BY <1>10, <3>4, ClientUpdates
      <3>5. CASE \E c \in Client, n \in Network, x \in Connection : u = OnClient("push_connection", c, n, x)
        BY <1>11, <3>5, ClientUpdates
      <3> QED
        BY <1>12, <3>1, <3>2, <3>3, <3>4, <3>5 DEF LinkWrite
    <2> QED
      BY <2>1 DEF KeyKept
  <1> QED
    BY <1>2, <1>3, <1>5, <1>12 DEF ClientWrite

\* A write of a handler that sends several takes away no host, interface or key.
LEMMA GentleTakesNothing ==
    ASSUME TypeOK, PendingOK, NEW w \in Thread, Send(w), Gentle(pending[w][1])
    PROVE  /\ LiveHosts' = LiveHosts /\ keys \subseteq keys'
           /\ \A g \in Host : \A n : MemberOf(hosts[g], n) => MemberOf(hosts'[g], n)
           /\ \A k \in Key : pending[w][1] = InsertId("keys", k) => k \in keys'
  <1>1. PICK u \in Write :
           /\ u = pending[w][1]
           /\ hosts' = IF u.coll = "hosts" THEN Written(hosts, u) ELSE hosts
           /\ keys' = IF u.coll = "keys" THEN Written(keys, u) ELSE keys
    BY SendEffect
  <1>2. hosts \in HostDocs
    BY LiveDocs
  <1>3. ASSUME NEW h \in Host, NEW ps, PeersSet(hosts, hosts', h, ps)
        PROVE  /\ LiveHosts' = LiveHosts
               /\ \A g \in Host : \A n : MemberOf(hosts[g], n) => MemberOf(hosts'[g], n)
    <2>1. \A g \in Host : \/ hosts'[g] = hosts[g]
                          \/ hosts'[g].network_memberships = hosts[g].network_memberships
      BY <1>2, <1>3 DEF PeersSet
    <2>2. LiveHosts' = LiveHosts
      BY <1>3 DEF PeersSet, LiveHosts
    <2> QED
      BY <2>1, <2>2 DEF MemberOf
  <1>4. ASSUME NEW h \in Host, NEW n0, NEW k, InterfacesSet(hosts, hosts', h, RekeyedIn(hosts, h, n0, k))
        PROVE  /\ LiveHosts' = LiveHosts
               /\ \A g \in Host : \A n : MemberOf(hosts[g], n) => MemberOf(hosts'[g], n)
    <2>1. LiveHosts' = LiveHosts /\ \A g \in Host \ {h} : hosts'[g] = hosts[g]
      BY <1>4 DEF InterfacesSet, LiveHosts
    <2>2. CASE hosts[h] = None
      <3>1. hosts'[h] = hosts[h]
        BY <1>4, <2>2 DEF InterfacesSet
      <3> QED
        BY <2>1, <3>1
    <2>3. CASE hosts[h] # None
      <3>1. hosts'[h].network_memberships = RekeyedIn(hosts, h, n0, k)
        BY <1>4, <2>3 DEF InterfacesSet
      <3>2. \A n : MemberOf(hosts[h], n) => MemberOf(hosts'[h], n)
        BY <1>2, <2>3, <3>1, StillMember
      <3> QED
        BY <2>1, <3>2
    <2> QED
      BY <2>2, <2>3
  <1>5. /\ LiveHosts' = LiveHosts
        /\ \A g \in Host : \A n : MemberOf(hosts[g], n) => MemberOf(hosts'[g], n)
    <2>1. CASE u \in HostWrite \cup InterfaceWrite
      <3>1. u.coll = "hosts" /\ hosts' = Written(hosts, u) /\ u.id \in Host
        BY <1>1, <1>2, <2>1, HostForms
      <3>2. u.op \in {"set_interface_key", "push_peer", "pull_peer"}
        BY <1>1, <1>2, <2>1, <3>1, HostForms DEF Gentle
      <3>3. \/ InterfacesSet(hosts, hosts', u.id, RekeyedIn(hosts, u.id, u.network_id, u.value))
            \/ PeersSet(hosts, hosts', u.id, hosts[u.id].peer_connections \cup {u.value})
            \/ PeersSet(hosts, hosts', u.id, OtherPeers(hosts, u.id, u.value, u.network_id))
        BY <1>2, <2>1, <3>1, <3>2, HostForms
      <3> QED
        BY <1>3, <1>4, <3>1, <3>3
    <2>2. CASE u \notin HostWrite \cup InterfaceWrite
      <3>1. u.coll # "hosts"
        <4>1. CASE u \in NetworkWrite
          BY <4>1, NetworkWritesTyped DEF TypeOK
        <4>2. CASE u \in ClientWrite \cup LinkWrite
          BY <4>2, LiveDocs, ClientWritesTyped
        <4>3. CASE u \in IdWrite
          BY <4>3, IdWritesTyped
        <4> QED
          BY <2>2, <4>1, <4>2, <4>3 DEF Write
      <3>2. hosts' = hosts
        BY <1>1, <3>1
      <3> QED
        BY <3>2 DEF LiveHosts
    <2> QED
      BY <2>1, <2>2
  <1>6. keys \subseteq keys' /\ \A k \in Key : u = InsertId("keys", k) => k \in keys'
    <2>1. CASE u.coll # "keys"
      <3>1. \A k : InsertId("keys", k).coll = "keys"
        BY WriteFields
      <3> QED
        BY <1>1, <2>1, <3>1
    <2>2. CASE u.coll = "keys"
      <3>1. u \in IdWrite
        <4>1. CASE u \in NetworkWrite
          BY <2>2, <4>1, NetworkWritesTyped DEF TypeOK
        <4>2. CASE u \in ClientWrite \cup LinkWrite
          BY <2>2, <4>2, LiveDocs, ClientWritesTyped
        <4>3. CASE u \in HostWrite \cup InterfaceWrite
          BY <1>2, <2>2, <4>3, HostForms
        <4> QED
          BY <4>1, <4>2, <4>3 DEF Write
      <3>2. u.op # "delete_id"
        BY <1>1, <2>2 DEF Gentle
      <3>3. \A k : DeleteId("keys", k).op = "delete_id" /\ InsertId("keys", k).id = k
        BY WriteFields
      <3>4. keys' = keys \cup {u.id}
        BY <1>1, <2>2, <3>1, <3>2, <3>3, IdWritesTyped
      <3> QED
        BY <3>3, <3>4
    <2> QED
      BY <2>1, <2>2
  <1> QED
    BY <1>1, <1>5, <1>6

\* A later write stays in order if nothing it rests on goes away.
LEMMA LaterWriteKept ==
    ASSUME NEW v \in Write, Gentle(v), PeerSafe(v), NEW stored, NEW left, KeySafe(v, stored),
           LiveHosts' = LiveHosts, stored \cup keys \subseteq keys' \cup left,
           hosts \in HostDocs,
           \A g \in Host : \A n : MemberOf(hosts[g], n) => MemberOf(hosts'[g], n)
    PROVE  PeerSafe(v)' /\ KeySafe(v, left)'
  <1>1. v.op = "push_peer" => v.id \in Host
    <2>1. SUFFICES ASSUME v.op = "push_peer"
                   PROVE  v.id \in Host
      OBVIOUS
    <2>2. v \in HostWrite \cup InterfaceWrite
      <3>1. v \notin NetworkWrite
        BY <2>1, WriteFields DEF NetworkWrite
      <3>2. v \notin ClientWrite
        BY <2>1, WriteFields DEF ClientWrite
      <3>3. v \notin LinkWrite
        BY <2>1, WriteFields DEF LinkWrite
      <3>4. v \notin IdWrite
        BY <2>1, WriteFields DEF IdWrite
      <3> QED
        BY <3>1, <3>2, <3>3, <3>4 DEF Write
    <2> QED
      BY <2>2, HostForms
  <1>2. PeerSafe(v)'
    BY <1>1 DEF PeerSafe, Gentle
  <1>3. KeySafe(v, left)'
    BY DEF KeySafe, Gentle
  <1> QED
    BY <1>2, <1>3

\* What was in order stays in order while the writes before it are sent.
LEMMA SendKeepsOrder ==
    ASSUME TypeOK, PendingOK, NEW w \in Thread, Checked(pending[w]), Send(w)
    PROVE  Checked(pending[w])'
  <1>1. PICK s \in Seq(Write), t \in Seq(Write) :
           /\ s = pending[w] /\ t = pending'[w] /\ s # <<>>
           /\ DOMAIN t = 1 .. (Len(s) - 1)
           /\ \A i \in DOMAIN t : i + 1 \in DOMAIN s /\ t[i] = s[i + 1]
    <2> DEFINE s == pending[w]  t == pending'[w]
    <2>1. /\ s # <<>> /\ Tail(s) \in Seq(Write) /\ DOMAIN Tail(s) = 1 .. (Len(s) - 1)
          /\ \A i \in DOMAIN Tail(s) : i + 1 \in DOMAIN s /\ Tail(s)[i] = s[i + 1]
      BY SendEffect
    <2>2. s \in Seq(Write) /\ t = Tail(s)
      BY SendEffect DEF PendingOK
    <2>3. t \in Seq(Write) /\ DOMAIN t = 1 .. (Len(s) - 1)
      BY <2>1, <2>2
    <2>4. \A i \in DOMAIN t : i + 1 \in DOMAIN s /\ t[i] = s[i + 1]
      BY <2>1, <2>2
    <2> HIDE DEF s, t
    <2> QED
      BY <2>1, <2>2, <2>3, <2>4, Zenon DEF s, t
  <1>2. Len(s) \in Nat /\ Len(t) = Len(s) - 1 /\ DOMAIN s = 1 .. Len(s)
    BY <1>1
  <1>3. Checked(s)
    BY <1>1
  <1>4. ASSUME NEW i \in DOMAIN t
        PROVE  Gentle(t[i]) /\ PeerSafe(t[i])' /\ KeySafe(t[i], StoredBefore(t, i))'
    <2>1. Len(s) > 1 /\ 1 \in DOMAIN s /\ i \in Nat /\ i + 1 \in DOMAIN s /\ t[i] = s[i + 1]
      BY <1>1, <1>2, <1>4
    <2>2. \A j \in DOMAIN s : Gentle(s[j])
      BY <1>3, <2>1 DEF Checked
    <2>3. PeerSafe(s[i + 1]) /\ KeySafe(s[i + 1], StoredBefore(s, i + 1))
      BY <1>3, <2>1 DEF Checked
    <2>4. /\ LiveHosts' = LiveHosts /\ keys \subseteq keys'
          /\ \A g \in Host : \A n : MemberOf(hosts[g], n) => MemberOf(hosts'[g], n)
          /\ \A k \in Key : s[1] = InsertId("keys", k) => k \in keys'
      BY <1>1, <2>1, <2>2, GentleTakesNothing
    <2>5. StoredBefore(s, i + 1) \subseteq keys' \cup StoredBefore(t, i)
      <3>1. ASSUME NEW k \in StoredBefore(s, i + 1)
            PROVE  k \in keys' \/ k \in StoredBefore(t, i)
        <4>1. k \in Key /\ \E j \in 1 .. i : s[j] = InsertId("keys", k)
          BY <2>1 DEF StoredBefore
        <4>2. PICK j \in 1 .. i : s[j] = InsertId("keys", k)
          BY <4>1
        <4>3. CASE j = 1
          BY <2>4, <4>1, <4>2, <4>3
        <4>4. CASE j # 1
          <5>1. j - 1 \in 1 .. (i - 1) /\ j - 1 \in DOMAIN t /\ t[j - 1] = s[j]
            <6>1. j \in Nat /\ j - 1 \in 1 .. (i - 1) /\ (j - 1) + 1 = j
              BY <2>1, <4>4
            <6>2. j - 1 \in DOMAIN t
              BY <1>1, <1>2, <1>4, <6>1
            <6>3. t[j - 1] = s[(j - 1) + 1]
              BY <1>1, <6>2
            <6> QED
              BY <6>1, <6>2, <6>3
          <5> QED
            BY <4>1, <4>2, <5>1 DEF StoredBefore
        <4> QED
          BY <4>3, <4>4
      <3> QED
        BY <3>1
    <2> DEFINE v == t[i]  left == StoredBefore(t, i)
    <2>6. v \in Write /\ Gentle(v) /\ PeerSafe(v) /\ KeySafe(v, StoredBefore(s, i + 1))
      BY <1>1, <1>4, <2>1, <2>2, <2>3
    <2>7. PeerSafe(v)' /\ KeySafe(v, left)'
      <3>1. StoredBefore(s, i + 1) \cup keys \subseteq keys' \cup left /\ hosts \in HostDocs
        BY <2>4, <2>5, LiveDocs
      <3> HIDE DEF v, left
      <3> QED
        BY <2>4, <2>6, <3>1, LaterWriteKept
    <2> QED
      BY <2>6, <2>7
  <1>5. Checked(t)'
    <2>1. Len(t) > 1 => \A i \in DOMAIN t : Gentle(t[i])
      BY <1>4
    <2> QED
      BY <1>4, <2>1 DEF Checked
  <1> QED
    BY <1>1, <1>5

\* The first write of a line in order points to no key but a stored one.
LEMMA FirstInOrder ==
    ASSUME PendingOK, NEW w \in Thread, pending[w] # <<>>, Checked(pending[w])
    PROVE  PeerSafe(pending[w][1]) /\ KeySafe(pending[w][1], {})
  <1>1. 1 \in DOMAIN pending[w]
    BY DEF PendingOK
  <1>2. StoredBefore(pending[w], 1) = {}
    BY DEF StoredBefore
  <1> QED
    BY <1>1, <1>2 DEF Checked

LEMMA SendKeepsSides ==
    ASSUME TypeOK, PendingOK, PeerSidesHold, NEW w \in Thread, Checked(pending[w]), Send(w)
    PROVE  PeerSidesHold'
  <1>1. PICK u \in Write :
           /\ u = pending[w][1] /\ pending[w] # <<>>
           /\ hosts' = IF u.coll = "hosts" THEN Written(hosts, u) ELSE hosts
    BY SendEffect
  <1>2. PeerSafe(u)
    BY <1>1, FirstInOrder
  <1>3. CASE u \in HostWrite \cup InterfaceWrite
    <2>1. hosts' = Written(hosts, u)
      BY <1>1, <1>3, LiveDocs, HostForms
    <2> QED
      BY <1>2, <1>3, <2>1, HostWriteKeepsSides
  <1>4. CASE u \notin HostWrite \cup InterfaceWrite
    <2>1. hosts' = hosts
      BY <1>1, <1>4, LiveDocs, NetworkWritesTyped, ClientWritesTyped, IdWritesTyped DEF Write, TypeOK
    <2> QED
      BY <2>1 DEF PeerSidesHold, LiveHosts, MemberOf
  <1> QED
    BY <1>3, <1>4

LEMMA SendKeepsKeys ==
    ASSUME TypeOK, PendingOK, KeysLive, NEW w \in Thread, Checked(pending[w]), Send(w)
    PROVE  KeysLive'
  <1>1. PICK u \in Write :
           /\ u = pending[w][1] /\ pending[w] # <<>>
           /\ hosts' = IF u.coll = "hosts" THEN Written(hosts, u) ELSE hosts
           /\ clients' = IF u.coll = "clients" THEN Written(clients, u) ELSE clients
           /\ keys' = IF u.coll = "keys" THEN Written(keys, u) ELSE keys
    BY SendEffect
  <1>2. KeySafe(u, {}) /\ hosts \in HostDocs /\ clients \in ClientDocs
    BY <1>1, FirstInOrder, LiveDocs
  <1>3. CASE u \in HostWrite \cup InterfaceWrite
    <2>1. hosts' = Written(hosts, u) /\ clients' = clients /\ keys' = keys
      BY <1>1, <1>2, <1>3, HostForms
    <2>2. ASSUME NEW g \in Host, hosts'[g] # None, NEW o \in hosts'[g].network_memberships
          PROVE  o.active_key_id \in keys \cup {None}
      <3>1. \/ o.active_key_id \in keys \cup {None}
            \/ hosts[g] # None /\ \E m \in hosts[g].network_memberships : m.active_key_id = o.active_key_id
        BY <1>2, <1>3, <2>1, <2>2, HostWriteKeys
      <3> QED
        BY <3>1 DEF KeysLive, LiveHosts
    <2> QED
      BY <2>1, <2>2 DEF KeysLive, LiveHosts, LiveClients
  <1>4. CASE u \in ClientWrite \cup LinkWrite
    <2>1. clients' = Written(clients, u) /\ hosts' = hosts /\ keys' = keys
      BY <1>1, <1>2, <1>4, ClientWritesTyped
    <2>2. ASSUME NEW b \in Client, clients'[b] # None
          PROVE  clients'[b].active_key_id \in keys \cup {None}
      <3>1. \/ clients'[b].active_key_id \in keys \cup {None}
            \/ clients[b] # None /\ clients'[b].active_key_id = clients[b].active_key_id
        BY <1>2, <1>4, <2>1, <2>2, ClientWriteKeys
      <3> QED
        BY <3>1 DEF KeysLive, LiveClients
    <2> QED
      BY <2>1, <2>2 DEF KeysLive, LiveHosts, LiveClients
  <1>5. CASE u \in NetworkWrite
    <2>1. hosts' = hosts /\ clients' = clients /\ keys' = keys
      BY <1>1, <1>5, NetworkWritesTyped DEF TypeOK
    <2> QED
      BY <2>1 DEF KeysLive, LiveHosts, LiveClients
  <1>6. CASE u \in IdWrite
    <2>1. hosts' = hosts /\ clients' = clients
      BY <1>1, <1>6, IdWritesTyped
    <2>2. CASE keys \subseteq keys'
      BY <2>1, <2>2 DEF KeysLive, LiveHosts, LiveClients
    <2>3. CASE u.coll = "keys" /\ u = DeleteId("keys", u.id) /\ keys' = keys \ {u.id}
      <3>1. u.op = "delete_id"
        BY <2>3, WriteFields
      <3>2. ~KeyUsed(u.id)
        BY <1>2, <2>3, <3>1 DEF KeySafe
      <3> QED
        BY <2>1, <2>3, <3>2 DEF KeysLive, KeyUsed, LiveHosts, LiveClients
    <2>4. \/ keys \subseteq keys'
          \/ u.coll = "keys" /\ u = DeleteId("keys", u.id) /\ keys' = keys \ {u.id}
      BY <1>1, <1>6, IdWritesTyped
    <2> QED
      BY <2>2, <2>3, <2>4
  <1> QED
    BY <1>3, <1>4, <1>5, <1>6 DEF Write

\* What holds between any two writes while only one thread serves requests.
OneThreadInv == TypeOK /\ PendingOK /\ PendingChecked /\ PeerSidesHold /\ KeysLive

LEMMA OneThreadInit == RequestsInit => OneThreadInv
  <1> SUFFICES ASSUME RequestsInit
               PROVE  OneThreadInv
    OBVIOUS
  <1>1. PeerSidesHold /\ KeysLive
    BY DEF RequestsInit, PeerSidesHold, KeysLive, LiveHosts, LiveClients
  <1>2. ASSUME NEW w \in Thread
        PROVE  Checked(pending[w])
    <2>1. pending[w] = <<>>
      BY DEF RequestsInit
    <2>2. Len(pending[w]) = 0 /\ DOMAIN pending[w] = {}
      BY <2>1
    <2> QED
      BY <2>2 DEF Checked
  <1> QED
    BY <1>1, <1>2, RequestsInitTypeOK DEF OneThreadInv, PendingChecked

LEMMA OneThreadNext ==
    ASSUME OneThreadInv, \A v, w \in Thread : v = w, [RequestsNext]_rvars
    PROVE  OneThreadInv'
  <1>1. TypeOK /\ PendingOK /\ PendingChecked /\ PeerSidesHold /\ KeysLive
    BY DEF OneThreadInv
  <1>2. TypeOK' /\ PendingOK'
    BY <1>1, RequestsNextTypeOK
  <1>3. ASSUME UNCHANGED <<hosts, clients, keys>>
        PROVE  /\ PeerSidesHold' /\ KeysLive'
               /\ \A ws : Checked(ws) => Checked(ws)'
    <2>1. PeerSidesHold' /\ KeysLive'
      BY <1>1, <1>3 DEF PeerSidesHold, KeysLive, LiveHosts, LiveClients, MemberOf
    <2>2. ASSUME NEW ws, Checked(ws)
          PROVE  Checked(ws)'
      BY <1>3, <2>2 DEF Checked, PeerSafe, KeySafe, LiveHosts, LiveClients, PeersOn, MemberOf, KeyUsed
    <2> QED
      BY <2>1, <2>2
  <1>4. ASSUME NEW w \in Thread, Begin(w)
        PROVE  OneThreadInv'
    <2>1. PICK ws \in Seq(Write), new \in SUBSET Ids : Start(w, ws, new) /\ Checked(ws)
      BY <1>1, <1>4, BeginInOrder DEF StartsInOrder
    <2>2. UNCHANGED <<hosts, clients, keys>>
      BY <1>1, <1>4, BeginInOrder
    <2>3. pending'[w] = ws
      BY <1>1, <2>1 DEF Start, PendingOK
    <2>4. Checked(ws)'
      BY <1>3, <2>1, <2>2
    <2>5. PendingChecked'
      BY <2>3, <2>4 DEF PendingChecked
    <2> QED
      BY <1>2, <1>3, <2>2, <2>5 DEF OneThreadInv
  <1>5. ASSUME NEW w \in Thread, Send(w)
        PROVE  OneThreadInv'
    <2>1. Checked(pending[w])
      BY <1>1 DEF PendingChecked
    <2>2. Checked(pending[w])' /\ PeerSidesHold' /\ KeysLive'
      BY <1>1, <1>5, <2>1, SendKeepsOrder, SendKeepsSides, SendKeepsKeys
    <2>3. PendingChecked'
      BY <2>2 DEF PendingChecked
    <2> QED
      BY <1>2, <2>2, <2>3 DEF OneThreadInv
  <1>6. ASSUME NEW w \in Thread, Kill(w)
        PROVE  OneThreadInv'
    <2>1. UNCHANGED <<hosts, clients, keys>> /\ pending'[w] = <<>>
      BY <1>1, <1>6 DEF Kill, vars, PendingOK
    <2>2. Len(pending'[w]) = 0 /\ DOMAIN pending'[w] = {}
      BY <2>1
    <2>3. PendingChecked'
      BY <2>2 DEF PendingChecked, Checked
    <2> QED
      BY <1>2, <1>3, <2>1, <2>3 DEF OneThreadInv
  <1>7. CASE UNCHANGED rvars
    <2>1. UNCHANGED <<hosts, clients, keys>> /\ pending' = pending
      BY <1>7 DEF rvars, vars
    <2>2. ASSUME NEW w \in Thread
          PROVE  Checked(pending[w])'
      <3>1. PICK ws : ws = pending[w]
        OBVIOUS
      <3>2. Checked(ws) /\ ws = pending'[w]
        BY <1>1, <2>1, <3>1 DEF PendingChecked
      <3> QED
        BY <1>3, <2>1, <3>2
    <2> QED
      BY <1>2, <1>3, <2>1, <2>2 DEF OneThreadInv, PendingChecked
  <1> QED
    BY <1>4, <1>5, <1>6, <1>7 DEF RequestsNext

LEMMA OneThreadStays ==
    ASSUME \A v, w \in Thread : v = w
    PROVE  RequestsSpec => []OneThreadInv
  <1>1. OneThreadInv /\ [RequestsNext]_rvars => OneThreadInv'
    BY OneThreadNext
  <1> QED
    BY <1>1, OneThreadInit, PTL DEF RequestsSpec

\* While one thread serves requests, a worker killed between two writes may leave one
\* side of a peer connection, but none that names a host that is gone or hangs on no
\* interface of its own (add_peer_connection and remove_peer_connection write twice).
THEOREM KilledSidesHold ==
    ASSUME \A v, w \in Thread : v = w
    PROVE  RequestsSpec => []PeerSidesHold
  <1>1. OneThreadInv => PeerSidesHold
    BY DEF OneThreadInv
  <1> QED
    BY <1>1, OneThreadStays, PTL

\* So may it leave a key that nothing uses, but no pointer to a key that is not stored:
\* generate_and_store_key comes first in every handler.
THEOREM KilledKeysStayLive ==
    ASSUME \A v, w \in Thread : v = w
    PROVE  RequestsSpec => []KeysLive
  <1>1. OneThreadInv => KeysLive
    BY DEF OneThreadInv
  <1> QED
    BY <1>1, OneThreadStays, PTL

-----------------------------------------------------------------------------
(* One thread and no kills: the handlers are the atomic ones of Inventory.   *)

\* A database of the given collections.
DbOf(n, h, c, k, d, a) ==
    [networks |-> n, hosts |-> h, clients |-> c, keys |-> k, dnsServers |-> d, allowedIps |-> a]

LEMMA DbFields ==
    ASSUME NEW n, NEW h, NEW c, NEW k, NEW d, NEW a
    PROVE  LET db == DbOf(n, h, c, k, d, a)
           IN  /\ db.networks = n /\ db.hosts = h /\ db.clients = c
               /\ db.keys = k /\ db.dnsServers = d /\ db.allowedIps = a
  BY DEF DbOf

LEMMA ApplyToDb ==
    ASSUME NEW n, NEW h, NEW c, NEW k, NEW d, NEW a, NEW u
    PROVE  LET db == DbOf(n, h, c, k, d, a)
           IN  /\ u.coll = "networks" => Apply(db, u) = DbOf(Written(n, u), h, c, k, d, a)
               /\ u.coll = "hosts" => Apply(db, u) = DbOf(n, Written(h, u), c, k, d, a)
               /\ u.coll = "clients" => Apply(db, u) = DbOf(n, h, Written(c, u), k, d, a)
               /\ u.coll = "keys" => Apply(db, u) = DbOf(n, h, c, Written(k, u), d, a)
               /\ u.coll = "dnsServers" => Apply(db, u) = DbOf(n, h, c, k, Written(d, u), a)
               /\ u.coll = "allowedIps" => Apply(db, u) = DbOf(n, h, c, k, d, Written(a, u))
  BY DEF Apply, DbOf

\* Writing a line of at most three writes is writing them one after the other.
LEMMA AllWrittenShort ==
    /\ \A db : AllWritten(db, <<>>) = db
    /\ \A db, u : AllWritten(db, <<u>>) = Apply(db, u)
    /\ \A db, u, v : AllWritten(db, <<u, v>>) = Apply(Apply(db, u), v)
    /\ \A db, u, v, x : AllWritten(db, <<u, v, x>>) = Apply(Apply(Apply(db, u), v), x)
  BY DEF AllWritten, Nth

LEMMA AllWrittenTail ==
    ASSUME NEW db, NEW s \in Seq(Write), NEW t \in Seq(Write), s # <<>>, Len(s) <= 3,
           DOMAIN t = 1 .. (Len(s) - 1),
           \A i \in DOMAIN t : i + 1 \in DOMAIN s /\ t[i] = s[i + 1]
    PROVE  AllWritten(Apply(db, s[1]), t) = AllWritten(db, s)
  <1>1. /\ 1 \in DOMAIN s /\ 3 \notin DOMAIN t
        /\ 1 \in DOMAIN t <=> 2 \in DOMAIN s
        /\ 2 \in DOMAIN t <=> 3 \in DOMAIN s
    OBVIOUS
  <1>2. /\ 1 \in DOMAIN t => t[1] = s[2]
        /\ 2 \in DOMAIN t => t[2] = s[3]
    OBVIOUS
  <1> QED
    BY <1>1, <1>2 DEF AllWritten, Nth

\* Every write is one of a collection that there is.
LEMMA CollectionsWritten ==
    ASSUME TypeOK, NEW u \in Write
    PROVE  u.coll \in {"networks", "hosts", "clients", "keys", "dnsServers", "allowedIps"}
  <1>1. CASE u \in NetworkWrite
    BY <1>1, NetworkWritesTyped DEF TypeOK
  <1>2. CASE u \in HostWrite \cup InterfaceWrite
    BY <1>2, LiveDocs, HostForms
  <1>3. CASE u \in ClientWrite \cup LinkWrite
    BY <1>3, LiveDocs, ClientWritesTyped
  <1>4. CASE u \in IdWrite
    BY <1>4, IdWritesTyped
  <1> QED
    BY <1>1, <1>2, <1>3, <1>4 DEF Write

\* Sending a write leaves what the database will be when all are sent.
LEMMA SendDrained ==
    ASSUME TypeOK, PendingOK, TheThread \in Thread, Send(TheThread)
    PROVE  Drained' = Drained
  <1>1. PICK u \in Write :
           /\ u = pending[TheThread][1]
           /\ networks' = IF u.coll = "networks" THEN Written(networks, u) ELSE networks
           /\ hosts' = IF u.coll = "hosts" THEN Written(hosts, u) ELSE hosts
           /\ clients' = IF u.coll = "clients" THEN Written(clients, u) ELSE clients
           /\ keys' = IF u.coll = "keys" THEN Written(keys, u) ELSE keys
           /\ dnsServers' = IF u.coll = "dnsServers" THEN Written(dnsServers, u) ELSE dnsServers
           /\ allowedIps' = IF u.coll = "allowedIps" THEN Written(allowedIps, u) ELSE allowedIps
    BY SendEffect
  <1>2. Db = DbOf(networks, hosts, clients, keys, dnsServers, allowedIps)
    BY DEF Db, DbOf
  <1>3. Db' = DbOf(networks', hosts', clients', keys', dnsServers', allowedIps')
    BY DEF Db, DbOf
  <1>4. Db' = Apply(Db, u)
    BY <1>1, <1>2, <1>3, ApplyToDb, CollectionsWritten
  <1>5. PICK s \in Seq(Write), t \in Seq(Write) :
           /\ s = pending[TheThread] /\ t = pending'[TheThread] /\ s # <<>> /\ Len(s) <= 3
           /\ DOMAIN t = 1 .. (Len(s) - 1)
           /\ \A i \in DOMAIN t : i + 1 \in DOMAIN s /\ t[i] = s[i + 1]
    <2> DEFINE s == pending[TheThread]  t == pending'[TheThread]
    <2>1. /\ s # <<>> /\ Tail(s) \in Seq(Write) /\ DOMAIN Tail(s) = 1 .. (Len(s) - 1)
          /\ \A i \in DOMAIN Tail(s) : i + 1 \in DOMAIN s /\ Tail(s)[i] = s[i + 1]
      BY SendEffect
    <2>2. s \in Seq(Write) /\ t = Tail(s) /\ Len(s) <= 3
      BY SendEffect DEF PendingOK
    <2>3. t \in Seq(Write) /\ DOMAIN t = 1 .. (Len(s) - 1)
      BY <2>1, <2>2
    <2>4. \A i \in DOMAIN t : i + 1 \in DOMAIN s /\ t[i] = s[i + 1]
      BY <2>1, <2>2
    <2> HIDE DEF s, t
    <2> QED
      BY <2>1, <2>2, <2>3, <2>4, Zenon DEF s, t
  <1>6. AllWritten(Apply(Db, s[1]), t) = AllWritten(Db, s)
    BY <1>5, AllWrittenTail
  <1>7. Drained = AllWritten(Db, s)
    BY <1>5 DEF Drained
  <1>8. Drained' = AllWritten(Db', t)
    BY <1>5 DEF Drained
  <1> QED
    BY <1>1, <1>4, <1>5, <1>6, <1>7, <1>8

\* The request that thread w starts will make the database `after`.
Becomes(after) ==
    /\ Drained = DbOf(networks, hosts, clients, keys, dnsServers, allowedIps)
    /\ Drained' = after

LEMMA BeginDrained ==
    ASSUME PendingOK, TheThread \in Thread, pending[TheThread] = <<>>,
           UNCHANGED <<networks, hosts, clients, keys, dnsServers, allowedIps>>,
           NEW ws, NEW new, Start(TheThread, ws, new)
    PROVE  Becomes(AllWritten(DbOf(networks, hosts, clients, keys, dnsServers, allowedIps), ws))
  <1>1. Db = DbOf(networks, hosts, clients, keys, dnsServers, allowedIps) /\ Db' = Db
    BY DEF Db, DbOf
  <1>2. pending'[TheThread] = ws
    BY DEF Start, PendingOK
  <1>3. Drained = AllWritten(Db, <<>>)
    BY DEF Drained
  <1>4. Drained' = AllWritten(Db', pending'[TheThread])
    BY DEF Drained
  <1> QED
    BY <1>1, <1>2, <1>3, <1>4, AllWrittenShort DEF Becomes

\* Nothing is pending: what the database will be is what it is.
AllSent ==
    /\ Drained.networks = networks /\ Drained.hosts = hosts /\ Drained.clients = clients
    /\ Drained.keys = keys /\ Drained.dnsServers = dnsServers
    /\ Drained.allowedIps = allowedIps

\* Then the checks of Inventory are those of the requests.
LEMMA SerialLive ==
    ASSUME AllSent
    PROVE  /\ Serial!LiveNetworks = LiveNetworks /\ Serial!LiveHosts = LiveHosts
           /\ Serial!LiveClients = LiveClients /\ Serial!DnsChoice = DnsChoice
           /\ \A id : Serial!Fresh(id) <=> Fresh(id)
  BY DEF AllSent, Serial!LiveNetworks, Serial!LiveHosts, Serial!LiveClients, LiveNetworks,
         LiveHosts, LiveClients, Serial!DnsChoice, DnsChoice, Serial!Fresh, Fresh

LEMMA SerialQueries ==
    ASSUME AllSent
    PROVE  /\ \A n, ip, except : Serial!AddressTaken(n, ip, except) <=> AddressTaken(n, ip, except)
           /\ \A h, n : Serial!ClientConnected(h, n) <=> ClientConnected(h, n)
           /\ \A h, n : Serial!PeersOn(h, n) <=> PeersOn(h, n)
           /\ \A h, p, n : Serial!PeersWith(h, p, n) <=> PeersWith(h, p, n)
           /\ \A doc, n : Serial!MemberOf(doc, n) <=> MemberOf(doc, n)
  <1> USE SerialLive DEF AllSent
  <1>1. \A n, ip, except : Serial!AddressTaken(n, ip, except) <=> AddressTaken(n, ip, except)
    BY DEF Serial!AddressTaken, AddressTaken
  <1>2. \A h, n : Serial!ClientConnected(h, n) <=> ClientConnected(h, n)
    BY DEF Serial!ClientConnected, ClientConnected
  <1>3. \A h, n : Serial!PeersOn(h, n) <=> PeersOn(h, n)
    BY DEF Serial!PeersOn, PeersOn
  <1>4. \A h, p, n : Serial!PeersWith(h, p, n) <=> PeersWith(h, p, n)
    BY DEF Serial!PeersWith, PeersWith
  <1>5. \A doc, n : Serial!MemberOf(doc, n) <=> MemberOf(doc, n)
    BY DEF Serial!MemberOf, MemberOf
  <1> QED
    BY <1>1, <1>2, <1>3, <1>4, <1>5

LEMMA SerialUses ==
    ASSUME AllSent
    PROVE  /\ \A k : Serial!KeyUsed(k) <=> KeyUsed(k)
           /\ \A d : Serial!DnsServerInUse(d) <=> DnsServerInUse(d)
           /\ \A a : Serial!AllowedIpsInUse(a) <=> AllowedIpsInUse(a)
           /\ \A n : Serial!NetworkUsed(n) <=> NetworkUsed(n)
           /\ \A cidr, except : Serial!OverlapsNone(cidr, except) <=> OverlapsNone(cidr, except)
           /\ \A t, h : Serial!ManagerChosen(t, h) <=> ManagerChosen(t, h)
           /\ \A h, n : Serial!KeyableInterface(h, n) <=> KeyableInterface(h, n)
  <1> USE SerialLive, SerialQueries DEF AllSent
  <1>1. \A k : Serial!KeyUsed(k) <=> KeyUsed(k)
    BY DEF Serial!KeyUsed, KeyUsed
  <1>2. \A d : Serial!DnsServerInUse(d) <=> DnsServerInUse(d)
    BY DEF Serial!DnsServerInUse, DnsServerInUse
  <1>3. \A a : Serial!AllowedIpsInUse(a) <=> AllowedIpsInUse(a)
    BY DEF Serial!AllowedIpsInUse, AllowedIpsInUse
  <1>4. \A n : Serial!NetworkUsed(n) <=> NetworkUsed(n)
    BY DEF Serial!NetworkUsed, NetworkUsed
  <1>5. \A cidr, except : Serial!OverlapsNone(cidr, except) <=> OverlapsNone(cidr, except)
    BY DEF Serial!OverlapsNone, OverlapsNone, Serial!PartialOverlap, PartialOverlap
  <1>6. \A t, h : Serial!ManagerChosen(t, h) <=> ManagerChosen(t, h)
    BY DEF Serial!ManagerChosen, ManagerChosen
  <1>7. \A h, n : Serial!KeyableInterface(h, n) <=> KeyableInterface(h, n)
    BY DEF Serial!KeyableInterface, KeyableInterface
  <1> QED
    BY <1>1, <1>2, <1>3, <1>4, <1>5, <1>6, <1>7

LEMMA SerialHostChecks ==
    ASSUME AllSent
    PROVE  /\ \A h, n, ip, t, d : Serial!CanAddInterface(h, n, ip, t, d) <=> CanAddInterface(h, n, ip, t, d)
           /\ \A h, n0, n, ip, t, d :
                 Serial!CanEditInterface(h, n0, n, ip, t, d) <=> CanEditInterface(h, n0, n, ip, t, d)
           /\ \A h, n : Serial!CanRemoveInterface(h, n) <=> CanRemoveInterface(h, n)
           /\ \A h, p, n, a : Serial!CanAddPeerConnection(h, p, n, a) <=> CanAddPeerConnection(h, p, n, a)
           /\ \A h : Serial!CanDeleteHost(h) <=> CanDeleteHost(h)
  <1> USE SerialLive, SerialQueries DEF AllSent
  <1>1. \A n, ip, t : Serial!Attachable(n, ip, t) <=> Attachable(n, ip, t)
    BY DEF Serial!Attachable, Attachable, Serial!INTERFACE_TYPE_NETWORK_TYPE,
           INTERFACE_TYPE_NETWORK_TYPE, Serial!InterfaceType, InterfaceType
  <1>2. \A h, n, ip, t, d : Serial!CanAddInterface(h, n, ip, t, d) <=> CanAddInterface(h, n, ip, t, d)
    BY <1>1 DEF Serial!CanAddInterface, CanAddInterface
  <1>3. \A h, n0, n : Serial!FreeToMove(h, n0, n) <=> FreeToMove(h, n0, n)
    BY DEF Serial!FreeToMove, FreeToMove
  <1>4. \A h, n0, n, ip, t, d :
           Serial!CanEditInterface(h, n0, n, ip, t, d) <=> CanEditInterface(h, n0, n, ip, t, d)
    BY <1>1, <1>3 DEF Serial!CanEditInterface, CanEditInterface
  <1>5. \A h, n : Serial!CanRemoveInterface(h, n) <=> CanRemoveInterface(h, n)
    BY DEF Serial!CanRemoveInterface, CanRemoveInterface
  <1>6. \A h, p, n, a : Serial!CanAddPeerConnection(h, p, n, a) <=> CanAddPeerConnection(h, p, n, a)
    BY DEF Serial!CanAddPeerConnection, CanAddPeerConnection
  <1>7. \A h : Serial!CanDeleteHost(h) <=> CanDeleteHost(h)
    BY DEF Serial!CanDeleteHost, CanDeleteHost
  <1> QED
    BY <1>2, <1>4, <1>5, <1>6, <1>7

LEMMA SerialClientChecks ==
    ASSUME AllSent
    PROVE  /\ \A c, n, ip : Serial!CanAddNetworkMembership(c, n, ip) <=> CanAddNetworkMembership(c, n, ip)
           /\ \A c, n : Serial!CanRemoveNetworkMembership(c, n) <=> CanRemoveNetworkMembership(c, n)
           /\ \A c, h, n, a : Serial!CanAddConnection(c, h, n, a) <=> CanAddConnection(c, h, n, a)
  <1> USE SerialLive, SerialQueries DEF AllSent
  <1>1. \A c, n, ip : Serial!CanAddNetworkMembership(c, n, ip) <=> CanAddNetworkMembership(c, n, ip)
    BY DEF Serial!CanAddNetworkMembership, CanAddNetworkMembership
  <1>2. \A c, n : Serial!CanRemoveNetworkMembership(c, n) <=> CanRemoveNetworkMembership(c, n)
    BY DEF Serial!CanRemoveNetworkMembership, CanRemoveNetworkMembership
  <1>3. \A c, h, n, a : Serial!CanAddConnection(c, h, n, a) <=> CanAddConnection(c, h, n, a)
    BY DEF Serial!CanAddConnection, CanAddConnection
  <1> QED
    BY <1>1, <1>2, <1>3

\* The documents and updates of Inventory are those of the requests.
LEMMA SerialWrites ==
    /\ \A cidr, t, h : Serial!NewNetwork(cidr, t, h) = NewNetwork(cidr, t, h)
    /\ \A n, ip, t, d : Serial!NewInterface(n, ip, t, d) = NewInterface(n, ip, t, d)
    /\ \A p, n, a : Serial!NewPeer(p, n, a) = NewPeer(p, n, a)
    /\ \A h, n, a : Serial!NewConnection(h, n, a) = NewConnection(h, n, a)
    /\ \A d : Serial!NewClient(d) = NewClient(d)
    /\ Serial!NewHost = NewHost
    /\ \A hs, h, m : Serial!PushInterface(hs, h, m) = PushInterface(hs, h, m)
    /\ \A hs, h, n, m : Serial!SetInterface(hs, h, n, m) = SetInterface(hs, h, n, m)
    /\ \A hs, h, n, k : Serial!SetInterfaceKey(hs, h, n, k) = SetInterfaceKey(hs, h, n, k)
    /\ \A hs, h, n : Serial!PullInterface(hs, h, n) = PullInterface(hs, h, n)
    /\ \A hs, h, x : Serial!PushPeer(hs, h, x) = PushPeer(hs, h, x)
    /\ \A hs, h, p, n : Serial!PullPeer(hs, h, p, n) = PullPeer(hs, h, p, n)
    /\ \A cs, c, k : Serial!SetClientKey(cs, c, k) = SetClientKey(cs, c, k)
    /\ \A cs, c, d : Serial!SetClientDns(cs, c, d) = SetClientDns(cs, c, d)
    /\ \A cs, c, n, ip : Serial!PushMembership(cs, c, n, ip) = PushMembership(cs, c, n, ip)
    /\ \A cs, c, n : Serial!PullMembership(cs, c, n) = PullMembership(cs, c, n)
    /\ \A cs, c, xs : Serial!SetConnections(cs, c, xs) = SetConnections(cs, c, xs)
    /\ \A cs, c, x : Serial!PushConnection(cs, c, x) = PushConnection(cs, c, x)
  <1>1. \A coll, id, doc : Serial!UpdateOne(coll, id, doc) = UpdateOne(coll, id, doc)
    BY DEF Serial!UpdateOne, UpdateOne
  <1>2. \A hs, h, ms : /\ Serial!SetInterfaces(hs, h, ms) = SetInterfaces(hs, h, ms)
                       /\ Serial!SetPeers(hs, h, ms) = SetPeers(hs, h, ms)
                       /\ Serial!SetMemberships(hs, h, ms) = SetMemberships(hs, h, ms)
                       /\ Serial!SetConnections(hs, h, ms) = SetConnections(hs, h, ms)
    BY <1>1 DEF Serial!SetInterfaces, SetInterfaces, Serial!SetPeers, SetPeers,
                Serial!SetMemberships, SetMemberships, Serial!SetConnections, SetConnections
  <1>3. /\ \A cidr, t, h : Serial!NewNetwork(cidr, t, h) = NewNetwork(cidr, t, h)
        /\ \A n, ip, t, d : Serial!NewInterface(n, ip, t, d) = NewInterface(n, ip, t, d)
        /\ \A p, n, a : Serial!NewPeer(p, n, a) = NewPeer(p, n, a)
        /\ \A h, n, a : Serial!NewConnection(h, n, a) = NewConnection(h, n, a)
        /\ \A d : Serial!NewClient(d) = NewClient(d)
        /\ Serial!NewHost = NewHost
    BY DEF Serial!NewNetwork, NewNetwork, Serial!StoredManager, StoredManager,
           Serial!NewInterface, NewInterface, Serial!NewPeer, NewPeer, Serial!NewConnection,
           NewConnection, Serial!NewClient, NewClient, Serial!NewHost, NewHost
  <1>4. \A hs, h, m : Serial!PushInterface(hs, h, m) = PushInterface(hs, h, m)
    BY <1>2 DEF Serial!PushInterface, PushInterface
  <1>5. \A hs, h, n, m : Serial!SetInterface(hs, h, n, m) = SetInterface(hs, h, n, m)
    BY <1>2 DEF Serial!SetInterface, SetInterface
  <1>6. \A hs, h, n, k : Serial!SetInterfaceKey(hs, h, n, k) = SetInterfaceKey(hs, h, n, k)
    BY <1>2 DEF Serial!SetInterfaceKey, SetInterfaceKey
  <1>7. \A hs, h, n : Serial!PullInterface(hs, h, n) = PullInterface(hs, h, n)
    BY <1>2 DEF Serial!PullInterface, PullInterface
  <1>8. \A hs, h, x : Serial!PushPeer(hs, h, x) = PushPeer(hs, h, x)
    BY <1>2 DEF Serial!PushPeer, PushPeer
  <1>9. \A hs, h, p, n : Serial!PullPeer(hs, h, p, n) = PullPeer(hs, h, p, n)
    BY <1>2 DEF Serial!PullPeer, PullPeer
  <1>10. /\ \A cs, c, k : Serial!SetClientKey(cs, c, k) = SetClientKey(cs, c, k)
         /\ \A cs, c, d : Serial!SetClientDns(cs, c, d) = SetClientDns(cs, c, d)
    BY <1>1 DEF Serial!SetClientKey, SetClientKey, Serial!SetClientDns, SetClientDns
  <1>11. \A cs, c, n, ip : Serial!PushMembership(cs, c, n, ip) = PushMembership(cs, c, n, ip)
    BY <1>2 DEF Serial!PushMembership, PushMembership
  <1>12. \A cs, c, n : Serial!PullMembership(cs, c, n) = PullMembership(cs, c, n)
    BY <1>2 DEF Serial!PullMembership, PullMembership
  <1>13. \A cs, c, x : Serial!PushConnection(cs, c, x) = PushConnection(cs, c, x)
    BY <1>2 DEF Serial!PushConnection, PushConnection
  <1> QED
    BY <1>2, <1>3, <1>4, <1>5, <1>6, <1>7, <1>8, <1>9, <1>10, <1>11, <1>12, <1>13

\* The only thread begins a request.
BeginsAlone ==
    /\ TypeOK /\ PendingOK
    /\ TheThread \in Thread /\ pending[TheThread] = <<>>
    /\ UNCHANGED <<networks, hosts, clients, keys, dnsServers, allowedIps>>

\* Nothing was pending, and with what is pending now the database becomes this one.
Turns(n, h, c, k, d, a) ==
    /\ AllSent
    /\ Drained'.networks = n /\ Drained'.hosts = h /\ Drained'.clients = c
    /\ Drained'.keys = k /\ Drained'.dnsServers = d /\ Drained'.allowedIps = a

LEMMA TurnsInto ==
    ASSUME NEW n, NEW h, NEW c, NEW k, NEW d, NEW a, Becomes(DbOf(n, h, c, k, d, a))
    PROVE  Turns(n, h, c, k, d, a)
  BY DbFields DEF Becomes, Turns, AllSent

\* A request of one write.
LEMMA OneSent ==
    ASSUME BeginsAlone, NEW u, NEW new, Start(TheThread, <<u>>, new)
    PROVE  /\ u.coll = "networks" => Turns(Written(networks, u), hosts, clients, keys, dnsServers, allowedIps)
           /\ u.coll = "hosts" => Turns(networks, Written(hosts, u), clients, keys, dnsServers, allowedIps)
           /\ u.coll = "clients" => Turns(networks, hosts, Written(clients, u), keys, dnsServers, allowedIps)
           /\ u.coll = "keys" => Turns(networks, hosts, clients, Written(keys, u), dnsServers, allowedIps)
           /\ u.coll = "dnsServers" => Turns(networks, hosts, clients, keys, Written(dnsServers, u), allowedIps)
           /\ u.coll = "allowedIps" => Turns(networks, hosts, clients, keys, dnsServers, Written(allowedIps, u))
  <1> DEFINE db == DbOf(networks, hosts, clients, keys, dnsServers, allowedIps)
  <1>1. Becomes(AllWritten(db, <<u>>))
    BY BeginDrained DEF BeginsAlone
  <1>2. AllWritten(db, <<u>>) = Apply(db, u)
    BY AllWrittenShort
  <1>3. Becomes(Apply(db, u))
    BY <1>1, <1>2
  <1> QED
    BY <1>3, ApplyToDb, TurnsInto

\* Two writes of hosts.
LEMMA TwoOfHosts ==
    ASSUME BeginsAlone, NEW u, NEW v, NEW new, Start(TheThread, <<u, v>>, new),
           u.coll = "hosts", v.coll = "hosts"
    PROVE  Turns(networks, Written(Written(hosts, u), v), clients, keys, dnsServers, allowedIps)
  <1> DEFINE db == DbOf(networks, hosts, clients, keys, dnsServers, allowedIps)
             between == DbOf(networks, Written(hosts, u), clients, keys, dnsServers, allowedIps)
  <1>1. Becomes(AllWritten(db, <<u, v>>))
    BY BeginDrained DEF BeginsAlone
  <1>2. AllWritten(db, <<u, v>>) = Apply(Apply(db, u), v)
    BY AllWrittenShort
  <1>3. Apply(db, u) = between
    BY ApplyToDb
  <1>4. Apply(between, v) =
           DbOf(networks, Written(Written(hosts, u), v), clients, keys, dnsServers, allowedIps)
    BY ApplyToDb
  <1>5. Becomes(DbOf(networks, Written(Written(hosts, u), v), clients, keys, dnsServers, allowedIps))
    BY <1>1, <1>2, <1>3, <1>4
  <1> QED
    BY <1>5, TurnsInto

\* Two writes of clients: the client, and the key it is pointed at.
LEMMA TwoOfClients ==
    ASSUME BeginsAlone, NEW u, NEW v, NEW new, Start(TheThread, <<u, v>>, new),
           u.coll = "clients", v.coll = "clients"
    PROVE  Turns(networks, hosts, Written(Written(clients, u), v), keys, dnsServers, allowedIps)
  <1> DEFINE db == DbOf(networks, hosts, clients, keys, dnsServers, allowedIps)
             between == DbOf(networks, hosts, Written(clients, u), keys, dnsServers, allowedIps)
  <1>1. Becomes(AllWritten(db, <<u, v>>))
    BY BeginDrained DEF BeginsAlone
  <1>2. AllWritten(db, <<u, v>>) = Apply(Apply(db, u), v)
    BY AllWrittenShort
  <1>3. Apply(db, u) = between
    BY ApplyToDb
  <1>4. Apply(between, v) =
           DbOf(networks, hosts, Written(Written(clients, u), v), keys, dnsServers, allowedIps)
    BY ApplyToDb
  <1>5. Becomes(DbOf(networks, hosts, Written(Written(clients, u), v), keys, dnsServers, allowedIps))
    BY <1>1, <1>2, <1>3, <1>4
  <1> QED
    BY <1>5, TurnsInto

\* A key is stored and then pointed at.
LEMMA KeyThenPoint ==
    ASSUME BeginsAlone, NEW k, NEW v, NEW new,
           Start(TheThread, <<InsertId("keys", k), v>>, new)
    PROVE  /\ v.coll = "hosts" =>
                 Turns(networks, Written(hosts, v), clients, keys \cup {k}, dnsServers, allowedIps)
           /\ v.coll = "clients" =>
                 Turns(networks, hosts, Written(clients, v), keys \cup {k}, dnsServers, allowedIps)
  <1> DEFINE u == InsertId("keys", k)
             db == DbOf(networks, hosts, clients, keys, dnsServers, allowedIps)
             between == DbOf(networks, hosts, clients, keys \cup {k}, dnsServers, allowedIps)
  <1>1. Becomes(AllWritten(db, <<u, v>>))
    BY BeginDrained DEF BeginsAlone
  <1>2. AllWritten(db, <<u, v>>) = Apply(Apply(db, u), v)
    BY AllWrittenShort
  <1>3. u.coll = "keys" /\ Written(keys, u) = keys \cup {k}
    BY WriteFields, IdWrites
  <1> HIDE DEF u
  <1>4. Apply(db, u) = between
    BY <1>3, ApplyToDb
  <1>5. Becomes(Apply(between, v))
    BY <1>1, <1>2, <1>4
  <1>6. ASSUME v.coll = "hosts"
        PROVE  Turns(networks, Written(hosts, v), clients, keys \cup {k}, dnsServers, allowedIps)
    BY <1>5, <1>6, ApplyToDb, TurnsInto
  <1>7. ASSUME v.coll = "clients"
        PROVE  Turns(networks, hosts, Written(clients, v), keys \cup {k}, dnsServers, allowedIps)
    BY <1>5, <1>7, ApplyToDb, TurnsInto
  <1> QED
    BY <1>6, <1>7

\* A client is stored, then a key, and then the client is pointed at it.
LEMMA ClientKeyThenPoint ==
    ASSUME BeginsAlone, NEW u, NEW k, NEW v, NEW new,
           Start(TheThread, <<u, InsertId("keys", k), v>>, new),
           u.coll = "clients", v.coll = "clients"
    PROVE  Turns(networks, hosts, Written(Written(clients, u), v), keys \cup {k}, dnsServers, allowedIps)
  <1> DEFINE x == InsertId("keys", k)
             db == DbOf(networks, hosts, clients, keys, dnsServers, allowedIps)
             db1 == DbOf(networks, hosts, Written(clients, u), keys, dnsServers, allowedIps)
             db2 == DbOf(networks, hosts, Written(clients, u), keys \cup {k}, dnsServers, allowedIps)
             db3 == DbOf(networks, hosts, Written(Written(clients, u), v), keys \cup {k}, dnsServers, allowedIps)
  <1>1. Becomes(AllWritten(db, <<u, x, v>>))
    BY BeginDrained DEF BeginsAlone
  <1>2. AllWritten(db, <<u, x, v>>) = Apply(Apply(Apply(db, u), x), v)
    BY AllWrittenShort
  <1>3. x.coll = "keys" /\ Written(keys, x) = keys \cup {k}
    BY WriteFields, IdWrites
  <1> HIDE DEF x
  <1>4. Apply(db, u) = db1
    BY ApplyToDb
  <1>5. Apply(db1, x) = db2
    <2>1. \A c : Apply(DbOf(networks, hosts, c, keys, dnsServers, allowedIps), x)
                = DbOf(networks, hosts, c, Written(keys, x), dnsServers, allowedIps)
      BY <1>3, ApplyToDb
    <2> QED
      BY <1>3, <2>1
  <1>6. Apply(db2, v) = db3
    BY ApplyToDb
  <1>7. Becomes(db3)
    BY <1>1, <1>2, <1>4, <1>5, <1>6
  <1> QED
    BY <1>7, TurnsInto

LEMMA NetworkRequestSerial ==
    ASSUME BeginsAlone, NetworkRequest(TheThread)
    PROVE  Serial!NetworkNext
  <1>1. ASSUME NEW n \in Network, NEW cidr \in Cidr, NEW t \in NetworkType, NEW h \in Host \cup {None},
               ManagerChosen(t, h), OverlapsNone(cidr, {}),
               Start(TheThread, <<Insert("networks", n, NewNetwork(cidr, t, h))>>, {n})
        PROVE  Serial!CreateNetwork(n, cidr, t, h)
    <2>1. Turns([networks EXCEPT ![n] = NewNetwork(cidr, t, h)], hosts, clients, keys, dnsServers, allowedIps)
      BY <1>1, OneSent, WriteFields, DocumentWrites
    <2>2. issued' = issued \cup {n} /\ Fresh(n)
      BY <1>1 DEF Start
    <2> QED
      BY <1>1, <2>1, <2>2, SerialLive, SerialUses, SerialWrites
         DEF Serial!CreateNetwork, Turns, AllSent
  <1>2. ASSUME NEW n \in LiveNetworks, NEW cidr \in Cidr, NEW t \in NetworkType, NEW h \in Host \cup {None},
               ManagerChosen(t, h), OverlapsNone(cidr, {n}),
               Start(TheThread, <<Replace("networks", n, NewNetwork(cidr, t, h))>>, {})
        PROVE  Serial!EditNetwork(n, cidr, t, h)
    <2>1. Turns(UpdateOne(networks, n, NewNetwork(cidr, t, h)), hosts, clients, keys, dnsServers, allowedIps)
      BY <1>2, OneSent, WriteFields, DocumentWrites
    <2>2. issued' = issued
      BY <1>2 DEF Start
    <2>3. UpdateOne(networks, n, NewNetwork(cidr, t, h)) = [networks EXCEPT ![n] = NewNetwork(cidr, t, h)]
      BY DEF UpdateOne, LiveNetworks
    <2> QED
      BY <1>2, <2>1, <2>2, <2>3, SerialLive, SerialUses, SerialWrites
         DEF Serial!EditNetwork, Turns, AllSent
  <1>3. ASSUME NEW n \in LiveNetworks, ~NetworkUsed(n),
               Start(TheThread, <<Delete("networks", n)>>, {})
        PROVE  Serial!DeleteNetwork(n)
    <2>1. Turns([networks EXCEPT ![n] = None], hosts, clients, keys, dnsServers, allowedIps)
      <3>1. Delete("networks", n).coll = "networks"
        BY WriteFields
      <3>2. Written(networks, Delete("networks", n)) = [networks EXCEPT ![n] = None]
        BY DocumentWrites
      <3> QED
        BY <1>3, <3>1, <3>2, OneSent
    <2>2. issued' = issued
      BY <1>3 DEF Start
    <2> QED
      BY <1>3, <2>1, <2>2, SerialLive, SerialUses DEF Serial!DeleteNetwork, Turns, AllSent
  <1>4. Serial!NetworkType = NetworkType /\ LiveNetworks \subseteq Network
    BY DEF Serial!NetworkType, NetworkType, LiveNetworks
  <1> QED
    BY <1>1, <1>2, <1>3, <1>4 DEF NetworkRequest, Serial!NetworkNext

\* One write of a host.
LEMMA OneOnHost ==
    ASSUME BeginsAlone, NEW op, NEW h, NEW n, NEW v, NEW new,
           Start(TheThread, <<OnHost(op, h, n, v)>>, new)
    PROVE  Turns(networks, Written(hosts, OnHost(op, h, n, v)), clients, keys, dnsServers, allowedIps)
  <1>1. OnHost(op, h, n, v).coll = "hosts"
    BY WriteFields
  <1> QED
    BY <1>1, OneSent

\* One write of a client.
LEMMA OneOnClient ==
    ASSUME BeginsAlone, NEW op, NEW c, NEW n, NEW v, NEW new,
           Start(TheThread, <<OnClient(op, c, n, v)>>, new)
    PROVE  Turns(networks, hosts, Written(clients, OnClient(op, c, n, v)), keys, dnsServers, allowedIps)
  <1>1. OnClient(op, c, n, v).coll = "clients"
    BY WriteFields
  <1> QED
    BY <1>1, OneSent

\* What a request hands out.
LEMMA Issues ==
    ASSUME NEW w, NEW ws, NEW new, Start(w, ws, new)
    PROVE  issued' = issued \cup new /\ \A id \in new : Fresh(id)
  BY DEF Start

LEMMA HostRequestSerial ==
    ASSUME BeginsAlone, HostRequest(TheThread)
    PROVE  Serial!HostNext
  <1>1. ASSUME NEW h \in Host, Start(TheThread, <<Insert("hosts", h, NewHost)>>, {h})
        PROVE  Serial!CreateHost(h)
    <2>1. Insert("hosts", h, NewHost).coll = "hosts"
      BY WriteFields
    <2>2. Written(hosts, Insert("hosts", h, NewHost)) = [hosts EXCEPT ![h] = NewHost]
      BY DocumentWrites
    <2>3. Turns(networks, [hosts EXCEPT ![h] = NewHost], clients, keys, dnsServers, allowedIps)
      BY <1>1, <2>1, <2>2, OneSent
    <2>4. issued' = issued \cup {h} /\ Fresh(h)
      BY <1>1, Issues
    <2> QED
      BY <2>3, <2>4, SerialLive, SerialWrites DEF Serial!CreateHost, Turns, AllSent
  <1>2. ASSUME NEW h \in Host, CanDeleteHost(h), Start(TheThread, <<Delete("hosts", h)>>, {})
        PROVE  Serial!DeleteHost(h)
    <2>1. Delete("hosts", h).coll = "hosts"
      BY WriteFields
    <2>2. Written(hosts, Delete("hosts", h)) = [hosts EXCEPT ![h] = None]
      BY DocumentWrites
    <2>3. Turns(networks, [hosts EXCEPT ![h] = None], clients, keys, dnsServers, allowedIps)
      BY <1>2, <2>1, <2>2, OneSent
    <2>4. issued' = issued
      BY <1>2, Issues
    <2> QED
      BY <1>2, <2>3, <2>4, SerialHostChecks DEF Serial!DeleteHost, Turns, AllSent
  <1>3. ASSUME NEW h \in Host, NEW n \in Network, NEW ip \in Address, NEW t \in InterfaceType,
               NEW d \in DnsChoice, CanAddInterface(h, n, ip, t, d),
               Start(TheThread, <<OnHost("push_interface", h, n, NewInterface(n, ip, t, d))>>, {})
        PROVE  Serial!AddInterface(h, n, ip, t, d)
    <2>1. Turns(networks, PushInterface(hosts, h, NewInterface(n, ip, t, d)), clients, keys, dnsServers, allowedIps)
      BY <1>3, OneOnHost, HostUpdates
    <2>2. issued' = issued
      BY <1>3, Issues
    <2> QED
      BY <1>3, <2>1, <2>2, SerialHostChecks, SerialWrites DEF Serial!AddInterface, Turns, AllSent
  <1>4. ASSUME NEW h \in Host, NEW n \in Network, NEW ip \in Address, NEW t \in InterfaceType,
               NEW d \in DnsChoice, NEW n0 \in Network, CanEditInterface(h, n0, n, ip, t, d),
               Start(TheThread, <<OnHost("set_interface", h, n0, NewInterface(n, ip, t, d))>>, {})
        PROVE  Serial!EditInterface(h, n0, n, ip, t, d)
    <2>1. Turns(networks, SetInterface(hosts, h, n0, NewInterface(n, ip, t, d)), clients, keys, dnsServers, allowedIps)
      BY <1>4, OneOnHost, HostUpdates
    <2>2. issued' = issued
      BY <1>4, Issues
    <2> QED
      BY <1>4, <2>1, <2>2, SerialHostChecks, SerialWrites DEF Serial!EditInterface, Turns, AllSent
  <1>5. ASSUME NEW h \in Host, NEW n \in Network, CanRemoveInterface(h, n),
               Start(TheThread, <<OnHost("pull_interface", h, n, None)>>, {})
        PROVE  Serial!RemoveInterface(h, n)
    <2>1. Turns(networks, PullInterface(hosts, h, n), clients, keys, dnsServers, allowedIps)
      BY <1>5, OneOnHost, HostUpdates
    <2>2. issued' = issued
      BY <1>5, Issues
    <2> QED
      BY <1>5, <2>1, <2>2, SerialHostChecks, SerialWrites DEF Serial!RemoveInterface, Turns, AllSent
  <1>6. Serial!InterfaceType = InterfaceType /\ DnsChoice \subseteq DnsServer \cup {None}
    BY DEF Serial!InterfaceType, InterfaceType, DnsChoice, BeginsAlone, TypeOK
  <1>7. CASE \E h \in Host : Start(TheThread, <<Insert("hosts", h, NewHost)>>, {h})
    BY <1>1, <1>7 DEF Serial!HostNext
  <1>8. CASE \E h \in Host : CanDeleteHost(h) /\ Start(TheThread, <<Delete("hosts", h)>>, {})
    BY <1>2, <1>8 DEF Serial!HostNext
  <1>9. CASE \E h \in Host, n \in Network, ip \in Address, t \in InterfaceType, d \in DnsChoice :
               /\ CanAddInterface(h, n, ip, t, d)
               /\ Start(TheThread, <<OnHost("push_interface", h, n, NewInterface(n, ip, t, d))>>, {})
    BY <1>3, <1>6, <1>9 DEF Serial!HostNext
  <1>10. CASE \E h \in Host, n \in Network, ip \in Address, t \in InterfaceType, d \in DnsChoice,
                 n0 \in Network :
               /\ CanEditInterface(h, n0, n, ip, t, d)
               /\ Start(TheThread, <<OnHost("set_interface", h, n0, NewInterface(n, ip, t, d))>>, {})
    BY <1>4, <1>6, <1>10 DEF Serial!HostNext
  <1>11. CASE \E h \in Host, n \in Network :
               CanRemoveInterface(h, n) /\ Start(TheThread, <<OnHost("pull_interface", h, n, None)>>, {})
    BY <1>5, <1>11 DEF Serial!HostNext
  <1> QED
    BY <1>7, <1>8, <1>9, <1>10, <1>11 DEF HostRequest

LEMMA PeerRequestSerial ==
    ASSUME BeginsAlone, PeerRequest(TheThread)
    PROVE  Serial!HostNext
  <1>1. \A op, h, n, v : OnHost(op, h, n, v).coll = "hosts"
    BY WriteFields
  <1>2. ASSUME NEW h \in Host, NEW p \in Host, NEW n \in Network, NEW a \in AllowedIpsSet,
               CanAddPeerConnection(h, p, n, a), Start(TheThread, PeerWrites(h, p, n, a), {})
        PROVE  Serial!AddPeerConnection(h, p, n, a)
    <2> DEFINE u == OnHost("push_peer", h, n, NewPeer(p, n, a))
               v == OnHost("push_peer", p, n, NewPeer(h, n, a))
    <2>1. Start(TheThread, <<u, v>>, {})
      BY <1>2 DEF PeerWrites
    <2>2. u.coll = "hosts" /\ v.coll = "hosts"
      BY <1>1
    <2>3. /\ \A hs : Written(hs, u) = PushPeer(hs, h, NewPeer(p, n, a))
          /\ \A hs : Written(hs, v) = PushPeer(hs, p, NewPeer(h, n, a))
      BY HostUpdates
    <2> HIDE DEF u, v
    <2>4. Turns(networks, PushPeer(PushPeer(hosts, h, NewPeer(p, n, a)), p, NewPeer(h, n, a)),
                clients, keys, dnsServers, allowedIps)
      BY <2>1, <2>2, <2>3, TwoOfHosts
    <2>5. issued' = issued
      BY <2>1, Issues
    <2> QED
      BY <1>2, <2>4, <2>5, SerialHostChecks, SerialWrites DEF Serial!AddPeerConnection, Turns, AllSent
  <1>3. ASSUME NEW h \in Host, NEW p \in Host, NEW n \in Network,
               Start(TheThread, <<OnHost("pull_peer", h, n, p), OnHost("pull_peer", p, n, h)>>, {})
        PROVE  Serial!RemovePeerConnection(h, p, n)
    <2> DEFINE u == OnHost("pull_peer", h, n, p)
               v == OnHost("pull_peer", p, n, h)
    <2>1. Start(TheThread, <<u, v>>, {})
      BY <1>3
    <2>2. u.coll = "hosts" /\ v.coll = "hosts"
      BY <1>1
    <2>3. /\ \A hs : Written(hs, u) = PullPeer(hs, h, p, n)
          /\ \A hs : Written(hs, v) = PullPeer(hs, p, h, n)
      BY HostUpdates
    <2> HIDE DEF u, v
    <2>4. Turns(networks, PullPeer(PullPeer(hosts, h, p, n), p, h, n), clients, keys, dnsServers, allowedIps)
      BY <2>1, <2>2, <2>3, TwoOfHosts
    <2>5. issued' = issued
      BY <2>1, Issues
    <2> QED
      BY <2>4, <2>5, SerialWrites DEF Serial!RemovePeerConnection, Turns, AllSent
  <1> QED
    BY <1>2, <1>3 DEF PeerRequest, Serial!HostNext

\* The clients and hosts that are live are some of them, and the DNS choices too.
LEMMA SerialSets ==
    ASSUME BeginsAlone
    PROVE  /\ LiveClients \subseteq Client /\ DnsChoice \subseteq DnsServer \cup {None}
           /\ keys \subseteq Key /\ dnsServers \subseteq DnsServer
           /\ allowedIps \subseteq AllowedIpsSet
  BY DEF BeginsAlone, TypeOK, LiveClients, DnsChoice

LEMMA KeyRequestSerial ==
    ASSUME BeginsAlone, KeyRequest(TheThread)
    PROVE  Serial!HostNext \/ Serial!ClientNext \/ Serial!PresetNext
  <1>1. ASSUME NEW h \in Host, NEW n \in Network, NEW k \in Key, KeyableInterface(h, n),
               Start(TheThread, StoreThenPoint(k, OnHost("set_interface_key", h, n, k)), {k})
        PROVE  Serial!RotateInterfaceKey(h, n, k)
    <2> DEFINE v == OnHost("set_interface_key", h, n, k)
    <2>1. Start(TheThread, <<InsertId("keys", k), v>>, {k})
      BY <1>1 DEF StoreThenPoint
    <2>2. v.coll = "hosts" /\ Written(hosts, v) = SetInterfaceKey(hosts, h, n, k)
      BY WriteFields, HostUpdates
    <2> HIDE DEF v
    <2>3. Turns(networks, SetInterfaceKey(hosts, h, n, k), clients, keys \cup {k}, dnsServers, allowedIps)
      BY <2>1, <2>2, KeyThenPoint
    <2>4. issued' = issued \cup {k} /\ Fresh(k)
      BY <2>1, Issues
    <2> QED
      BY <1>1, <2>3, <2>4, SerialLive, SerialUses, SerialWrites
         DEF Serial!RotateInterfaceKey, Turns, AllSent
  <1>2. ASSUME NEW h \in Host, NEW n \in Network, NEW k \in Key, KeyableInterface(h, n), k \in keys,
               Start(TheThread, <<OnHost("set_interface_key", h, n, k)>>, {})
        PROVE  Serial!AssignInterfaceKey(h, n, k)
    <2>1. Turns(networks, SetInterfaceKey(hosts, h, n, k), clients, keys, dnsServers, allowedIps)
      BY <1>2, OneOnHost, HostUpdates
    <2>2. issued' = issued
      BY <1>2, Issues
    <2> QED
      BY <1>2, <2>1, <2>2, SerialUses, SerialWrites DEF Serial!AssignInterfaceKey, Turns, AllSent
  <1>3. ASSUME NEW c \in LiveClients, NEW k \in Key,
               Start(TheThread, StoreThenPoint(k, OnClient("set_key", c, None, k)), {k})
        PROVE  Serial!RotateKey(c, k)
    <2> DEFINE v == OnClient("set_key", c, None, k)
    <2>1. Start(TheThread, <<InsertId("keys", k), v>>, {k})
      BY <1>3 DEF StoreThenPoint
    <2>2. v.coll = "clients" /\ Written(clients, v) = SetClientKey(clients, c, k)
      BY WriteFields, ClientUpdates
    <2> HIDE DEF v
    <2>3. Turns(networks, hosts, SetClientKey(clients, c, k), keys \cup {k}, dnsServers, allowedIps)
      BY <2>1, <2>2, KeyThenPoint
    <2>4. issued' = issued \cup {k} /\ Fresh(k)
      BY <2>1, Issues
    <2> QED
      BY <1>3, <2>3, <2>4, SerialLive, SerialWrites DEF Serial!RotateKey, Turns, AllSent
  <1>4. ASSUME NEW c \in LiveClients, NEW k \in Key, k \in keys,
               Start(TheThread, <<OnClient("set_key", c, None, k)>>, {})
        PROVE  Serial!AssignExistingKey(c, k)
    <2>1. Turns(networks, hosts, SetClientKey(clients, c, k), keys, dnsServers, allowedIps)
      BY <1>4, OneOnClient, ClientUpdates
    <2>2. issued' = issued
      BY <1>4, Issues
    <2> QED
      BY <1>4, <2>1, <2>2, SerialLive, SerialWrites DEF Serial!AssignExistingKey, Turns, AllSent
  <1>5. ASSUME NEW k \in Key, Start(TheThread, <<InsertId("keys", k)>>, {k})
        PROVE  Serial!CreateKey(k)
    <2>1. InsertId("keys", k).coll = "keys" /\ Written(keys, InsertId("keys", k)) = keys \cup {k}
      BY WriteFields, IdWrites
    <2>2. Turns(networks, hosts, clients, keys \cup {k}, dnsServers, allowedIps)
      BY <1>5, <2>1, OneSent
    <2>3. issued' = issued \cup {k} /\ Fresh(k)
      BY <1>5, Issues
    <2> QED
      BY <2>2, <2>3, SerialLive DEF Serial!CreateKey, Turns, AllSent
  <1>6. ASSUME NEW k \in keys, ~KeyUsed(k), Start(TheThread, <<DeleteId("keys", k)>>, {})
        PROVE  Serial!DeleteKey(k)
    <2>1. DeleteId("keys", k).coll = "keys" /\ Written(keys, DeleteId("keys", k)) = keys \ {k}
      BY WriteFields, IdWrites
    <2>2. Turns(networks, hosts, clients, keys \ {k}, dnsServers, allowedIps)
      BY <1>6, <2>1, OneSent
    <2>3. issued' = issued
      BY <1>6, Issues
    <2> QED
      BY <1>6, <2>2, <2>3, SerialUses DEF Serial!DeleteKey, Turns, AllSent
  <1>7. CASE \E h \in Host, n \in Network, k \in Key :
               /\ KeyableInterface(h, n)
               /\ \/ Start(TheThread, StoreThenPoint(k, OnHost("set_interface_key", h, n, k)), {k})
                  \/ k \in keys /\ Start(TheThread, <<OnHost("set_interface_key", h, n, k)>>, {})
    BY <1>1, <1>2, <1>7 DEF Serial!HostNext
  <1>8. CASE \E c \in LiveClients, k \in Key :
               \/ Start(TheThread, StoreThenPoint(k, OnClient("set_key", c, None, k)), {k})
               \/ k \in keys /\ Start(TheThread, <<OnClient("set_key", c, None, k)>>, {})
    BY <1>3, <1>4, <1>8, SerialSets DEF Serial!ClientNext
  <1>9. CASE \E k \in Key : Start(TheThread, <<InsertId("keys", k)>>, {k})
    BY <1>5, <1>9 DEF Serial!PresetNext
  <1>10. CASE \E k \in keys : ~KeyUsed(k) /\ Start(TheThread, <<DeleteId("keys", k)>>, {})
    BY <1>6, <1>10, SerialSets DEF Serial!PresetNext
  <1> QED
    BY <1>7, <1>8, <1>9, <1>10
       DEF KeyRequest, InterfaceKeyRequest, ClientKeyRequest, StoredKeyRequest

LEMMA PresetRequestSerial ==
    ASSUME BeginsAlone, PresetRequest(TheThread)
    PROVE  Serial!PresetNext
  <1>1. ASSUME NEW d \in DnsServer, Start(TheThread, <<InsertId("dnsServers", d)>>, {d})
        PROVE  Serial!CreateDnsServer(d)
    <2>1. /\ InsertId("dnsServers", d).coll = "dnsServers"
          /\ Written(dnsServers, InsertId("dnsServers", d)) = dnsServers \cup {d}
      BY WriteFields, IdWrites
    <2>2. Turns(networks, hosts, clients, keys, dnsServers \cup {d}, allowedIps)
      BY <1>1, <2>1, OneSent
    <2>3. issued' = issued \cup {d} /\ Fresh(d)
      BY <1>1, Issues
    <2> QED
      BY <2>2, <2>3, SerialLive DEF Serial!CreateDnsServer, Turns, AllSent
  <1>2. ASSUME NEW d \in dnsServers, ~DnsServerInUse(d), Start(TheThread, <<DeleteId("dnsServers", d)>>, {})
        PROVE  Serial!DeleteDnsServer(d)
    <2>1. /\ DeleteId("dnsServers", d).coll = "dnsServers"
          /\ Written(dnsServers, DeleteId("dnsServers", d)) = dnsServers \ {d}
      BY WriteFields, IdWrites
    <2>2. Turns(networks, hosts, clients, keys, dnsServers \ {d}, allowedIps)
      BY <1>2, <2>1, OneSent
    <2>3. issued' = issued
      BY <1>2, Issues
    <2> QED
      BY <1>2, <2>2, <2>3, SerialUses DEF Serial!DeleteDnsServer, Turns, AllSent
  <1>3. ASSUME NEW a \in AllowedIpsSet, Start(TheThread, <<InsertId("allowedIps", a)>>, {a})
        PROVE  Serial!CreateAllowedIpsSet(a)
    <2>1. /\ InsertId("allowedIps", a).coll = "allowedIps"
          /\ Written(allowedIps, InsertId("allowedIps", a)) = allowedIps \cup {a}
      BY WriteFields, IdWrites
    <2>2. Turns(networks, hosts, clients, keys, dnsServers, allowedIps \cup {a})
      BY <1>3, <2>1, OneSent
    <2>3. issued' = issued \cup {a} /\ Fresh(a)
      BY <1>3, Issues
    <2> QED
      BY <2>2, <2>3, SerialLive DEF Serial!CreateAllowedIpsSet, Turns, AllSent
  <1>4. ASSUME NEW a \in allowedIps, ~AllowedIpsInUse(a), Start(TheThread, <<DeleteId("allowedIps", a)>>, {})
        PROVE  Serial!DeleteAllowedIpsSet(a)
    <2>1. /\ DeleteId("allowedIps", a).coll = "allowedIps"
          /\ Written(allowedIps, DeleteId("allowedIps", a)) = allowedIps \ {a}
      BY WriteFields, IdWrites
    <2>2. Turns(networks, hosts, clients, keys, dnsServers, allowedIps \ {a})
      BY <1>4, <2>1, OneSent
    <2>3. issued' = issued
      BY <1>4, Issues
    <2> QED
      BY <1>4, <2>2, <2>3, SerialUses DEF Serial!DeleteAllowedIpsSet, Turns, AllSent
  <1> QED
    BY <1>1, <1>2, <1>3, <1>4, SerialSets
       DEF PresetRequest, DnsServerRequest, AllowedIpsRequest, Serial!PresetNext

\* The clients with a new one, and with a new one that has a key.
WithClient(c, d) == [clients EXCEPT ![c] = NewClient(d)]
WithKeyed(c, d, k) == [clients EXCEPT ![c] = [NewClient(d) EXCEPT !.active_key_id = k]]

\* A client that is inserted and then given a key is a client with that key.
LEMMA ClientGivenKey ==
    ASSUME TypeOK, NEW c \in Client, NEW d \in DnsServer \cup {None}, NEW k \in Key
    PROVE  SetClientKey(WithClient(c, d), c, k) = WithKeyed(c, d, k)
  <1> DEFINE cs == [clients EXCEPT ![c] = NewClient(d)]
             doc == [NewClient(d) EXCEPT !.active_key_id = k]
  <1>1. NewClient(d) # None
    <2>1. NewClient(d) \in ClientDoc
      BY DEF NewClient, ClientDoc
    <2> QED
      BY <2>1, NoneAssumption
  <1>2. cs[c] = NewClient(d)
    BY DEF TypeOK
  <1>3. SetClientKey(cs, c, k) = UpdateOne(cs, c, doc)
    BY <1>2 DEF SetClientKey
  <1>4. UpdateOne(cs, c, doc) = [cs EXCEPT ![c] = doc]
    BY <1>1, <1>2 DEF UpdateOne
  <1> HIDE DEF doc
  <1>5. [cs EXCEPT ![c] = doc] = [clients EXCEPT ![c] = doc]
    BY DEF TypeOK
  <1> QED
    BY <1>3, <1>4, <1>5 DEF doc, WithClient, WithKeyed

LEMMA CreateClientRequestSerial ==
    ASSUME BeginsAlone, NEW c \in Client, NEW d \in DnsChoice, NEW k \in Key,
           CreateClientRequest(TheThread, c, d, k)
    PROVE  Serial!CreateClient(c, d, k) \/ Serial!CreateClientWithKey(c, d, k)
  <1> DEFINE u == Insert("clients", c, NewClient(d))
             v == OnClient("set_key", c, None, k)
  <1>1. d \in DnsServer \cup {None} /\ TypeOK
    BY SerialSets DEF BeginsAlone
  <1>2. \/ Start(TheThread, <<u, InsertId("keys", k), v>>, {c, k})
        \/ k \in keys /\ Start(TheThread, <<u, v>>, {c})
    <2>1. <<u>> \o StoreThenPoint(k, v) = <<u, InsertId("keys", k), v>>
      BY OneAndTwo DEF StoreThenPoint
    <2> QED
      BY <2>1 DEF CreateClientRequest
  <1>3. /\ u.coll = "clients" /\ v.coll = "clients"
        /\ Written(clients, u) = WithClient(c, d)
        /\ \A cs : Written(cs, v) = SetClientKey(cs, c, k)
    BY WriteFields, DocumentWrites, ClientUpdates DEF WithClient
  <1> HIDE DEF u, v
  <1>4. Written(Written(clients, u), v) = WithKeyed(c, d, k)
    BY <1>1, <1>3, ClientGivenKey
  <1>5. CASE Start(TheThread, <<u, InsertId("keys", k), v>>, {c, k})
    <2>1. Turns(networks, hosts, Written(Written(clients, u), v), keys \cup {k}, dnsServers, allowedIps)
      BY <1>3, <1>5, ClientKeyThenPoint
    <2>2. issued' = issued \cup {c, k} /\ Fresh(c) /\ Fresh(k)
      BY <1>5, Issues
    <2>3. Serial!CreateClient(c, d, k)
      BY <1>4, <2>1, <2>2, SerialLive, SerialWrites DEF WithKeyed, Serial!CreateClient, Turns, AllSent
    <2> QED
      BY <2>3
  <1>6. CASE k \in keys /\ Start(TheThread, <<u, v>>, {c})
    <2>1. Turns(networks, hosts, Written(Written(clients, u), v), keys, dnsServers, allowedIps)
      BY <1>3, <1>6, TwoOfClients
    <2>2. issued' = issued \cup {c} /\ Fresh(c)
      BY <1>6, Issues
    <2>3. Serial!CreateClientWithKey(c, d, k)
      BY <1>4, <1>6, <2>1, <2>2, SerialLive, SerialWrites DEF WithKeyed, Serial!CreateClientWithKey, Turns, AllSent
    <2> QED
      BY <2>3
  <1> QED
    BY <1>2, <1>5, <1>6

LEMMA ClientRequestSerial ==
    ASSUME BeginsAlone, ClientRequest(TheThread)
    PROVE  Serial!ClientNext
  <1>1. CASE \E c \in Client, d \in DnsChoice, k \in Key : CreateClientRequest(TheThread, c, d, k)
    BY <1>1, CreateClientRequestSerial, SerialSets DEF Serial!ClientNext
  <1>2. ASSUME NEW c \in LiveClients, Start(TheThread, <<Delete("clients", c)>>, {})
        PROVE  Serial!DeleteClient(c)
    <2>1. Delete("clients", c).coll = "clients"
      BY WriteFields
    <2>2. Written(clients, Delete("clients", c)) = [clients EXCEPT ![c] = None]
      BY DocumentWrites
    <2>3. Turns(networks, hosts, [clients EXCEPT ![c] = None], keys, dnsServers, allowedIps)
      BY <1>2, <2>1, <2>2, OneSent
    <2>4. issued' = issued
      BY <1>2, Issues
    <2> QED
      BY <1>2, <2>3, <2>4, SerialLive DEF Serial!DeleteClient, Turns, AllSent
  <1>3. ASSUME NEW c \in LiveClients, NEW d \in DnsChoice,
               Start(TheThread, <<OnClient("set_dns", c, None, d)>>, {})
        PROVE  Serial!EditClient(c, d)
    <2>1. Turns(networks, hosts, SetClientDns(clients, c, d), keys, dnsServers, allowedIps)
      BY <1>3, OneOnClient, ClientUpdates
    <2>2. issued' = issued
      BY <1>3, Issues
    <2> QED
      BY <1>3, <2>1, <2>2, SerialLive, SerialWrites DEF Serial!EditClient, Turns, AllSent
  <1>4. ASSUME NEW c \in LiveClients, NEW n \in Network, NEW ip \in Address,
               CanAddNetworkMembership(c, n, ip),
               Start(TheThread, <<OnClient("push_membership", c, n, ip)>>, {})
        PROVE  Serial!AddNetworkMembership(c, n, ip)
    <2>1. Turns(networks, hosts, PushMembership(clients, c, n, ip), keys, dnsServers, allowedIps)
      BY <1>4, OneOnClient, ClientUpdates
    <2>2. issued' = issued
      BY <1>4, Issues
    <2> QED
      BY <1>4, <2>1, <2>2, SerialClientChecks, SerialWrites DEF Serial!AddNetworkMembership, Turns, AllSent
  <1>5. ASSUME NEW c \in LiveClients, NEW n \in Network, CanRemoveNetworkMembership(c, n),
               Start(TheThread, <<OnClient("pull_membership", c, n, None)>>, {})
        PROVE  Serial!RemoveNetworkMembership(c, n)
    <2>1. Turns(networks, hosts, PullMembership(clients, c, n), keys, dnsServers, allowedIps)
      BY <1>5, OneOnClient, ClientUpdates
    <2>2. issued' = issued
      BY <1>5, Issues
    <2> QED
      BY <1>5, <2>1, <2>2, SerialClientChecks, SerialWrites DEF Serial!RemoveNetworkMembership, Turns, AllSent
  <1>6. ASSUME NEW c \in LiveClients, NEW n \in Network, NEW h \in Host, NEW a \in AllowedIpsSet,
               CanAddConnection(c, h, n, a),
               Start(TheThread, <<OnClient("push_connection", c, n, NewConnection(h, n, a))>>, {})
        PROVE  Serial!AddConnection(c, h, n, a)
    <2>1. Turns(networks, hosts, PushConnection(clients, c, NewConnection(h, n, a)), keys, dnsServers, allowedIps)
      BY <1>6, OneOnClient, ClientUpdates
    <2>2. issued' = issued
      BY <1>6, Issues
    <2> QED
      BY <1>6, <2>1, <2>2, SerialClientChecks, SerialWrites DEF Serial!AddConnection, Turns, AllSent
  <1>7. ASSUME NEW c \in LiveClients, NEW x \in clients[c].connections,
               Start(TheThread, <<OnClient("set_connections", c, None, clients[c].connections \ {x})>>, {})
        PROVE  Serial!RemoveConnection(c, x)
    <2>1. Turns(networks, hosts, SetConnections(clients, c, clients[c].connections \ {x}), keys, dnsServers, allowedIps)
      BY <1>7, OneOnClient, ClientUpdates
    <2>2. issued' = issued
      BY <1>7, Issues
    <2> QED
      BY <1>7, <2>1, <2>2, SerialLive, SerialWrites DEF Serial!RemoveConnection, Turns, AllSent
  <1>8. /\ LiveClients \subseteq Client /\ DnsChoice \subseteq DnsServer \cup {None}
        /\ \A c \in LiveClients : clients[c].connections \subseteq Connection
        /\ Serial!Connection = Connection
    BY SerialSets, LiveDocs DEF BeginsAlone, ClientDoc, Serial!Connection, Connection
  <1>9. CASE \E c \in LiveClients :
               \/ Start(TheThread, <<Delete("clients", c)>>, {})
               \/ \E d \in DnsChoice : Start(TheThread, <<OnClient("set_dns", c, None, d)>>, {})
    BY <1>2, <1>3, <1>8, <1>9 DEF Serial!ClientNext
  <1>10. CASE \E c \in LiveClients, n \in Network :
                \/ \E ip \in Address : /\ CanAddNetworkMembership(c, n, ip)
                                       /\ Start(TheThread, <<OnClient("push_membership", c, n, ip)>>, {})
                \/ /\ CanRemoveNetworkMembership(c, n)
                   /\ Start(TheThread, <<OnClient("pull_membership", c, n, None)>>, {})
    BY <1>4, <1>5, <1>8, <1>10 DEF Serial!ClientNext
  <1>11. CASE \E c \in LiveClients, n \in Network, h \in Host, a \in AllowedIpsSet :
                /\ CanAddConnection(c, h, n, a)
                /\ Start(TheThread, <<OnClient("push_connection", c, n, NewConnection(h, n, a))>>, {})
    <2>1. PICK c \in Client, n \in Network, h \in Host, a \in AllowedIpsSet : Serial!AddConnection(c, h, n, a)
      BY <1>6, <1>8, <1>11
    <2> DEFINE x == [host_id |-> h, network_id |-> n, allowed_ips_set_id |-> a]
    <2>2. /\ x \in Serial!Connection
          /\ x.host_id = h /\ x.network_id = n /\ x.allowed_ips_set_id = a
      BY DEF Serial!Connection
    <2> HIDE DEF x
    <2> QED
      BY <2>1, <2>2 DEF Serial!ClientNext
  <1>12. CASE \E c \in LiveClients : \E x \in clients[c].connections :
                Start(TheThread, <<OnClient("set_connections", c, None, clients[c].connections \ {x})>>, {})
    BY <1>7, <1>8, <1>12 DEF Serial!ClientNext
  <1> QED
    BY <1>1, <1>9, <1>10, <1>11, <1>12 DEF ClientRequest

LEMMA BeginSerial ==
    ASSUME TypeOK, PendingOK, TheThread \in Thread, Begin(TheThread)
    PROVE  Serial!Next
  <1>1. BeginsAlone
    BY DEF Begin, BeginsAlone
  <1>2. CASE NetworkRequest(TheThread)
    BY <1>1, <1>2, NetworkRequestSerial DEF Serial!Next
  <1>3. CASE HostRequest(TheThread)
    BY <1>1, <1>3, HostRequestSerial DEF Serial!Next
  <1>4. CASE PeerRequest(TheThread)
    BY <1>1, <1>4, PeerRequestSerial DEF Serial!Next
  <1>5. CASE KeyRequest(TheThread)
    BY <1>1, <1>5, KeyRequestSerial DEF Serial!Next
  <1>6. CASE ClientRequest(TheThread)
    BY <1>1, <1>6, ClientRequestSerial DEF Serial!Next
  <1>7. CASE PresetRequest(TheThread)
    BY <1>1, <1>7, PresetRequestSerial DEF Serial!Next
  <1> QED
    BY <1>2, <1>3, <1>4, <1>5, <1>6, <1>7 DEF Begin

LEMMA SendSerial ==
    ASSUME TypeOK, PendingOK, TheThread \in Thread, Send(TheThread)
    PROVE  UNCHANGED Serial!vars
  <1>1. Drained' = Drained
    BY SendDrained
  <1>2. issued' = issued
    BY DEF Send
  <1> QED
    BY <1>1, <1>2 DEF Serial!vars

LEMMA RequestsInitSerial ==
    ASSUME RequestsInit, TheThread \in Thread
    PROVE  Serial!Init
  <1>1. pending[TheThread] = <<>>
    BY DEF RequestsInit
  <1>2. Drained = Db
    BY <1>1, AllWrittenShort DEF Drained
  <1> QED
    BY <1>2 DEF Db, RequestsInit, Serial!Init

\* With one thread that is not killed, the handlers, write by write, implement the
\* atomic handlers of Inventory: a request takes effect as a whole when it begins, and
\* the writes it then sends change nothing of what the database will be.
THEOREM RequestsImplementInventory ==
    ASSUME NEW CONSTANT only, Thread = {only}, ~MayBeKilled
    PROVE  RequestsSpec => ImplementsInventory
  <1>1. TheThread \in Thread /\ \A w \in Thread : w = TheThread
    BY DEF TheThread
  <1>2. RequestsInit => Serial!Init
    BY <1>1, RequestsInitSerial
  <1>3. ASSUME TypeOK, PendingOK, [RequestsNext]_rvars
        PROVE  [Serial!Next]_(Serial!vars)
    <2>1. CASE UNCHANGED rvars
      <3>1. Drained' = Drained
        BY <2>1 DEF rvars, vars, Drained, Db
      <3> QED
        BY <2>1, <3>1 DEF rvars, vars, Serial!vars
    <2>2. CASE Begin(TheThread)
      BY <1>1, <1>3, <2>2, BeginSerial
    <2>3. CASE Send(TheThread)
      BY <1>1, <1>3, <2>3, SendSerial
    <2>4. ~Kill(TheThread)
      BY DEF Kill
    <2> QED
      BY <1>1, <1>3, <2>1, <2>2, <2>3, <2>4 DEF RequestsNext
  <1> QED
    BY <1>2, <1>3, RequestsInitTypeOK, RequestsNextTypeOK, PTL
       DEF RequestsSpec, ImplementsInventory, Serial!Spec
=============================================================================
