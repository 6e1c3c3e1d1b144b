----------------------------- MODULE LinksProofs -----------------------------
(***************************************************************************)
(* Links between interfaces: the peer connections of hosts and the         *)
(* connections of clients.  Each link is stored apart from the interfaces  *)
(* it runs over, and a peer connection twice, so that the handlers of one  *)
(* collection have to keep what those of another rely on.                  *)
(***************************************************************************)
EXTENDS InventoryProofs

-----------------------------------------------------------------------------
(* What a step may do to the hosts, as far as links are concerned. *)

\* The interfaces of h change to ms, and h stays on every network that a link of it
\* runs over.
LinksSpared(h, ms) ==
    /\ OnlyInterfaces(h, ms)
    /\ \A n \in Network : MemberOf(hosts[h], n) =>
          \/ \E m \in ms : m.network_id = n
          \/ ~PeersOn(h, n) /\ ~ClientConnected(h, n)

LEMMA AddInterfaceSpares ==
    ASSUME TypeOK, NEW h \in Host, NEW n \in Network, NEW ip \in Address,
           NEW t \in InterfaceType, NEW d \in DnsServer \cup {None}, AddInterface(h, n, ip, t, d)
    PROVE  h \in LiveHosts /\ \E ms : LinksSpared(h, ms)
  <1> DEFINE ms == hosts[h].network_memberships \cup {NewInterface(n, ip, t, d)}
  <1>1. h \in LiveHosts /\ OnlyInterfaces(h, ms)
    BY AddInterfaceEffect
  <1>2. LinksSpared(h, ms)
    BY <1>1 DEF LinksSpared, MemberOf
  <1> QED
    BY <1>1, <1>2

LEMMA EditInterfaceSpares ==
    ASSUME TypeOK, NEW h \in Host, NEW n0 \in Network, NEW n \in Network, NEW ip \in Address,
           NEW t \in InterfaceType, NEW d \in DnsServer \cup {None},
           EditInterface(h, n0, n, ip, t, d)
    PROVE  h \in LiveHosts /\ \E ms : LinksSpared(h, ms)
  <1> DEFINE new == NewInterface(n, ip, t, d)
  <1>1. h \in LiveHosts /\ OnlyInterfaces(h, Edited(h, n0, new))
    BY EditInterfaceEffect
  <1>2. \A k : [new EXCEPT !.active_key_id = k].network_id = n
    BY DEF NewInterface
  <1>3. n # n0 => ~PeersOn(h, n0) /\ ~ClientConnected(h, n0)
    BY DEF EditInterface, CanEditInterface, FreeToMove
  <1> HIDE DEF new
  <1>4. ASSUME NEW o \in hosts[h].network_memberships
        PROVE  \/ \E m \in Edited(h, n0, new) : m.network_id = o.network_id
               \/ ~PeersOn(h, o.network_id) /\ ~ClientConnected(h, o.network_id)
    <2>1. CASE o.network_id # n0
      BY <2>1 DEF Edited
    <2>2. CASE o.network_id = n0 /\ n = n0
      <3> DEFINE m == [new EXCEPT !.active_key_id = o.active_key_id]
      <3>1. m \in Edited(h, n0, new)
        BY <2>2 DEF Edited
      <3>2. m.network_id = o.network_id
        BY <1>2, <2>2
      <3> QED
        BY <3>1, <3>2
    <2>3. CASE o.network_id = n0 /\ n # n0
      BY <1>3, <2>3
    <2> QED
      BY <2>1, <2>2, <2>3
  <1>5. LinksSpared(h, Edited(h, n0, new))
    BY <1>1, <1>4 DEF LinksSpared, MemberOf
  <1> QED
    BY <1>1, <1>5

LEMMA RemoveInterfaceSpares ==
    ASSUME TypeOK, NEW h \in Host, NEW n \in Network, RemoveInterface(h, n)
    PROVE  h \in LiveHosts /\ \E ms : LinksSpared(h, ms)
  <1> DEFINE ms == {m \in hosts[h].network_memberships : m.network_id # n}
  <1>1. h \in LiveHosts /\ OnlyInterfaces(h, ms)
    BY RemoveInterfaceEffect
  <1>2. ~PeersOn(h, n) /\ ~ClientConnected(h, n)
    BY DEF RemoveInterface, CanRemoveInterface
  <1>3. LinksSpared(h, ms)
    BY <1>1, <1>2 DEF LinksSpared, MemberOf
  <1> QED
    BY <1>1, <1>3

LEMMA InterfaceKeySpares ==
    ASSUME TypeOK, NEW h \in Host, NEW n \in Network, NEW k \in Key, InterfaceKeyStep(h, n, k)
    PROVE  h \in LiveHosts /\ \E ms : LinksSpared(h, ms)
  <1>1. h \in LiveHosts /\ OnlyInterfaces(h, Rekeyed(h, n, k))
    BY InterfaceKeyEffect
  <1>2. \A m \in hosts[h].network_memberships :
           [m EXCEPT !.active_key_id = k].network_id = m.network_id
    BY <1>1, LiveDocs DEF Interface
  <1>3. \A o \in hosts[h].network_memberships :
           \E m \in Rekeyed(h, n, k) : m.network_id = o.network_id
    BY <1>2 DEF Rekeyed
  <1>4. LinksSpared(h, Rekeyed(h, n, k))
    BY <1>1, <1>3 DEF LinksSpared, MemberOf
  <1> QED
    BY <1>1, <1>4

HostLinkStep ==
    \/ UNCHANGED hosts
    \/ \E h \in LiveHosts : \E ms : LinksSpared(h, ms)
    \/ \E h, p \in Host, n \in Network, a \in AllowedIpsSet : AddPeerConnection(h, p, n, a)
    \/ \E h, p \in Host, n \in Network : RemovePeerConnection(h, p, n)
    \/ \E h \in Host : CreateHost(h) \/ DeleteHost(h)

\* Every step leaves the hosts alone, edits interfaces that carry no link or keeps
\* them on their network, or is one of the four handlers that add and remove links
\* and hosts.
LEMMA HostSteps ==
    ASSUME TypeOK, [Next]_vars
    PROVE  HostLinkStep
  <1>1. CASE NetworkNext
    BY <1>1, NetworkNextEffect DEF HostLinkStep
  <1>2. CASE HostNext
    BY <1>2, AddInterfaceSpares, EditInterfaceSpares, RemoveInterfaceSpares, InterfaceKeySpares
    DEF HostNext, HostLinkStep, InterfaceKeyStep
  <1>3. CASE ClientNext
    BY <1>3 DEF HostLinkStep, ClientNext, CreateClient, CreateClientWithKey, EditClient,
       DeleteClient, RotateKey, AssignExistingKey, AddNetworkMembership,
       RemoveNetworkMembership, AddConnection, RemoveConnection
  <1>4. CASE PresetNext
    BY <1>4, InterfaceKeySpares DEF HostLinkStep, PresetNext, InterfaceKeyStep, CreateKey,
       DeleteKey, AssignKeyToClient, CreateDnsServer, DeleteDnsServer, CreateAllowedIpsSet,
       DeleteAllowedIpsSet
  <1>5. CASE UNCHANGED vars
    BY <1>5 DEF HostLinkStep, vars
  <1> QED
    BY <1>1, <1>2, <1>3, <1>4, <1>5 DEF Next

-----------------------------------------------------------------------------
(* Peer connections. *)

\* What a peer connection brings and takes, in words of the two hosts.
LEMMA NewPeerFields ==
    ASSUME NEW p, NEW n, NEW a
    PROVE  /\ NewPeer(p, n, a).peer_host_id = p
           /\ NewPeer(p, n, a).network_id = n
           /\ NewPeer(p, n, a).allowed_ips_set_id = a
  BY DEF NewPeer

LEMMA NextPeersReciprocal ==
    ASSUME TypeOK, PeersReciprocal, [Next]_vars
    PROVE  PeersReciprocal'
  <1>1. CASE UNCHANGED hosts
    BY <1>1 DEF PeersReciprocal, LiveHosts
  <1>2. ASSUME NEW h \in LiveHosts, NEW ms, LinksSpared(h, ms)
        PROVE  PeersReciprocal'
    <2>1. LiveHosts' = LiveHosts /\ \A g \in LiveHosts :
             hosts'[g].peer_connections = hosts[g].peer_connections
      BY <1>2 DEF LinksSpared, OnlyInterfaces
    <2> QED
      BY <2>1 DEF PeersReciprocal
  <1>3. ASSUME NEW h \in Host, NEW p \in Host, NEW n \in Network, NEW a \in AllowedIpsSet,
               AddPeerConnection(h, p, n, a)
        PROVE  PeersReciprocal'
    <2>1. h \in LiveHosts /\ p \in LiveHosts \ {h} /\ LiveHosts' = LiveHosts
      BY <1>3, AddPeerConnectionEffect DEF OnlyPeers
    <2>2. /\ hosts'[h].peer_connections = hosts[h].peer_connections \cup {NewPeer(p, n, a)}
          /\ hosts'[p].peer_connections = hosts[p].peer_connections \cup {NewPeer(h, n, a)}
          /\ \A g \in LiveHosts \ {h, p} : hosts'[g] = hosts[g]
      BY <1>3, <2>1, AddPeerConnectionEffect DEF OnlyPeers
    <2>3. ASSUME NEW g \in LiveHosts, NEW x \in hosts'[g].peer_connections
          PROVE  /\ x.peer_host_id \in LiveHosts \ {g}
                 /\ NewPeer(g, x.network_id, x.allowed_ips_set_id)
                       \in hosts'[x.peer_host_id].peer_connections
      <3>1. CASE x \in hosts[g].peer_connections
        <4>1. /\ x.peer_host_id \in LiveHosts \ {g}
              /\ NewPeer(g, x.network_id, x.allowed_ips_set_id)
                    \in hosts[x.peer_host_id].peer_connections
          BY <3>1 DEF PeersReciprocal
        <4> QED
          BY <2>2, <4>1
      <3>2. CASE g = h /\ x = NewPeer(p, n, a)
        BY <2>1, <2>2, <3>2, NewPeerFields
      <3>3. CASE g = p /\ x = NewPeer(h, n, a)
        BY <2>1, <2>2, <3>3, NewPeerFields
      <3> QED
        BY <2>1, <2>2, <3>1, <3>2, <3>3
    <2> QED
      BY <2>1, <2>3 DEF PeersReciprocal
  <1>4. ASSUME NEW h \in Host, NEW p \in Host, NEW n \in Network, RemovePeerConnection(h, p, n)
        PROVE  PeersReciprocal'
    <2>1. /\ LiveHosts' = LiveHosts
          /\ \A g \in LiveHosts \ {h, p} : hosts'[g] = hosts[g]
          /\ h \in LiveHosts => hosts'[h].peer_connections =
                                   {x \in hosts[h].peer_connections : ~Names(x, p, n)}
          /\ p \in LiveHosts => hosts'[p].peer_connections =
                                   {x \in hosts[p].peer_connections : ~Names(x, h, n)}
      BY <1>4, RemovePeerConnectionEffect DEF OnlyPeers
    <2>2. ASSUME NEW g \in LiveHosts, NEW x \in hosts'[g].peer_connections
          PROVE  /\ x.peer_host_id \in LiveHosts \ {g}
                 /\ NewPeer(g, x.network_id, x.allowed_ips_set_id)
                       \in hosts'[x.peer_host_id].peer_connections
      <3> DEFINE q == x.peer_host_id
                 y == NewPeer(g, x.network_id, x.allowed_ips_set_id)
      <3>1. x \in hosts[g].peer_connections
        BY <2>1
      <3>2. q \in LiveHosts \ {g} /\ y \in hosts[q].peer_connections
        BY <3>1 DEF PeersReciprocal
      <3>3. y.peer_host_id = g /\ y.network_id = x.network_id
        BY NewPeerFields
      <3>4. /\ q = h => ~Names(y, p, n)
            /\ q = p => ~Names(y, h, n)
        <4>1. g = p => ~Names(x, h, n)
          BY <2>1
        <4>2. g = h => ~Names(x, p, n)
          BY <2>1
        <4> QED
          BY <3>3, <4>1, <4>2 DEF Names
      <3> HIDE DEF y
      <3>5. y \in hosts'[q].peer_connections
        BY <2>1, <3>2, <3>4
      <3> QED
        BY <3>2, <3>5 DEF y
    <2> QED
      BY <2>1, <2>2 DEF PeersReciprocal
  <1>5. ASSUME NEW h \in Host, CreateHost(h)
        PROVE  PeersReciprocal'
    <2>1. /\ h \notin LiveHosts /\ LiveHosts' = LiveHosts \cup {h}
          /\ \A g \in LiveHosts : hosts'[g] = hosts[g]
          /\ hosts'[h].peer_connections = {}
      BY <1>5, CreateHostEffect
    <2> QED
      BY <2>1 DEF PeersReciprocal
  <1>6. ASSUME NEW h \in Host, DeleteHost(h)
        PROVE  PeersReciprocal'
    <2>1. LiveHosts' = LiveHosts \ {h} /\ \A g \in LiveHosts' : hosts'[g] = hosts[g]
      BY <1>6, DeleteHostEffect
    <2>2. \A g \in LiveHosts : \A x \in hosts[g].peer_connections : x.peer_host_id # h
      BY <1>6 DEF DeleteHost, CanDeleteHost
    <2> QED
      BY <2>1, <2>2 DEF PeersReciprocal
  <1> QED
    BY <1>1, <1>2, <1>3, <1>4, <1>5, <1>6, HostSteps DEF HostLinkStep

\* A peer connection is always stored on both of its hosts and never names a host
\* that is gone: add and remove write both sides, and delete_host, which looks only
\* at the other hosts' side, needs no more than that.
THEOREM PeersStayReciprocal == Spec => []PeersReciprocal
  <1>1. Init => PeersReciprocal
    BY DEF Init, PeersReciprocal, LiveHosts
  <1> QED
    BY <1>1, NextPeersReciprocal, TypeCorrect, PTL DEF Spec

\* The interfaces under the peer connections: an edit of interfaces spares those of
\* h by its own check and those of h's peers because they are reciprocal.
LEMMA NextPeersOverInterfaces ==
    ASSUME TypeOK, PeersReciprocal, PeersOverInterfaces, [Next]_vars
    PROVE  PeersOverInterfaces'
  <1>1. CASE UNCHANGED hosts
    BY <1>1 DEF PeersOverInterfaces, LiveHosts, MemberOf
  <1>2. ASSUME NEW h \in LiveHosts, NEW ms, LinksSpared(h, ms)
        PROVE  PeersOverInterfaces'
    <2>1. /\ LiveHosts' = LiveHosts
          /\ \A g \in LiveHosts : hosts'[g].peer_connections = hosts[g].peer_connections
          /\ \A g \in LiveHosts \ {h} : hosts'[g] = hosts[g]
          /\ hosts'[h].network_memberships = ms
      BY <1>2 DEF LinksSpared, OnlyInterfaces
    <2>2. ASSUME NEW g \in LiveHosts, NEW n \in Network, MemberOf(hosts[g], n), PeersOn(g, n)
          PROVE  MemberOf(hosts'[g], n)
      BY <1>2, <2>1, <2>2 DEF LinksSpared, MemberOf
    <2>3. ASSUME NEW g \in LiveHosts, NEW x \in hosts[g].peer_connections
          PROVE  /\ MemberOf(hosts'[g], x.network_id)
                 /\ x.peer_host_id \in LiveHosts
                 /\ MemberOf(hosts'[x.peer_host_id], x.network_id)
      <3> DEFINE q == x.peer_host_id
                 n == x.network_id
      <3>1. n \in Network
        BY <2>3, LiveDocs DEF PeerConnection
      <3>2. /\ MemberOf(hosts[g], n) /\ q \in LiveHosts /\ MemberOf(hosts[q], n)
            /\ NewPeer(g, n, x.allowed_ips_set_id) \in hosts[q].peer_connections
        BY DEF PeersOverInterfaces, PeersReciprocal
      <3>3. PeersOn(g, n) /\ PeersOn(q, n)
        BY <3>2, NewPeerFields DEF PeersOn
      <3> QED
        BY <2>2, <3>1, <3>2, <3>3
    <2> QED
      BY <2>1, <2>3 DEF PeersOverInterfaces, MemberOf
  <1>3. ASSUME NEW h \in Host, NEW p \in Host, NEW n \in Network, NEW a \in AllowedIpsSet,
               AddPeerConnection(h, p, n, a)
        PROVE  PeersOverInterfaces'
    <2>1. h \in LiveHosts /\ p \in LiveHosts \ {h} /\ LiveHosts' = LiveHosts
      BY <1>3, AddPeerConnectionEffect DEF OnlyPeers
    <2>2. /\ \A g \in LiveHosts : hosts'[g].network_memberships = hosts[g].network_memberships
          /\ hosts'[h].peer_connections = hosts[h].peer_connections \cup {NewPeer(p, n, a)}
          /\ hosts'[p].peer_connections = hosts[p].peer_connections \cup {NewPeer(h, n, a)}
          /\ \A g \in LiveHosts \ {h, p} : hosts'[g] = hosts[g]
      BY <1>3, <2>1, AddPeerConnectionEffect DEF OnlyPeers
    <2>3. \A g \in LiveHosts : \A m : MemberOf(hosts'[g], m) <=> MemberOf(hosts[g], m)
      BY <2>2 DEF MemberOf
    <2>4. MemberOf(hosts[h], n) /\ MemberOf(hosts[p], n)
      BY <1>3 DEF AddPeerConnection, CanAddPeerConnection, MemberOf
    <2>5. ASSUME NEW g \in LiveHosts, NEW x \in hosts'[g].peer_connections
          PROVE  /\ MemberOf(hosts[g], x.network_id)
                 /\ x.peer_host_id \in LiveHosts
                 /\ MemberOf(hosts[x.peer_host_id], x.network_id)
      BY <2>1, <2>2, <2>4, NewPeerFields DEF PeersOverInterfaces
    <2>6. \A g \in LiveHosts : \A x \in hosts'[g].peer_connections :
             /\ MemberOf(hosts'[g], x.network_id)
             /\ x.peer_host_id \in LiveHosts
             /\ MemberOf(hosts'[x.peer_host_id], x.network_id)
      BY <2>3, <2>5
    <2> QED
      BY <2>1, <2>6 DEF PeersOverInterfaces, MemberOf
  <1>4. ASSUME NEW h \in Host, NEW p \in Host, NEW n \in Network, RemovePeerConnection(h, p, n)
        PROVE  PeersOverInterfaces'
    <2>1. /\ LiveHosts' = LiveHosts
          /\ \A g \in LiveHosts : hosts'[g].network_memberships = hosts[g].network_memberships
          /\ \A g \in LiveHosts : hosts'[g].peer_connections \subseteq hosts[g].peer_connections
      BY <1>4, RemovePeerConnectionEffect DEF OnlyPeers
    <2> QED
      BY <2>1 DEF PeersOverInterfaces, MemberOf
  <1>5. ASSUME NEW h \in Host, CreateHost(h)
        PROVE  PeersOverInterfaces'
    <2>1. /\ h \notin LiveHosts /\ LiveHosts' = LiveHosts \cup {h}
          /\ \A g \in LiveHosts : hosts'[g] = hosts[g]
          /\ hosts'[h].peer_connections = {}
      BY <1>5, CreateHostEffect
    <2> QED
      BY <2>1 DEF PeersOverInterfaces, MemberOf
  <1>6. ASSUME NEW h \in Host, DeleteHost(h)
        PROVE  PeersOverInterfaces'
    <2>1. LiveHosts' = LiveHosts \ {h} /\ \A g \in LiveHosts' : hosts'[g] = hosts[g]
      BY <1>6, DeleteHostEffect
    <2>2. \A g \in LiveHosts : \A x \in hosts[g].peer_connections : x.peer_host_id # h
      BY <1>6 DEF DeleteHost, CanDeleteHost
    <2> QED
      BY <2>1, <2>2 DEF PeersOverInterfaces, MemberOf
  <1> QED
    BY <1>1, <1>2, <1>3, <1>4, <1>5, <1>6, HostSteps DEF HostLinkStep

\* Under every peer connection both hosts keep their interface, though
\* remove_interface and edit_interface look at the peer connections of the one host
\* they change: the other side is safe because links are reciprocal.
THEOREM PeersStayOverInterfaces == Spec => []PeersOverInterfaces
  <1>1. Init => PeersOverInterfaces
    BY DEF Init, PeersOverInterfaces, LiveHosts
  <1> QED
    BY <1>1, NextPeersOverInterfaces, TypeCorrect, PeersStayReciprocal, PTL DEF Spec

-----------------------------------------------------------------------------
(* Connections of clients. *)

\* The document of c changes to doc: no connection is added, and c stays on every
\* network that a connection of it runs over.
ConnectionsSpared(c, doc) ==
    /\ OnlyClient(c, doc)
    /\ doc.connections \subseteq clients[c].connections
    /\ \A n \in Network : MemberOf(clients[c], n) =>
          \/ MemberOf(doc, n)
          \/ ~\E x \in clients[c].connections : x.network_id = n

\* Setting one field of a client leaves the others.
LEMMA ClientFields ==
    ASSUME TypeOK, NEW c \in LiveClients, NEW v
    PROVE  LET key == [clients[c] EXCEPT !.active_key_id = v]
               dns == [clients[c] EXCEPT !.dns_server_id = v]
               mem == [clients[c] EXCEPT !.network_memberships = v]
               con == [clients[c] EXCEPT !.connections = v]
           IN  /\ \A doc \in {key, dns} :
                     /\ doc.network_memberships = clients[c].network_memberships
                     /\ doc.connections = clients[c].connections
               /\ mem.network_memberships = v /\ mem.connections = clients[c].connections
               /\ con.network_memberships = clients[c].network_memberships /\ con.connections = v
  BY LiveDocs DEF ClientDoc

ClientLinkStep ==
    \/ UNCHANGED clients
    \/ \E c \in LiveClients : \E doc : ConnectionsSpared(c, doc)
    \/ \E c \in Client, h \in Host, n \in Network, a \in AllowedIpsSet : AddConnection(c, h, n, a)
    \/ \E c \in Client, d \in DnsServer \cup {None}, k \in Key : NewClientStep(c, d, k)
    \/ \E c \in Client : DeleteClient(c)

LEMMA ClientKeySpares ==
    ASSUME TypeOK, NEW c \in Client, NEW k \in Key, ClientKeyStep(c, k)
    PROVE  ClientLinkStep
  <1> DEFINE doc == [clients[c] EXCEPT !.active_key_id = k]
  <1>1. c \in LiveClients /\ OnlyClient(c, doc)
    BY ClientKeyEffect
  <1>2. /\ doc.network_memberships = clients[c].network_memberships
        /\ doc.connections = clients[c].connections
    BY <1>1, ClientFields
  <1>3. ConnectionsSpared(c, doc)
    BY <1>1, <1>2 DEF ConnectionsSpared, MemberOf
  <1> QED
    BY <1>1, <1>3 DEF ClientLinkStep

LEMMA EditClientSpares ==
    ASSUME TypeOK, NEW c \in Client, NEW d \in DnsServer \cup {None}, EditClient(c, d)
    PROVE  ClientLinkStep
  <1> DEFINE doc == [clients[c] EXCEPT !.dns_server_id = d]
  <1>1. c \in LiveClients /\ OnlyClient(c, doc)
    BY EditClientEffect
  <1>2. /\ doc.network_memberships = clients[c].network_memberships
        /\ doc.connections = clients[c].connections
    BY <1>1, ClientFields
  <1>3. ConnectionsSpared(c, doc)
    BY <1>1, <1>2 DEF ConnectionsSpared, MemberOf
  <1> QED
    BY <1>1, <1>3 DEF ClientLinkStep

LEMMA AddMembershipSpares ==
    ASSUME TypeOK, NEW c \in Client, NEW n \in Network, NEW ip \in Address,
           AddNetworkMembership(c, n, ip)
    PROVE  ClientLinkStep
  <1> DEFINE ms == clients[c].network_memberships \cup {[network_id |-> n, ip |-> ip]}
             doc == [clients[c] EXCEPT !.network_memberships = ms]
  <1>1. c \in LiveClients /\ OnlyClient(c, doc)
    BY AddNetworkMembershipEffect
  <1>2. doc.network_memberships = ms /\ doc.connections = clients[c].connections
    BY <1>1, ClientFields
  <1>3. ConnectionsSpared(c, doc)
    BY <1>1, <1>2 DEF ConnectionsSpared, MemberOf
  <1> QED
    BY <1>1, <1>3 DEF ClientLinkStep

LEMMA RemoveMembershipSpares ==
    ASSUME TypeOK, NEW c \in Client, NEW n \in Network, RemoveNetworkMembership(c, n)
    PROVE  ClientLinkStep
  <1> DEFINE ms == {m \in clients[c].network_memberships : m.network_id # n}
             doc == [clients[c] EXCEPT !.network_memberships = ms]
  <1>1. c \in LiveClients /\ OnlyClient(c, doc)
    BY RemoveNetworkMembershipEffect
  <1>2. doc.network_memberships = ms /\ doc.connections = clients[c].connections
    BY <1>1, ClientFields
  <1>3. ~\E x \in clients[c].connections : x.network_id = n
    BY DEF RemoveNetworkMembership, CanRemoveNetworkMembership
  <1>4. ConnectionsSpared(c, doc)
    BY <1>1, <1>2, <1>3 DEF ConnectionsSpared, MemberOf
  <1> QED
    BY <1>1, <1>4 DEF ClientLinkStep

LEMMA RemoveConnectionSpares ==
    ASSUME TypeOK, NEW c \in Client, NEW x \in Connection, RemoveConnection(c, x)
    PROVE  ClientLinkStep
  <1> DEFINE xs == clients[c].connections \ {x}
             doc == [clients[c] EXCEPT !.connections = xs]
  <1>1. c \in LiveClients /\ OnlyClient(c, doc)
    BY RemoveConnectionEffect
  <1>2. doc.network_memberships = clients[c].network_memberships /\ doc.connections = xs
    BY <1>1, ClientFields
  <1>3. ConnectionsSpared(c, doc)
    BY <1>1, <1>2 DEF ConnectionsSpared, MemberOf
  <1> QED
    BY <1>1, <1>3 DEF ClientLinkStep

\* The same division of steps for the clients.
LEMMA ClientSteps ==
    ASSUME TypeOK, [Next]_vars
    PROVE  ClientLinkStep
  <1>1. CASE NetworkNext
    BY <1>1, NetworkNextEffect DEF ClientLinkStep
  <1>2. CASE HostNext
    BY <1>2 DEF ClientLinkStep, HostNext, CreateHost, DeleteHost, AddInterface, EditInterface,
       RemoveInterface, RotateInterfaceKey, AssignInterfaceKey, AddPeerConnection,
       RemovePeerConnection
  <1>3. ASSUME ClientNext
        PROVE  ClientLinkStep
    <2>1. ASSUME NEW c \in Client, NEW x \in Connection,
                 AddConnection(c, x.host_id, x.network_id, x.allowed_ips_set_id)
          PROVE  ClientLinkStep
      BY <2>1 DEF ClientLinkStep, Connection
    <2>2. ASSUME NEW c \in Client, NEW d \in DnsServer \cup {None}, NEW k \in Key,
                 CreateClient(c, d, k) \/ CreateClientWithKey(c, d, k)
          PROVE  ClientLinkStep
      BY <2>2 DEF ClientLinkStep, NewClientStep
    <2>3. ASSUME NEW c \in Client, DeleteClient(c)
          PROVE  ClientLinkStep
      BY <2>3 DEF ClientLinkStep
    <2> QED
      BY <1>3, <2>1, <2>2, <2>3, ClientKeySpares, EditClientSpares, AddMembershipSpares,
         RemoveMembershipSpares, RemoveConnectionSpares
      DEF ClientNext, ClientKeyStep
  <1>4. CASE PresetNext
    BY <1>4, ClientKeySpares DEF ClientLinkStep, PresetNext, ClientKeyStep, CreateKey,
       DeleteKey, AssignKeyToInterface, CreateDnsServer, DeleteDnsServer, CreateAllowedIpsSet,
       DeleteAllowedIpsSet
  <1>5. CASE UNCHANGED vars
    BY <1>5 DEF ClientLinkStep, vars
  <1> QED
    BY <1>1, <1>2, <1>3, <1>4, <1>5 DEF Next

\* No handler writes both hosts and clients.
LEMMA OneCollection ==
    ASSUME [Next]_vars
    PROVE  UNCHANGED hosts \/ UNCHANGED clients
  <1>1. CASE NetworkNext
    BY <1>1, NetworkNextEffect
  <1>2. CASE HostNext
    BY <1>2 DEF HostNext, CreateHost, DeleteHost, AddInterface, EditInterface, RemoveInterface,
       RotateInterfaceKey, AssignInterfaceKey, AddPeerConnection, RemovePeerConnection
  <1>3. CASE ClientNext
    BY <1>3 DEF ClientNext, CreateClient, CreateClientWithKey, EditClient, DeleteClient,
       RotateKey, AssignExistingKey, AddNetworkMembership, RemoveNetworkMembership,
       AddConnection, RemoveConnection
  <1>4. CASE PresetNext
    BY <1>4 DEF PresetNext, CreateKey, DeleteKey, AssignKeyToInterface, AssignKeyToClient,
       CreateDnsServer, DeleteDnsServer, CreateAllowedIpsSet, DeleteAllowedIpsSet
  <1>5. CASE UNCHANGED vars
    BY <1>5 DEF vars
  <1> QED
    BY <1>1, <1>2, <1>3, <1>4, <1>5 DEF Next

LEMMA NextConnectionsOverInterfaces ==
    ASSUME TypeOK, ConnectionsOverInterfaces, [Next]_vars
    PROVE  ConnectionsOverInterfaces'
  <1>1. ASSUME UNCHANGED clients, LiveHosts \subseteq LiveHosts',
               \A c \in LiveClients : \A x \in clients[c].connections :
                   MemberOf(hosts'[x.host_id], x.network_id)
        PROVE  ConnectionsOverInterfaces'
    BY <1>1 DEF ConnectionsOverInterfaces, LiveClients, MemberOf
  <1>2. ASSUME UNCHANGED clients
        PROVE  ConnectionsOverInterfaces'
    <2>1. CASE UNCHANGED hosts
      BY <1>1, <1>2, <2>1 DEF ConnectionsOverInterfaces, LiveHosts
    <2>2. ASSUME NEW h \in LiveHosts, NEW ms, LinksSpared(h, ms)
          PROVE  ConnectionsOverInterfaces'
      <3>1. /\ LiveHosts' = LiveHosts
            /\ \A g \in LiveHosts \ {h} : hosts'[g] = hosts[g]
            /\ hosts'[h].network_memberships = ms
        BY <2>2 DEF LinksSpared, OnlyInterfaces
      <3>2. ASSUME NEW c \in LiveClients, NEW x \in clients[c].connections
            PROVE  MemberOf(hosts'[x.host_id], x.network_id)
        <4>1. x.network_id \in Network
          BY LiveDocs DEF Connection
        <4>2. x.host_id \in LiveHosts /\ MemberOf(hosts[x.host_id], x.network_id)
          BY DEF ConnectionsOverInterfaces
        <4>3. ClientConnected(x.host_id, x.network_id)
          BY DEF ClientConnected
        <4> QED
          BY <2>2, <3>1, <4>1, <4>2, <4>3 DEF LinksSpared, MemberOf
      <3> QED
        BY <1>1, <1>2, <3>1, <3>2
    <2>3. ASSUME LiveHosts' = LiveHosts,
                 \A g \in LiveHosts : hosts'[g].network_memberships = hosts[g].network_memberships
          PROVE  ConnectionsOverInterfaces'
      BY <1>1, <1>2, <2>3 DEF ConnectionsOverInterfaces, MemberOf
    <2>4. ASSUME NEW h \in Host, NEW p \in Host, NEW n \in Network, NEW a \in AllowedIpsSet,
                 AddPeerConnection(h, p, n, a)
          PROVE  ConnectionsOverInterfaces'
      BY <2>3, <2>4, AddPeerConnectionEffect DEF OnlyPeers
    <2>5. ASSUME NEW h \in Host, NEW p \in Host, NEW n \in Network, RemovePeerConnection(h, p, n)
          PROVE  ConnectionsOverInterfaces'
      BY <2>3, <2>5, RemovePeerConnectionEffect DEF OnlyPeers
    <2>6. ASSUME NEW h \in Host, CreateHost(h)
          PROVE  ConnectionsOverInterfaces'
      <3>1. LiveHosts' = LiveHosts \cup {h} /\ \A g \in LiveHosts : hosts'[g] = hosts[g]
        BY <2>6, CreateHostEffect
      <3> QED
        BY <1>1, <1>2, <3>1 DEF ConnectionsOverInterfaces
    <2>7. ASSUME NEW h \in Host, DeleteHost(h)
          PROVE  ConnectionsOverInterfaces'
      <3>1. LiveHosts' = LiveHosts \ {h} /\ \A g \in LiveHosts' : hosts'[g] = hosts[g]
        BY <2>7, DeleteHostEffect
      <3>2. \A c \in LiveClients : \A x \in clients[c].connections : x.host_id # h
        BY <2>7 DEF DeleteHost, CanDeleteHost
      <3> QED
        BY <1>2, <3>1, <3>2 DEF ConnectionsOverInterfaces, LiveClients, MemberOf
    <2> QED
      BY <2>1, <2>2, <2>4, <2>5, <2>6, <2>7, HostSteps DEF HostLinkStep
  <1>3. ASSUME UNCHANGED hosts
        PROVE  ConnectionsOverInterfaces'
    <2>1. LiveHosts' = LiveHosts
      BY <1>3 DEF LiveHosts
    <2>2. CASE UNCHANGED clients
      BY <1>2, <2>2
    <2>3. ASSUME NEW c \in LiveClients, NEW doc, ConnectionsSpared(c, doc)
          PROVE  ConnectionsOverInterfaces'
      <3>1. /\ LiveClients' = LiveClients
            /\ \A b \in LiveClients \ {c} : clients'[b] = clients[b]
            /\ clients'[c] = doc /\ doc.connections \subseteq clients[c].connections
        BY <2>3 DEF ConnectionsSpared, OnlyClient
      <3>2. ASSUME NEW x \in doc.connections
            PROVE  MemberOf(doc, x.network_id)
        <4>1. x.network_id \in Network
          BY <3>1, LiveDocs DEF Connection
        <4> QED
          BY <2>3, <3>1, <4>1 DEF ConnectionsSpared, ConnectionsOverInterfaces
      <3> QED
        BY <1>3, <2>1, <3>1, <3>2 DEF ConnectionsOverInterfaces, MemberOf
    <2>4. ASSUME NEW c \in Client, NEW h \in Host, NEW n \in Network, NEW a \in AllowedIpsSet,
                 AddConnection(c, h, n, a)
          PROVE  ConnectionsOverInterfaces'
      <3> DEFINE y == NewConnection(h, n, a)
                 doc == [clients[c] EXCEPT !.connections = clients[c].connections \cup {y}]
      <3>1. c \in LiveClients /\ OnlyClient(c, doc)
        BY <2>4, AddConnectionEffect
      <3>2. /\ doc.network_memberships = clients[c].network_memberships
            /\ doc.connections = clients[c].connections \cup {y}
        BY <3>1, ClientFields
      <3>3. h \in LiveHosts /\ MemberOf(hosts[h], n) /\ MemberOf(clients[c], n)
        BY <2>4 DEF AddConnection, CanAddConnection
      <3>4. y.host_id = h /\ y.network_id = n
        BY DEF NewConnection
      <3> HIDE DEF y, doc
      <3>5. /\ LiveClients' = LiveClients
            /\ \A b \in LiveClients \ {c} : clients'[b] = clients[b]
            /\ clients'[c] = doc
        BY <3>1 DEF OnlyClient
      <3>6. \A x \in doc.connections :
               /\ x.host_id \in LiveHosts /\ MemberOf(hosts[x.host_id], x.network_id)
               /\ MemberOf(doc, x.network_id)
        BY <3>1, <3>2, <3>3, <3>4 DEF ConnectionsOverInterfaces, MemberOf
      <3> QED
        BY <1>3, <2>1, <3>5, <3>6 DEF ConnectionsOverInterfaces, MemberOf
    <2>5. ASSUME NEW c \in Client, NEW d \in DnsServer \cup {None}, NEW k \in Key,
                 NewClientStep(c, d, k)
          PROVE  ConnectionsOverInterfaces'
      <3>1. [NewClient(d) EXCEPT !.active_key_id = k].connections = {}
        BY DEF NewClient
      <3>2. /\ LiveClients' = LiveClients \cup {c}
            /\ \A b \in LiveClients : clients'[b] = clients[b]
            /\ clients'[c].connections = {}
        BY <2>5, <3>1, CreateClientEffect
      <3> QED
        BY <1>3, <2>1, <3>2 DEF ConnectionsOverInterfaces, MemberOf
    <2>6. ASSUME NEW c \in Client, DeleteClient(c)
          PROVE  ConnectionsOverInterfaces'
      <3>1. LiveClients' = LiveClients \ {c} /\ \A b \in LiveClients' : clients'[b] = clients[b]
        BY <2>6, DeleteClientEffect
      <3> QED
        BY <1>3, <2>1, <3>1 DEF ConnectionsOverInterfaces, MemberOf
    <2> QED
      BY <2>2, <2>3, <2>4, <2>5, <2>6, ClientSteps DEF ClientLinkStep
  <1> QED
    BY <1>2, <1>3, OneCollection

\* A client's connection always runs over a membership of the client and an
\* interface of the host, on the network it names: the five handlers that could take
\* one of them away refuse while the connection is there.
THEOREM ConnectionsStayOverInterfaces == Spec => []ConnectionsOverInterfaces
  <1>1. Init => ConnectionsOverInterfaces
    BY DEF Init, ConnectionsOverInterfaces, LiveClients
  <1> QED
    BY <1>1, NextConnectionsOverInterfaces, TypeCorrect, PTL DEF Spec

-----------------------------------------------------------------------------
(* One link per pair. *)

OnePeerPerPair ==
    \A h \in LiveHosts : \A x, y \in hosts[h].peer_connections :
        x.peer_host_id = y.peer_host_id /\ x.network_id = y.network_id => x = y

OneConnectionPerPair ==
    \A c \in LiveClients : \A x, y \in clients[c].connections :
        x.host_id = y.host_id /\ x.network_id = y.network_id => x = y

\* add_peer_connection looks for a connection on the side of the host it is called
\* for; that the peer has none either follows from reciprocity.
LEMMA NextOnePeerPerPair ==
    ASSUME TypeOK, PeersReciprocal, OnePeerPerPair, [Next]_vars
    PROVE  OnePeerPerPair'
  <1>1. CASE UNCHANGED hosts
    BY <1>1 DEF OnePeerPerPair, LiveHosts
  <1>2. ASSUME LiveHosts' \subseteq LiveHosts,
               \A g \in LiveHosts' : hosts'[g].peer_connections \subseteq hosts[g].peer_connections
        PROVE  OnePeerPerPair'
    BY <1>2 DEF OnePeerPerPair
  <1>3. ASSUME NEW h \in LiveHosts, NEW ms, LinksSpared(h, ms)
        PROVE  OnePeerPerPair'
    BY <1>2, <1>3 DEF LinksSpared, OnlyInterfaces
  <1>4. ASSUME NEW h \in Host, NEW p \in Host, NEW n \in Network, NEW a \in AllowedIpsSet,
               AddPeerConnection(h, p, n, a)
        PROVE  OnePeerPerPair'
    <2>1. h \in LiveHosts /\ p \in LiveHosts \ {h} /\ LiveHosts' = LiveHosts
      BY <1>4, AddPeerConnectionEffect DEF OnlyPeers
    <2>2. /\ hosts'[h].peer_connections = hosts[h].peer_connections \cup {NewPeer(p, n, a)}
          /\ hosts'[p].peer_connections = hosts[p].peer_connections \cup {NewPeer(h, n, a)}
          /\ \A g \in LiveHosts \ {h, p} : hosts'[g] = hosts[g]
      BY <1>4, <2>1, AddPeerConnectionEffect DEF OnlyPeers
    <2>3. \A x \in hosts[h].peer_connections : ~Names(x, p, n)
      BY <1>4 DEF AddPeerConnection, CanAddPeerConnection, PeersWith, Names
    <2>4. ASSUME NEW x \in hosts[p].peer_connections
          PROVE  ~Names(x, h, n)
      <3>1. NewPeer(p, x.network_id, x.allowed_ips_set_id)
               \in hosts[x.peer_host_id].peer_connections
        BY <2>1 DEF PeersReciprocal
      <3> QED
        BY <2>3, <3>1, NewPeerFields DEF Names
    <2>5. ASSUME NEW g \in LiveHosts, NEW x \in hosts'[g].peer_connections,
                 NEW y \in hosts'[g].peer_connections,
                 x.peer_host_id = y.peer_host_id, x.network_id = y.network_id
          PROVE  x = y
      <3>1. CASE g = h
        BY <2>1, <2>2, <2>3, <2>5, <3>1, NewPeerFields DEF OnePeerPerPair, Names
      <3>2. CASE g = p
        BY <2>1, <2>2, <2>4, <2>5, <3>2, NewPeerFields DEF OnePeerPerPair, Names
      <3>3. CASE g \notin {h, p}
        BY <2>2, <2>5, <3>3 DEF OnePeerPerPair
      <3> QED
        BY <3>1, <3>2, <3>3
    <2> QED
      BY <2>1, <2>5 DEF OnePeerPerPair
  <1>5. ASSUME NEW h \in Host, NEW p \in Host, NEW n \in Network, RemovePeerConnection(h, p, n)
        PROVE  OnePeerPerPair'
    BY <1>2, <1>5, RemovePeerConnectionEffect DEF OnlyPeers
  <1>6. ASSUME NEW h \in Host, CreateHost(h)
        PROVE  OnePeerPerPair'
    <2>1. /\ LiveHosts' = LiveHosts \cup {h} /\ \A g \in LiveHosts : hosts'[g] = hosts[g]
          /\ hosts'[h].peer_connections = {}
      BY <1>6, CreateHostEffect
    <2> QED
      BY <2>1 DEF OnePeerPerPair
  <1>7. ASSUME NEW h \in Host, DeleteHost(h)
        PROVE  OnePeerPerPair'
    BY <1>2, <1>7, DeleteHostEffect
  <1> QED
    BY <1>1, <1>3, <1>4, <1>5, <1>6, <1>7, HostSteps DEF HostLinkStep

LEMMA NextOneConnectionPerPair ==
    ASSUME TypeOK, OneConnectionPerPair, [Next]_vars
    PROVE  OneConnectionPerPair'
  <1>1. CASE UNCHANGED clients
    BY <1>1 DEF OneConnectionPerPair, LiveClients
  <1>2. ASSUME LiveClients' \subseteq LiveClients,
               \A b \in LiveClients' : clients'[b].connections \subseteq clients[b].connections
        PROVE  OneConnectionPerPair'
    BY <1>2 DEF OneConnectionPerPair
  <1>3. ASSUME NEW c \in LiveClients, NEW doc, ConnectionsSpared(c, doc)
        PROVE  OneConnectionPerPair'
    BY <1>2, <1>3 DEF ConnectionsSpared, OnlyClient
  <1>4. ASSUME NEW c \in Client, NEW h \in Host, NEW n \in Network, NEW a \in AllowedIpsSet,
               AddConnection(c, h, n, a)
        PROVE  OneConnectionPerPair'
    <2> DEFINE y == NewConnection(h, n, a)
               doc == [clients[c] EXCEPT !.connections = clients[c].connections \cup {y}]
    <2>1. c \in LiveClients /\ OnlyClient(c, doc)
      BY <1>4, AddConnectionEffect
    <2>2. doc.connections = clients[c].connections \cup {y}
      BY <2>1, ClientFields
    <2>3. \A x \in clients[c].connections : ~(x.host_id = h /\ x.network_id = n)
      BY <1>4 DEF AddConnection, CanAddConnection
    <2>4. y.host_id = h /\ y.network_id = n
      BY DEF NewConnection
    <2> HIDE DEF y, doc
    <2> QED
      BY <2>1, <2>2, <2>3, <2>4 DEF OneConnectionPerPair, OnlyClient
  <1>5. ASSUME NEW c \in Client, NEW d \in DnsServer \cup {None}, NEW k \in Key,
               NewClientStep(c, d, k)
        PROVE  OneConnectionPerPair'
    <2>1. [NewClient(d) EXCEPT !.active_key_id = k].connections = {}
      BY DEF NewClient
    <2>2. /\ LiveClients' = LiveClients \cup {c} /\ \A b \in LiveClients : clients'[b] = clients[b]
          /\ clients'[c].connections = {}
      BY <1>5, <2>1, CreateClientEffect
    <2> QED
      BY <2>2 DEF OneConnectionPerPair
  <1>6. ASSUME NEW c \in Client, DeleteClient(c)
        PROVE  OneConnectionPerPair'
    BY <1>2, <1>6, DeleteClientEffect
  <1> QED
    BY <1>1, <1>3, <1>4, <1>5, <1>6, ClientSteps DEF ClientLinkStep

\* Two hosts share at most one peer connection per network, and a client has at most
\* one connection to a host per network, however links come and go.
THEOREM LinksStayUnique == Spec => []OneLinkPerPair
  <1>1. Init => OnePeerPerPair /\ OneConnectionPerPair
    BY DEF Init, OnePeerPerPair, OneConnectionPerPair, LiveHosts, LiveClients
  <1>2. OneLinkPerPair <=> OnePeerPerPair /\ OneConnectionPerPair
    BY DEF OneLinkPerPair, OnePeerPerPair, OneConnectionPerPair
  <1> QED
    BY <1>1, <1>2, NextOnePeerPerPair, NextOneConnectionPerPair, TypeCorrect,
       PeersStayReciprocal, PTL DEF Spec
=============================================================================
