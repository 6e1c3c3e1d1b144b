------------------------------ MODULE Topology ------------------------------
(***************************************************************************)
(* The graphs of app/services/graph.py: the nodes, the edges and the level *)
(* of every node, for the dashboard, a host's page and a client's.  Colours *)
(* and labels are left out; an edge is its two ends and what it stands for. *)
(***************************************************************************)
EXTENDS Store

Edge(from, to, what) == [from |-> from, to |-> to, what |-> what]

Smallest(levels) == CHOOSE l \in levels : \A o \in levels : l <= o
Largest(levels) == CHOOSE l \in levels : \A o \in levels : l >= o

-----------------------------------------------------------------------------
(* CIDR containment; ns is always a set of stored networks. *)

Inside(m, n) == networks[m].cidr # networks[n].cidr /\ networks[m].cidr \subseteq networks[n].cidr

Containers(n, ns) == {m \in ns : Inside(n, m)}

Level(n, ns) == Cardinality(Containers(n, ns))

MostSpecific(ns) ==
    CHOOSE n \in ns : \A m \in ns : Cardinality(networks[n].cidr) <= Cardinality(networks[m].cidr)

Parent_Widest(n, ns) ==
    IF Containers(n, ns) = {} THEN None
    ELSE CHOOSE m \in Containers(n, ns) : \A o \in Containers(n, ns) :
            Cardinality(networks[m].cidr) >= Cardinality(networks[o].cidr)

\* _network_hierarchy, and _most_specific_ipam_ancestor
Parent(n, ns) == IF Containers(n, ns) = {} THEN None ELSE MostSpecific(Containers(n, ns))

HierarchyEdges(ns) ==
    {Edge(Parent(n, ns), n, "contains") : n \in {m \in ns : Parent(m, ns) # None}}

OfType(t) == {n \in LiveNetworks : networks[n].network_type = t}

\* _ipam_ids_with_only_p2p_descendants
OnlyP2pInside(n) ==
    LET inside == {m \in LiveNetworks : Inside(m, n)}
    IN  inside # {} /\ inside \subseteq OfType("p2p")

IpamNetworks == {n \in OfType("ipam") : ~OnlyP2pInside(n)}

-----------------------------------------------------------------------------
(* Edges. *)

MemberNets(doc) == {m.network_id : m \in doc.network_memberships}

MembershipEdges(x, doc) == {Edge(x, n, "member") : n \in MemberNets(doc)}

PeerEdges(h, p, n) == {Edge(h, n, "peer"), Edge(n, p, "peer")}

ConnectionEdges(c, xs) == {Edge(c, x.network_id, "connection") : x \in xs}

\* Levels count in halves: between networks at several levels a member sits half-way.
MemberLevel(levels) ==
    IF levels = {} THEN 2
    ELSE IF Smallest(levels) = Largest(levels) THEN Smallest(levels) + 2
    ELSE (Smallest(levels) + Largest(levels)) \div 2

NetworkLevel(n, ns) == 2 * Level(n, ns)

-----------------------------------------------------------------------------
(* build_full_graph *)

HostLevel ==
    IF IpamNetworks = {} THEN 0
    ELSE 2 + Largest({NetworkLevel(n, IpamNetworks) : n \in IpamNetworks})

FullNodes == (LiveNetworks \ (OfType("ipam") \ IpamNetworks)) \cup LiveHosts \cup LiveClients

FullLevel(x) ==
    CASE x \in IpamNetworks                 -> NetworkLevel(x, IpamNetworks)
      [] x \in OfType("p2p") \cup LiveHosts -> HostLevel
      [] x \in OfType("host_network")       -> HostLevel + 2
      [] x \in LiveClients                  -> HostLevel + 4

\* The IPAM networks a host is drawn under.
Ancestors(h) ==
    {Parent(n, IpamNetworks) : n \in
        MemberNets(hosts[h]) \cap (OfType("p2p") \cup OfType("host_network"))} \ {None}

DrawnPeers_BySide ==
    UNION {{[ends |-> <<h, x.peer_host_id>>, on |-> x.network_id] :
               x \in {y \in hosts[h].peer_connections : y.peer_host_id \in LiveHosts}} :
           h \in LiveHosts}

\* seen_peer_pairs: of the two sides of a connection the one found first is drawn.
DrawnPeers ==
    {CHOOSE d \in DrawnPeers_BySide :
        d.on = e.on /\ {d.ends[1], d.ends[2]} = {e.ends[1], e.ends[2]} : e \in DrawnPeers_BySide}

FullEdges ==
    HierarchyEdges(IpamNetworks)
    \cup (UNION {{Edge(n, h, "contains") : n \in Ancestors(h)} : h \in LiveHosts})
    \cup (UNION {MembershipEdges(h, hosts[h]) : h \in LiveHosts})
    \cup (UNION {MembershipEdges(c, clients[c]) : c \in LiveClients})
    \cup (UNION {PeerEdges(d.ends[1], d.ends[2], d.on) : d \in DrawnPeers})
    \cup (UNION {ConnectionEdges(c, {x \in clients[c].connections : x.host_id \in LiveHosts}) :
                     c \in LiveClients})

-----------------------------------------------------------------------------
(* build_host_graph *)

\* The networks of h's peer connections, and the others it is a member of.
HostToHost(h) == MemberNets(hosts[h]) \cap {x.network_id : x \in hosts[h].peer_connections}

Regular(h) == (MemberNets(hosts[h]) \ HostToHost(h)) \cap LiveNetworks

ConnectionsTo(c, h) == {x \in clients[c].connections : x.host_id = h}

AttachedClients(h) == {c \in LiveClients : ConnectionsTo(c, h) # {}}

PeersOf(h) == {x \in hosts[h].peer_connections : x.peer_host_id \in LiveHosts}

HostNodes(h) ==
    {h} \cup (HostToHost(h) \cap LiveNetworks) \cup Regular(h) \cup AttachedClients(h)
        \cup {x.peer_host_id : x \in PeersOf(h)}

HostGraphLevel(h, x) ==
    CASE x \in LiveHosts \cup HostToHost(h) -> 0
      [] x \in Regular(h)                   -> NetworkLevel(x, Regular(h)) + 2
      [] x \in LiveClients ->
            MemberLevel({NetworkLevel(n, Regular(h)) + 2 :
                n \in {y.network_id : y \in ConnectionsTo(x, h)} \cap Regular(h)})

HostEdges(h) ==
    HierarchyEdges(Regular(h))
    \cup MembershipEdges(h, hosts[h])
    \cup (UNION {ConnectionEdges(c, ConnectionsTo(c, h)) : c \in AttachedClients(h)})
    \cup (UNION {PeerEdges(h, x.peer_host_id, x.network_id) : x \in PeersOf(h)})

-----------------------------------------------------------------------------
(* build_client_graph *)

ClientNetworks(c) == MemberNets(clients[c]) \cap LiveNetworks

LiveConnections(c) == {x \in clients[c].connections : x.host_id \in LiveHosts}

ClientNodes(c) == {c} \cup ClientNetworks(c) \cup {x.host_id : x \in LiveConnections(c)}

ClientGraphLevel(c, x) ==
    CASE x \in LiveHosts         -> 0
      [] x \in ClientNetworks(c) -> NetworkLevel(x, ClientNetworks(c)) + 2
      [] x = c -> MemberLevel({NetworkLevel(n, ClientNetworks(c)) + 2 : n \in ClientNetworks(c)})

ClientEdges_NoHostMembership(c) ==
    HierarchyEdges(ClientNetworks(c))
    \cup MembershipEdges(c, clients[c])
    \cup ConnectionEdges(c, LiveConnections(c))

\* The host's own membership on the network keeps its node from floating.
ClientEdges(c) ==
    HierarchyEdges(ClientNetworks(c))
    \cup MembershipEdges(c, clients[c])
    \cup {Edge(x.host_id, x.network_id, "member") :
             x \in {y \in LiveConnections(c) : MemberOf(hosts[y.host_id], y.network_id)}}
    \cup ConnectionEdges(c, LiveConnections(c))

-----------------------------------------------------------------------------
(* Properties. *)

Closed(nodes, edges) == \A e \in edges : e.from \in nodes /\ e.to \in nodes

Linked(x, edges) == \E e \in edges : x \in {e.from, e.to}

\* No graph has an edge that leads nowhere, although the routines read a host, its
\* networks, its clients and its peers from four collections and check few of them;
\* but for the dashboard's edges from and to the IPAM blocks it leaves out, which may
\* have members and peers, since a network that is in use can become one.  On the page
\* of a host or a client everything else hangs on something.
EdgesHaveEnds ==
    /\ LET hidden == OfType("ipam") \ IpamNetworks
       IN  Closed(FullNodes, {e \in FullEdges : e.from \notin hidden /\ e.to \notin hidden})
    /\ \A h \in LiveHosts :
          /\ Closed(HostNodes(h), HostEdges(h))
          /\ \A x \in HostNodes(h) \ {h} : Linked(x, HostEdges(h))
    /\ \A c \in LiveClients :
          /\ Closed(ClientNodes(c), ClientEdges(c))
          /\ \A x \in ClientNodes(c) \ {c} : Linked(x, ClientEdges(c))

\* Two linked hosts are drawn as linked once per network, though both store the
\* connection.
PeersDrawnOnce ==
    \A n \in Network : \A h, p \in LiveHosts :
        PeersWith(h, p, n) =>
            Cardinality({d \in DrawnPeers : d.on = n /\ {d.ends[1], d.ends[2]} = {h, p}}) = 1

\* Containment is drawn downwards, and the tree of IPAM blocks never floats above the
\* hosts: from every block drawn that holds the network of one of a host's interfaces,
\* or from another with its CIDR, containment leads down to the host.
TreeReachesHosts ==
    /\ \A e \in FullEdges : e.what = "contains" => FullLevel(e.from) < FullLevel(e.to)
    /\ \A h \in LiveHosts : \A e \in HostEdges(h) :
          e.what = "contains" => HostGraphLevel(h, e.from) < HostGraphLevel(h, e.to)
    /\ \A c \in LiveClients : \A e \in ClientEdges(c) :
          e.what = "contains" => ClientGraphLevel(c, e.from) < ClientGraphLevel(c, e.to)
    /\ \A h \in LiveHosts, n \in IpamNetworks :
          (\E m \in MemberNets(hosts[h]) \ OfType("ipam") : Inside(m, n)) =>
              \A above \in SUBSET IpamNetworks :
                  (\A e \in FullEdges : e.what = "contains" /\ e.to \in above \cup {h} => e.from \in above)
                      => \E m \in above : networks[m].cidr = networks[n].cidr
=============================================================================
