--------------------------- MODULE IntegrityProofs ---------------------------
(***************************************************************************)
(* The collections fit together in every state of Inventory: no handler    *)
(* leaves a reference to a document, an interface or a key that is not     *)
(* there, and none gives an address out twice.                             *)
(***************************************************************************)
EXTENDS LinksProofs

-----------------------------------------------------------------------------
(* Keys. *)

LEMMA NextKeysLive ==
    ASSUME TypeOK, KeysLive, [Next]_vars
    PROVE  KeysLive'
  <1>1. ASSUME UNCHANGED <<hosts, clients, keys>>
        PROVE  KeysLive'
    BY <1>1 DEF KeysLive, LiveHosts, LiveClients
  <1>2. ASSUME NEW h \in LiveHosts, NEW ms, OnlyInterfaces(h, ms), UNCHANGED clients,
               keys \subseteq keys', \A m \in ms : m.active_key_id \in keys' \cup {None}
        PROVE  KeysLive'
    BY <1>2 DEF KeysLive, OnlyInterfaces, LiveClients
  <1>3. ASSUME NEW h, NEW p, NEW ps, NEW qs, OnlyPeers(h, p, ps, qs), UNCHANGED <<clients, keys>>
        PROVE  KeysLive'
    BY <1>3 DEF KeysLive, OnlyPeers, LiveClients
  <1>4. ASSUME NEW c \in LiveClients, NEW doc, OnlyClient(c, doc), UNCHANGED hosts,
               keys \subseteq keys', doc.active_key_id \in keys' \cup {None}
        PROVE  KeysLive'
    BY <1>4 DEF KeysLive, OnlyClient, LiveHosts
  <1>5. CASE NetworkNext
    BY <1>1, <1>5, NetworkNextEffect
  <1>6. ASSUME HostNext
        PROVE  KeysLive'
    <2>1. ASSUME NEW h \in Host, CreateHost(h) \/ DeleteHost(h)
          PROVE  KeysLive'
      <3>1. UNCHANGED <<clients, keys>>
        BY <2>1 DEF CreateHost, DeleteHost
      <3> QED
        BY <2>1, <3>1, CreateHostEffect, DeleteHostEffect DEF KeysLive, LiveClients
    <2>2. ASSUME NEW h \in Host, NEW n \in Network, NEW ip \in Address, NEW t \in InterfaceType,
                 NEW d \in DnsServer \cup {None}, AddInterface(h, n, ip, t, d)
          PROVE  KeysLive'
      <3>1. UNCHANGED <<clients, keys>>
        BY <2>2 DEF AddInterface
      <3>2. NewInterface(n, ip, t, d).active_key_id = None
        BY DEF NewInterface
      <3>3. /\ h \in LiveHosts
            /\ OnlyInterfaces(h, hosts[h].network_memberships \cup {NewInterface(n, ip, t, d)})
        BY <2>2, AddInterfaceEffect
      <3>4. \A m \in hosts[h].network_memberships \cup {NewInterface(n, ip, t, d)} :
               m.active_key_id \in keys' \cup {None}
        BY <3>1, <3>2, <3>3 DEF KeysLive
      <3> QED
        BY <1>2, <3>1, <3>3, <3>4
    <2>3. ASSUME NEW h \in Host, NEW n0 \in Network, NEW n \in Network, NEW ip \in Address,
                 NEW t \in InterfaceType, NEW d \in DnsServer \cup {None},
                 EditInterface(h, n0, n, ip, t, d)
          PROVE  KeysLive'
      <3> DEFINE new == NewInterface(n, ip, t, d)
      <3>1. UNCHANGED <<clients, keys>>
        BY <2>3 DEF EditInterface
      <3>2. \A k : [new EXCEPT !.active_key_id = k].active_key_id = k
        BY DEF NewInterface
      <3>3. h \in LiveHosts /\ OnlyInterfaces(h, Edited(h, n0, new))
        BY <2>3, EditInterfaceEffect
      <3> HIDE DEF new
      <3>4. ASSUME NEW m \in Edited(h, n0, new)
            PROVE  m.active_key_id \in keys' \cup {None}
        <4>1. PICK o \in hosts[h].network_memberships :
                m = IF o.network_id = n0 THEN [new EXCEPT !.active_key_id = o.active_key_id] ELSE o
          BY DEF Edited
        <4>2. m.active_key_id = o.active_key_id
          BY <3>2, <4>1
        <4> QED
          BY <3>1, <3>3, <4>2 DEF KeysLive
      <3> QED
        BY <1>2, <3>1, <3>3, <3>4
    <2>4. ASSUME NEW h \in Host, NEW n \in Network, RemoveInterface(h, n)
          PROVE  KeysLive'
      <3>1. UNCHANGED <<clients, keys>>
        BY <2>4 DEF RemoveInterface
      <3>2. /\ h \in LiveHosts
            /\ OnlyInterfaces(h, {m \in hosts[h].network_memberships : m.network_id # n})
        BY <2>4, RemoveInterfaceEffect
      <3>3. \A m \in {o \in hosts[h].network_memberships : o.network_id # n} :
               m.active_key_id \in keys' \cup {None}
        BY <3>1, <3>2 DEF KeysLive
      <3> QED
        BY <1>2, <3>1, <3>2, <3>3
    <2>5. ASSUME NEW h \in Host, NEW n \in Network, NEW k \in Key,
                 RotateInterfaceKey(h, n, k) \/ AssignInterfaceKey(h, n, k)
          PROVE  KeysLive'
      <3>1. UNCHANGED clients /\ keys \subseteq keys'
        BY <2>5 DEF RotateInterfaceKey, AssignInterfaceKey
      <3>2. h \in LiveHosts /\ OnlyInterfaces(h, Rekeyed(h, n, k)) /\ k \in keys'
        BY <2>5, InterfaceKeyEffect DEF InterfaceKeyStep
      <3>3. \A m \in hosts[h].network_memberships : [m EXCEPT !.active_key_id = k].active_key_id = k
        BY <3>2, LiveDocs DEF Interface
      <3>4. \A m \in Rekeyed(h, n, k) : m.active_key_id \in keys' \cup {None}
        BY <3>1, <3>2, <3>3 DEF Rekeyed, KeysLive
      <3> QED
        BY <1>2, <3>1, <3>2, <3>4
    <2>6. ASSUME NEW h \in Host, NEW p \in Host, NEW n \in Network,
                 \/ \E a \in AllowedIpsSet : AddPeerConnection(h, p, n, a)
                 \/ RemovePeerConnection(h, p, n)
          PROVE  KeysLive'
      <3>1. UNCHANGED <<clients, keys>>
        BY <2>6 DEF AddPeerConnection, RemovePeerConnection
      <3> QED
        BY <1>3, <2>6, <3>1, AddPeerConnectionEffect, RemovePeerConnectionEffect
    <2> QED
      BY <1>6, <2>1, <2>2, <2>3, <2>4, <2>5, <2>6 DEF HostNext
  <1>7. ASSUME ClientNext
        PROVE  KeysLive'
    <2>1. ASSUME NEW c \in Client, NEW d \in DnsServer \cup {None}, NEW k \in Key,
                 NewClientStep(c, d, k)
          PROVE  KeysLive'
      <3>1. UNCHANGED hosts /\ keys \subseteq keys'
        BY <2>1 DEF NewClientStep, CreateClient, CreateClientWithKey
      <3>2. [NewClient(d) EXCEPT !.active_key_id = k].active_key_id = k
        BY DEF NewClient
      <3>3. /\ k \in keys' /\ LiveClients' = LiveClients \cup {c}
            /\ \A b \in LiveClients : clients'[b] = clients[b]
            /\ clients'[c].active_key_id = k
        BY <2>1, <3>2, CreateClientEffect
      <3> QED
        BY <3>1, <3>3 DEF KeysLive, LiveHosts
    <2>2. ASSUME NEW c \in Client, DeleteClient(c)
          PROVE  KeysLive'
      <3>1. UNCHANGED <<hosts, keys>>
        BY <2>2 DEF DeleteClient
      <3> QED
        BY <2>2, <3>1, DeleteClientEffect DEF KeysLive, LiveHosts
    <2>3. ASSUME NEW c \in Client, NEW k \in Key, RotateKey(c, k) \/ AssignExistingKey(c, k)
          PROVE  KeysLive'
      <3>1. UNCHANGED hosts /\ keys \subseteq keys'
        BY <2>3 DEF RotateKey, AssignExistingKey
      <3>2. /\ c \in LiveClients /\ k \in keys'
            /\ OnlyClient(c, [clients[c] EXCEPT !.active_key_id = k])
        BY <2>3, ClientKeyEffect DEF ClientKeyStep
      <3>3. [clients[c] EXCEPT !.active_key_id = k].active_key_id = k
        BY <3>2, LiveDocs DEF ClientDoc
      <3> QED
        BY <1>4, <3>1, <3>2, <3>3
    <2>4. ASSUME NEW c \in LiveClients, NEW doc, OnlyClient(c, doc), UNCHANGED <<hosts, keys>>,
                 doc.active_key_id = clients[c].active_key_id
          PROVE  KeysLive'
      BY <1>4, <2>4 DEF KeysLive
    <2>5. \A c \in LiveClients : \A v :
             /\ [clients[c] EXCEPT !.dns_server_id = v].active_key_id = clients[c].active_key_id
             /\ [clients[c] EXCEPT !.network_memberships = v].active_key_id = clients[c].active_key_id
             /\ [clients[c] EXCEPT !.connections = v].active_key_id = clients[c].active_key_id
      BY LiveDocs DEF ClientDoc
    <2>6. ASSUME NEW c \in Client, NEW d \in DnsServer \cup {None}, EditClient(c, d)
          PROVE  KeysLive'
      BY <2>4, <2>5, <2>6, EditClientEffect DEF EditClient
    <2>7. ASSUME NEW c \in Client, NEW n \in Network,
                 \/ \E ip \in Address : AddNetworkMembership(c, n, ip)
                 \/ RemoveNetworkMembership(c, n)
          PROVE  KeysLive'
      BY <2>4, <2>5, <2>7, AddNetworkMembershipEffect, RemoveNetworkMembershipEffect
      DEF AddNetworkMembership, RemoveNetworkMembership
    <2>8. ASSUME NEW c \in Client, NEW x \in Connection,
                 \/ AddConnection(c, x.host_id, x.network_id, x.allowed_ips_set_id)
                 \/ RemoveConnection(c, x)
          PROVE  KeysLive'
      <3>1. x.host_id \in Host /\ x.network_id \in Network /\ x.allowed_ips_set_id \in AllowedIpsSet
        BY DEF Connection
      <3> QED
        BY <2>4, <2>5, <2>8, <3>1, AddConnectionEffect, RemoveConnectionEffect
        DEF AddConnection, RemoveConnection
    <2> QED
      BY <1>7, <2>1, <2>2, <2>3, <2>6, <2>7, <2>8 DEF ClientNext, NewClientStep
  <1>8. ASSUME PresetNext
        PROVE  KeysLive'
    <2>1. ASSUME NEW k \in Key, DeleteKey(k)
          PROVE  KeysLive'
      BY <2>1 DEF DeleteKey, KeyUsed, KeysLive, LiveHosts, LiveClients
    <2>2. ASSUME NEW k \in Key, CreateKey(k)
          PROVE  KeysLive'
      BY <2>2 DEF CreateKey, KeysLive, LiveHosts, LiveClients
    <2>3. ASSUME NEW k \in Key, NEW h \in Host, NEW n \in Network, AssignKeyToInterface(k, h, n)
          PROVE  KeysLive'
      <3>1. UNCHANGED clients /\ keys \subseteq keys'
        BY <2>3 DEF AssignKeyToInterface
      <3>2. h \in LiveHosts /\ OnlyInterfaces(h, Rekeyed(h, n, k)) /\ k \in keys'
        BY <2>3, InterfaceKeyEffect DEF InterfaceKeyStep
      <3>3. \A m \in hosts[h].network_memberships : [m EXCEPT !.active_key_id = k].active_key_id = k
        BY <3>2, LiveDocs DEF Interface
      <3>4. \A m \in Rekeyed(h, n, k) : m.active_key_id \in keys' \cup {None}
        BY <3>1, <3>2, <3>3 DEF Rekeyed, KeysLive
      <3> QED
        BY <1>2, <3>1, <3>2, <3>4
    <2>4. ASSUME NEW k \in Key, NEW c \in Client, AssignKeyToClient(k, c)
          PROVE  KeysLive'
      <3>1. UNCHANGED hosts /\ keys \subseteq keys'
        BY <2>4 DEF AssignKeyToClient
      <3>2. /\ c \in LiveClients /\ k \in keys'
            /\ OnlyClient(c, [clients[c] EXCEPT !.active_key_id = k])
        BY <2>4, ClientKeyEffect DEF ClientKeyStep
      <3>3. [clients[c] EXCEPT !.active_key_id = k].active_key_id = k
        BY <3>2, LiveDocs DEF ClientDoc
      <3> QED
        BY <1>4, <3>1, <3>2, <3>3
    <2>5. ASSUME NEW d \in DnsServer, CreateDnsServer(d) \/ DeleteDnsServer(d)
          PROVE  KeysLive'
      BY <1>1, <2>5 DEF CreateDnsServer, DeleteDnsServer
    <2>6. ASSUME NEW a \in AllowedIpsSet, CreateAllowedIpsSet(a) \/ DeleteAllowedIpsSet(a)
          PROVE  KeysLive'
      BY <1>1, <2>6 DEF CreateAllowedIpsSet, DeleteAllowedIpsSet
    <2> QED
      BY <1>8, <2>1, <2>2, <2>3, <2>4, <2>5, <2>6 DEF PresetNext
  <1>9. CASE UNCHANGED vars
    BY <1>1, <1>9 DEF vars
  <1> QED
    BY <1>5, <1>6, <1>7, <1>8, <1>9 DEF Next

\* No interface and no client ever points at a key that was deleted: with one
\* request at a time, delete_key_if_unused keeps every key that something uses.
THEOREM KeysStayLive == Spec => []KeysLive
  <1>1. Init => KeysLive
    BY DEF Init, KeysLive, LiveHosts, LiveClients
  <1> QED
    BY <1>1, NextKeysLive, TypeCorrect, PTL DEF Spec
-----------------------------------------------------------------------------
LEMMA NextClientsHaveKeys ==
    ASSUME TypeOK, ClientsHaveKeys, [Next]_vars
    PROVE  ClientsHaveKeys'
  <1>1. \A k \in Key : k # None
    BY NoneAssumption DEF Ids
  <1>2. ASSUME UNCHANGED clients
        PROVE  ClientsHaveKeys'
    BY <1>2 DEF ClientsHaveKeys, LiveClients
  <1>3. ASSUME NEW c \in LiveClients, NEW doc, OnlyClient(c, doc), doc.active_key_id # None
        PROVE  ClientsHaveKeys'
    BY <1>3 DEF ClientsHaveKeys, OnlyClient
  <1>4. \A c \in LiveClients : \A v :
           /\ [clients[c] EXCEPT !.active_key_id = v].active_key_id = v
           /\ [clients[c] EXCEPT !.dns_server_id = v].active_key_id = clients[c].active_key_id
           /\ [clients[c] EXCEPT !.network_memberships = v].active_key_id = clients[c].active_key_id
           /\ [clients[c] EXCEPT !.connections = v].active_key_id = clients[c].active_key_id
    BY LiveDocs DEF ClientDoc
  <1>5. ASSUME NEW c \in Client, NEW k \in Key, ClientKeyStep(c, k)
        PROVE  ClientsHaveKeys'
    <2>1. c \in LiveClients /\ OnlyClient(c, [clients[c] EXCEPT !.active_key_id = k])
      BY <1>5, ClientKeyEffect
    <2> QED
      BY <1>1, <1>3, <1>4, <2>1
  <1>6. ASSUME NEW c \in LiveClients, NEW doc, OnlyClient(c, doc),
               doc.active_key_id = clients[c].active_key_id
        PROVE  ClientsHaveKeys'
    BY <1>3, <1>6 DEF ClientsHaveKeys
  <1>7. ASSUME ClientNext
        PROVE  ClientsHaveKeys'
    <2>1. ASSUME NEW c \in Client, NEW d \in DnsServer \cup {None}, NEW k \in Key,
                 NewClientStep(c, d, k)
          PROVE  ClientsHaveKeys'
      <3>1. [NewClient(d) EXCEPT !.active_key_id = k].active_key_id = k
        BY DEF NewClient
      <3> QED
        BY <1>1, <2>1, <3>1, CreateClientEffect DEF ClientsHaveKeys
    <2>2. ASSUME NEW c \in Client, DeleteClient(c)
          PROVE  ClientsHaveKeys'
      BY <2>2, DeleteClientEffect DEF ClientsHaveKeys
    <2>3. ASSUME NEW c \in Client, NEW d \in DnsServer \cup {None}, EditClient(c, d)
          PROVE  ClientsHaveKeys'
      <3>1. c \in LiveClients /\ OnlyClient(c, [clients[c] EXCEPT !.dns_server_id = d])
        BY <2>3, EditClientEffect
      <3> QED
        BY <1>4, <1>6, <3>1
    <2>4. ASSUME NEW c \in Client, NEW n \in Network,
                 \/ \E ip \in Address : AddNetworkMembership(c, n, ip)
                 \/ RemoveNetworkMembership(c, n)
          PROVE  ClientsHaveKeys'
      <3>1. ASSUME NEW v, c \in LiveClients,
                   OnlyClient(c, [clients[c] EXCEPT !.network_memberships = v])
            PROVE  ClientsHaveKeys'
        BY <1>4, <1>6, <3>1
      <3> QED
        BY <2>4, <3>1, AddNetworkMembershipEffect, RemoveNetworkMembershipEffect
    <2>5. ASSUME NEW c \in Client, NEW x \in Connection,
                 \/ AddConnection(c, x.host_id, x.network_id, x.allowed_ips_set_id)
                 \/ RemoveConnection(c, x)
          PROVE  ClientsHaveKeys'
      <3>1. x.host_id \in Host /\ x.network_id \in Network /\ x.allowed_ips_set_id \in AllowedIpsSet
        BY DEF Connection
      <3>2. ASSUME NEW v, c \in LiveClients,
                   OnlyClient(c, [clients[c] EXCEPT !.connections = v])
            PROVE  ClientsHaveKeys'
        BY <1>4, <1>6, <3>2
      <3> QED
        BY <2>5, <3>1, <3>2, AddConnectionEffect, RemoveConnectionEffect
    <2> QED
      BY <1>5, <1>7, <2>1, <2>2, <2>3, <2>4, <2>5 DEF ClientNext, NewClientStep, ClientKeyStep
  <1>8. CASE NetworkNext
    BY <1>2, <1>8, NetworkNextEffect
  <1>9. ASSUME HostNext
        PROVE  UNCHANGED clients
    BY <1>9 DEF HostNext, CreateHost, DeleteHost, AddInterface, EditInterface, RemoveInterface,
       RotateInterfaceKey, AssignInterfaceKey, AddPeerConnection, RemovePeerConnection
  <1>10. ASSUME PresetNext
         PROVE  UNCHANGED clients \/ \E k \in Key, c \in Client : ClientKeyStep(c, k)
    BY <1>10 DEF PresetNext, CreateKey, DeleteKey, AssignKeyToInterface, ClientKeyStep,
       CreateDnsServer, DeleteDnsServer, CreateAllowedIpsSet, DeleteAllowedIpsSet
  <1>11. CASE UNCHANGED vars
    BY <1>2, <1>11 DEF vars
  <1> QED
    BY <1>2, <1>5, <1>7, <1>8, <1>9, <1>10, <1>11 DEF Next

\* Every client has had a key since create_client returned, whatever other handlers
\* did to it or to its key: they replace a key by a key.
THEOREM ClientsKeepKeys == Spec => []ClientsHaveKeys
  <1>1. Init => ClientsHaveKeys
    BY DEF Init, ClientsHaveKeys, LiveClients
  <1> QED
    BY <1>1, NextClientsHaveKeys, TypeCorrect, PTL DEF Spec
-----------------------------------------------------------------------------
\* Of all handlers only delete_key_if_unused takes a key away, and it checks first.
LEMMA OnlyDeleteKeyTakes ==
    ASSUME [Next]_vars, NEW k \in keys, k \notin keys'
    PROVE  DeleteKey(k)
  <1>1. ~NetworkNext /\ ~UNCHANGED vars
    BY NetworkNextEffect DEF vars
  <1>2. ASSUME HostNext
        PROVE  keys \subseteq keys'
    BY <1>2 DEF HostNext, CreateHost, DeleteHost, AddInterface, EditInterface, RemoveInterface,
       RotateInterfaceKey, AssignInterfaceKey, AddPeerConnection, RemovePeerConnection
  <1>3. ASSUME ClientNext
        PROVE  keys \subseteq keys'
    BY <1>3 DEF ClientNext, CreateClient, CreateClientWithKey, EditClient, DeleteClient, RotateKey,
       AssignExistingKey, AddNetworkMembership, RemoveNetworkMembership, AddConnection,
       RemoveConnection
  <1>4. PresetNext
    BY <1>1, <1>2, <1>3 DEF Next
  <1> QED
    BY <1>4 DEF PresetNext, CreateKey, DeleteKey, AssignKeyToInterface, AssignKeyToClient,
       CreateDnsServer, DeleteDnsServer, CreateAllowedIpsSet, DeleteAllowedIpsSet

\* A key that no longer has an owner stays stored until it is deleted, which repoints
\* nobody and happens only while neither an interface nor a client has the key.
THEOREM UnusedKeysAreKept == Spec => UnusedKeysStay
  <1>1. ASSUME [Next]_vars
        PROVE  \A k \in keys \ keys' :
                  /\ hosts' = hosts /\ clients' = clients
                  /\ \A h \in LiveHosts : \A m \in hosts[h].network_memberships : m.active_key_id # k
                  /\ \A c \in LiveClients : clients[c].active_key_id # k
    BY <1>1, OnlyDeleteKeyTakes DEF DeleteKey, KeyUsed
  <1> QED
    BY <1>1, PTL DEF Spec, UnusedKeysStay

-----------------------------------------------------------------------------
(* DNS servers and Allowed IPs sets: the checks before a delete see every    *)
(* interface, client, peer connection and connection that uses one, and      *)
(* nothing but those checks keeps the presets that are in use.               *)

LEMMA PresetFields ==
    ASSUME TypeOK
    PROVE  /\ \A h \in LiveHosts : \A m \in hosts[h].network_memberships : \A k :
                 [m EXCEPT !.active_key_id = k].dns_server_id = m.dns_server_id
           /\ \A c \in LiveClients : \A v :
                 /\ [clients[c] EXCEPT !.active_key_id = v].dns_server_id = clients[c].dns_server_id
                 /\ [clients[c] EXCEPT !.active_key_id = v].connections = clients[c].connections
                 /\ [clients[c] EXCEPT !.dns_server_id = v].dns_server_id = v
                 /\ [clients[c] EXCEPT !.dns_server_id = v].connections = clients[c].connections
                 /\ [clients[c] EXCEPT !.network_memberships = v].dns_server_id
                       = clients[c].dns_server_id
                 /\ [clients[c] EXCEPT !.network_memberships = v].connections
                       = clients[c].connections
                 /\ [clients[c] EXCEPT !.connections = v].dns_server_id = clients[c].dns_server_id
                 /\ [clients[c] EXCEPT !.connections = v].connections = v
  BY LiveDocs DEF Interface, ClientDoc

LEMMA HostNextPresetsLive ==
    ASSUME TypeOK, PresetsLive, HostNext
    PROVE  PresetsLive'
  <1>1. UNCHANGED <<clients, dnsServers, allowedIps>>
    BY DEF HostNext, CreateHost, DeleteHost, AddInterface, EditInterface, RemoveInterface,
       RotateInterfaceKey, AssignInterfaceKey, AddPeerConnection, RemovePeerConnection
  <1>2. ASSUME NEW h \in LiveHosts, NEW ms, OnlyInterfaces(h, ms),
               \A m \in ms : m.dns_server_id \in DnsChoice
        PROVE  PresetsLive'
    BY <1>1, <1>2 DEF PresetsLive, OnlyInterfaces, LiveClients, DnsChoice
  <1>3. ASSUME NEW h, NEW p, NEW ps, NEW qs, OnlyPeers(h, p, ps, qs),
               h \in LiveHosts => \A x \in ps : x.allowed_ips_set_id \in allowedIps,
               p \in LiveHosts => \A x \in qs : x.allowed_ips_set_id \in allowedIps
        PROVE  PresetsLive'
    BY <1>1, <1>3 DEF PresetsLive, OnlyPeers, LiveClients, DnsChoice
  <1>4. ASSUME NEW h \in Host, CreateHost(h) \/ DeleteHost(h)
        PROVE  PresetsLive'
    BY <1>1, <1>4, CreateHostEffect, DeleteHostEffect DEF PresetsLive, LiveClients, DnsChoice
  <1>5. ASSUME NEW h \in Host, NEW n \in Network, NEW ip \in Address, NEW t \in InterfaceType,
               NEW d \in DnsServer \cup {None}, AddInterface(h, n, ip, t, d)
        PROVE  PresetsLive'
    <2>1. NewInterface(n, ip, t, d).dns_server_id \in DnsChoice
      BY <1>5 DEF AddInterface, CanAddInterface, NewInterface, DnsChoice
    <2>2. /\ h \in LiveHosts
          /\ OnlyInterfaces(h, hosts[h].network_memberships \cup {NewInterface(n, ip, t, d)})
      BY <1>5, AddInterfaceEffect
    <2>3. \A m \in hosts[h].network_memberships \cup {NewInterface(n, ip, t, d)} :
             m.dns_server_id \in DnsChoice
      BY <2>1, <2>2 DEF PresetsLive
    <2> QED
      BY <1>2, <2>2, <2>3
  <1>6. ASSUME NEW h \in Host, NEW n0 \in Network, NEW n \in Network, NEW ip \in Address,
               NEW t \in InterfaceType, NEW d \in DnsServer \cup {None},
               EditInterface(h, n0, n, ip, t, d)
        PROVE  PresetsLive'
    <2> DEFINE new == NewInterface(n, ip, t, d)
    <2>1. \A k : [new EXCEPT !.active_key_id = k].dns_server_id \in DnsChoice
      BY <1>6 DEF EditInterface, CanEditInterface, NewInterface, DnsChoice
    <2>2. h \in LiveHosts /\ OnlyInterfaces(h, Edited(h, n0, new))
      BY <1>6, EditInterfaceEffect
    <2> HIDE DEF new
    <2>3. ASSUME NEW m \in Edited(h, n0, new)
          PROVE  m.dns_server_id \in DnsChoice
      <3>1. PICK o \in hosts[h].network_memberships :
              m = IF o.network_id = n0 THEN [new EXCEPT !.active_key_id = o.active_key_id] ELSE o
        BY DEF Edited
      <3> QED
        BY <2>1, <2>2, <3>1 DEF PresetsLive
    <2> QED
      BY <1>2, <2>2, <2>3
  <1>7. ASSUME NEW h \in Host, NEW n \in Network, RemoveInterface(h, n)
        PROVE  PresetsLive'
    <2>1. /\ h \in LiveHosts
          /\ OnlyInterfaces(h, {m \in hosts[h].network_memberships : m.network_id # n})
      BY <1>7, RemoveInterfaceEffect
    <2>2. \A m \in {o \in hosts[h].network_memberships : o.network_id # n} :
             m.dns_server_id \in DnsChoice
      BY <2>1 DEF PresetsLive
    <2> QED
      BY <1>2, <2>1, <2>2
  <1>8. ASSUME NEW h \in Host, NEW n \in Network, NEW k \in Key,
               RotateInterfaceKey(h, n, k) \/ AssignInterfaceKey(h, n, k)
        PROVE  PresetsLive'
    <2>1. h \in LiveHosts /\ OnlyInterfaces(h, Rekeyed(h, n, k))
      BY <1>8, InterfaceKeyEffect DEF InterfaceKeyStep
    <2>2. \A m \in Rekeyed(h, n, k) : m.dns_server_id \in DnsChoice
      <3>1. \A m \in hosts[h].network_memberships :
               /\ [m EXCEPT !.active_key_id = k].dns_server_id = m.dns_server_id
               /\ m.dns_server_id \in DnsChoice
        BY <2>1, PresetFields DEF PresetsLive
      <3> QED
        BY <3>1 DEF Rekeyed
    <2> QED
      BY <1>2, <2>1, <2>2
  <1>9. ASSUME NEW h \in Host, NEW p \in Host, NEW n \in Network, NEW a \in AllowedIpsSet,
               AddPeerConnection(h, p, n, a)
        PROVE  PresetsLive'
    <2>1. a \in allowedIps
      BY <1>9 DEF AddPeerConnection, CanAddPeerConnection
    <2>2. \A g : NewPeer(g, n, a).allowed_ips_set_id = a
      BY DEF NewPeer
    <2>3. /\ h \in LiveHosts /\ p \in LiveHosts
          /\ OnlyPeers(h, p, hosts[h].peer_connections \cup {NewPeer(p, n, a)},
                             hosts[p].peer_connections \cup {NewPeer(h, n, a)})
      BY <1>9, AddPeerConnectionEffect
    <2>4. /\ \A x \in hosts[h].peer_connections \cup {NewPeer(p, n, a)} :
                x.allowed_ips_set_id \in allowedIps
          /\ \A x \in hosts[p].peer_connections \cup {NewPeer(h, n, a)} :
                x.allowed_ips_set_id \in allowedIps
      BY <2>1, <2>2, <2>3 DEF PresetsLive
    <2> QED
      BY <1>3, <2>3, <2>4
  <1>10. ASSUME NEW h \in Host, NEW p \in Host, NEW n \in Network, RemovePeerConnection(h, p, n)
         PROVE  PresetsLive'
    <2>1. \A g \in LiveHosts : \A x \in hosts[g].peer_connections :
             x.allowed_ips_set_id \in allowedIps
      BY DEF PresetsLive
    <2>2. OnlyPeers(h, p, {x \in hosts[h].peer_connections : ~Names(x, p, n)},
                          {x \in hosts[p].peer_connections : ~Names(x, h, n)})
      BY <1>10, RemovePeerConnectionEffect
    <2> QED
      BY <1>3, <2>1, <2>2
  <1> QED
    BY <1>4, <1>5, <1>6, <1>7, <1>8, <1>9, <1>10 DEF HostNext

LEMMA ClientNextPresetsLive ==
    ASSUME TypeOK, PresetsLive, ClientNext
    PROVE  PresetsLive'
  <1>1. UNCHANGED <<hosts, dnsServers, allowedIps>>
    BY DEF ClientNext, CreateClient, CreateClientWithKey, EditClient, DeleteClient, RotateKey,
       AssignExistingKey, AddNetworkMembership, RemoveNetworkMembership, AddConnection,
       RemoveConnection
  <1>2. ASSUME NEW c \in LiveClients, NEW doc, OnlyClient(c, doc),
               doc.dns_server_id \in DnsChoice,
               \A x \in doc.connections : x.allowed_ips_set_id \in allowedIps
        PROVE  PresetsLive'
    BY <1>1, <1>2 DEF PresetsLive, OnlyClient, LiveHosts, DnsChoice
  <1>3. ASSUME NEW c \in LiveClients
        PROVE  /\ clients[c].dns_server_id \in DnsChoice
               /\ \A x \in clients[c].connections : x.allowed_ips_set_id \in allowedIps
    BY DEF PresetsLive
  <1>4. ASSUME NEW c \in LiveClients, NEW doc, OnlyClient(c, doc),
               doc.dns_server_id = clients[c].dns_server_id,
               doc.connections = clients[c].connections
        PROVE  PresetsLive'
    BY <1>2, <1>3, <1>4
  <1>5. ASSUME NEW c \in Client, NEW d \in DnsServer \cup {None}, NEW k \in Key,
               NewClientStep(c, d, k)
        PROVE  PresetsLive'
    <2>1. /\ [NewClient(d) EXCEPT !.active_key_id = k].dns_server_id = d
          /\ [NewClient(d) EXCEPT !.active_key_id = k].connections = {}
      BY DEF NewClient
    <2>2. /\ d \in DnsChoice /\ LiveClients' = LiveClients \cup {c}
          /\ \A b \in LiveClients : clients'[b] = clients[b]
          /\ clients'[c].dns_server_id = d /\ clients'[c].connections = {}
      BY <1>5, <2>1, CreateClientEffect
    <2> QED
      BY <1>1, <2>2 DEF PresetsLive, LiveHosts, DnsChoice
  <1>6. ASSUME NEW c \in Client, DeleteClient(c)
        PROVE  PresetsLive'
    BY <1>1, <1>6, DeleteClientEffect DEF PresetsLive, LiveHosts, DnsChoice
  <1>7. ASSUME NEW c \in Client, NEW k \in Key, RotateKey(c, k) \/ AssignExistingKey(c, k)
        PROVE  PresetsLive'
    <2>1. c \in LiveClients /\ OnlyClient(c, [clients[c] EXCEPT !.active_key_id = k])
      BY <1>7, ClientKeyEffect DEF ClientKeyStep
    <2> QED
      BY <1>4, <2>1, PresetFields
  <1>8. ASSUME NEW c \in Client, NEW d \in DnsServer \cup {None}, EditClient(c, d)
        PROVE  PresetsLive'
    <2>1. /\ c \in LiveClients /\ d \in DnsChoice
          /\ OnlyClient(c, [clients[c] EXCEPT !.dns_server_id = d])
      BY <1>8, EditClientEffect
    <2>2. /\ [clients[c] EXCEPT !.dns_server_id = d].dns_server_id = d
          /\ [clients[c] EXCEPT !.dns_server_id = d].connections = clients[c].connections
      BY <2>1, PresetFields
    <2> QED
      BY <1>2, <1>3, <2>1, <2>2
  <1>9. ASSUME NEW c \in Client, NEW n \in Network,
               \/ \E ip \in Address : AddNetworkMembership(c, n, ip)
               \/ RemoveNetworkMembership(c, n)
        PROVE  PresetsLive'
    <2>1. ASSUME NEW v, c \in LiveClients,
                 OnlyClient(c, [clients[c] EXCEPT !.network_memberships = v])
          PROVE  PresetsLive'
      BY <1>4, <2>1, PresetFields
    <2> QED
      BY <1>9, <2>1, AddNetworkMembershipEffect, RemoveNetworkMembershipEffect
  <1>10. ASSUME NEW v, NEW c \in LiveClients,
                OnlyClient(c, [clients[c] EXCEPT !.connections = v]),
                \A x \in v : x.allowed_ips_set_id \in allowedIps
         PROVE  PresetsLive'
    <2>1. /\ [clients[c] EXCEPT !.connections = v].dns_server_id \in DnsChoice
          /\ [clients[c] EXCEPT !.connections = v].connections = v
      BY <1>3, PresetFields
    <2> QED
      BY <1>2, <1>10, <2>1
  <1>11. ASSUME NEW c \in Client, NEW h \in Host, NEW n \in Network, NEW a \in AllowedIpsSet,
                AddConnection(c, h, n, a)
         PROVE  PresetsLive'
    <2> DEFINE v == clients[c].connections \cup {NewConnection(h, n, a)}
    <2>1. NewConnection(h, n, a).allowed_ips_set_id = a /\ a \in allowedIps
      BY <1>11 DEF AddConnection, CanAddConnection, NewConnection
    <2>2. c \in LiveClients /\ OnlyClient(c, [clients[c] EXCEPT !.connections = v])
      BY <1>11, AddConnectionEffect
    <2>3. \A x \in v : x.allowed_ips_set_id \in allowedIps
      BY <1>3, <2>1, <2>2
    <2> QED
      BY <1>10, <2>2, <2>3
  <1>12. ASSUME NEW c \in Client, NEW x \in Connection, RemoveConnection(c, x)
         PROVE  PresetsLive'
    <2>1. /\ c \in LiveClients
          /\ OnlyClient(c, [clients[c] EXCEPT !.connections = clients[c].connections \ {x}])
      BY <1>12, RemoveConnectionEffect
    <2> QED
      BY <1>3, <1>10, <2>1
  <1>13. \A x \in Connection :
            x.host_id \in Host /\ x.network_id \in Network /\ x.allowed_ips_set_id \in AllowedIpsSet
    BY DEF Connection
  <1> QED
    BY <1>5, <1>6, <1>7, <1>8, <1>9, <1>11, <1>12, <1>13 DEF ClientNext, NewClientStep

LEMMA PresetNextPresetsLive ==
    ASSUME TypeOK, PresetsLive, PresetNext
    PROVE  PresetsLive'
  <1>1. ASSUME UNCHANGED <<hosts, clients>>, dnsServers \subseteq dnsServers',
               allowedIps \subseteq allowedIps'
        PROVE  PresetsLive'
    BY <1>1 DEF PresetsLive, LiveHosts, LiveClients, DnsChoice
  <1>2. ASSUME NEW d \in DnsServer, DeleteDnsServer(d)
        PROVE  PresetsLive'
    BY <1>2 DEF DeleteDnsServer, DnsServerInUse, PresetsLive, LiveHosts, LiveClients, DnsChoice
  <1>3. ASSUME NEW a \in AllowedIpsSet, DeleteAllowedIpsSet(a)
        PROVE  PresetsLive'
    BY <1>3 DEF DeleteAllowedIpsSet, AllowedIpsInUse, PresetsLive, LiveHosts, LiveClients, DnsChoice
  <1>4. ASSUME NEW k \in Key, NEW h \in Host, NEW n \in Network, AssignKeyToInterface(k, h, n)
        PROVE  PresetsLive'
    <2>1. UNCHANGED <<clients, dnsServers, allowedIps>>
      BY <1>4 DEF AssignKeyToInterface
    <2>2. h \in LiveHosts /\ OnlyInterfaces(h, Rekeyed(h, n, k))
      BY <1>4, InterfaceKeyEffect DEF InterfaceKeyStep
    <2>3. \A m \in Rekeyed(h, n, k) : m.dns_server_id \in DnsChoice
      <3>1. \A m \in hosts[h].network_memberships :
               /\ [m EXCEPT !.active_key_id = k].dns_server_id = m.dns_server_id
               /\ m.dns_server_id \in DnsChoice
        BY <2>2, PresetFields DEF PresetsLive
      <3> QED
        BY <3>1 DEF Rekeyed
    <2> QED
      BY <2>1, <2>2, <2>3 DEF PresetsLive, OnlyInterfaces, LiveClients, DnsChoice
  <1>5. ASSUME NEW k \in Key, NEW c \in Client, AssignKeyToClient(k, c)
        PROVE  PresetsLive'
    <2> DEFINE doc == [clients[c] EXCEPT !.active_key_id = k]
    <2>1. UNCHANGED <<hosts, dnsServers, allowedIps>>
      BY <1>5 DEF AssignKeyToClient
    <2>2. c \in LiveClients /\ OnlyClient(c, doc)
      BY <1>5, ClientKeyEffect DEF ClientKeyStep
    <2>3. /\ doc.dns_server_id = clients[c].dns_server_id
          /\ doc.connections = clients[c].connections
      BY <2>2, PresetFields
    <2> HIDE DEF doc
    <2> QED
      BY <2>1, <2>2, <2>3 DEF PresetsLive, OnlyClient, LiveHosts, DnsChoice
  <1> QED
    BY <1>1, <1>2, <1>3, <1>4, <1>5
    DEF PresetNext, CreateKey, DeleteKey, CreateDnsServer, CreateAllowedIpsSet

-----------------------------------------------------------------------------
\* Every DNS server and every Allowed IPs set that a host or a client refers to is
\* stored: _in_use of both blueprints looks at all the places handlers write one to.
THEOREM PresetsStayLive == Spec => []PresetsLive
  <1>1. Init => PresetsLive
    BY DEF Init, PresetsLive, LiveHosts, LiveClients
  <1>2. ASSUME TypeOK, PresetsLive, [Next]_vars
        PROVE  PresetsLive'
    <2>1. CASE NetworkNext
      BY <1>2, <2>1, NetworkNextEffect
      DEF NetworkNext, CreateNetwork, EditNetwork, DeleteNetwork, PresetsLive, LiveHosts,
          LiveClients, DnsChoice
    <2>2. CASE UNCHANGED vars
      BY <1>2, <2>2 DEF vars, PresetsLive, LiveHosts, LiveClients, DnsChoice
    <2> QED
      BY <1>2, <2>1, <2>2, HostNextPresetsLive, ClientNextPresetsLive, PresetNextPresetsLive
      DEF Next
  <1> QED
    BY <1>1, <1>2, TypeCorrect, PTL DEF Spec

-----------------------------------------------------------------------------
(* Places: the addresses that the interfaces of hosts and the memberships  *)
(* of clients take up in networks.  They lie in two collections, and what  *)
(* keeps them apart is in the handlers of three.                           *)

\* No two entries for one network.
OnePerNetwork(ms) == \A m, o \in ms : m.network_id = o.network_id => m = o

\* Every entry of ms is where one of old was, or on a stored network at an address
\* that is free but for the hosts in except.
PlacesFrom(old, ms, except) ==
    \A m \in ms :
        \/ \E o \in old : o.network_id = m.network_id /\ o.ip = m.ip
        \/ m.network_id \in LiveNetworks /\ ~AddressTaken(m.network_id, m.ip, except)

\* Only the interfaces of h changed, to ms.
InterfacesPlaced(h, ms) ==
    /\ OnlyInterfaces(h, ms) /\ UNCHANGED <<networks, clients>>
    /\ PlacesFrom(hosts[h].network_memberships, ms, {h})
    /\ OnePerNetwork(hosts[h].network_memberships) => OnePerNetwork(ms)

\* Only the document of c changed, and its memberships to ms.
MembershipsPlaced(c, ms) ==
    /\ \E doc : OnlyClient(c, doc) /\ doc.network_memberships = ms
    /\ UNCHANGED <<networks, hosts>>
    /\ PlacesFrom(clients[c].network_memberships, ms, {})
    /\ OnePerNetwork(clients[c].network_memberships) => OnePerNetwork(ms)

\* Documents come with no places, and networks go that have none.
NothingPlaced ==
    /\ \A g \in LiveHosts' :
          \/ hosts'[g].network_memberships = {}
          \/ g \in LiveHosts /\ hosts'[g].network_memberships = hosts[g].network_memberships
    /\ \A c \in LiveClients' :
          \/ clients'[c].network_memberships = {}
          \/ c \in LiveClients /\ clients'[c].network_memberships = clients[c].network_memberships
    /\ \A n \in LiveNetworks \ LiveNetworks' : ~NetworkUsed(n)

PlaceStep ==
    \/ NothingPlaced
    \/ \E h \in LiveHosts : \E ms : InterfacesPlaced(h, ms)
    \/ \E c \in LiveClients : \E ms : MembershipsPlaced(c, ms)

LEMMA KeptPlaced ==
    ASSUME UNCHANGED <<networks, hosts, clients>>
    PROVE  NothingPlaced
  BY DEF NothingPlaced, LiveHosts, LiveClients, LiveNetworks

LEMMA AddInterfacePlaced ==
    ASSUME TypeOK, NEW h \in Host, NEW n \in Network, NEW ip \in Address,
           NEW t \in InterfaceType, NEW d \in DnsServer \cup {None}, AddInterface(h, n, ip, t, d)
    PROVE  PlaceStep
  <1> DEFINE old == hosts[h].network_memberships
             new == NewInterface(n, ip, t, d)
             ms == old \cup {new}
  <1>1. h \in LiveHosts /\ OnlyInterfaces(h, ms)
    BY AddInterfaceEffect
  <1>2. /\ n \in LiveNetworks /\ ~MemberOf(hosts[h], n) /\ ~AddressTaken(n, ip, {})
        /\ UNCHANGED <<networks, clients>>
    BY DEF AddInterface, CanAddInterface, Attachable
  <1>3. new.network_id = n /\ new.ip = ip
    BY DEF NewInterface
  <1>4. ~AddressTaken(n, ip, {h})
    BY <1>2 DEF AddressTaken
  <1> HIDE DEF new
  <1>5. PlacesFrom(old, ms, {h})
    BY <1>2, <1>3, <1>4 DEF PlacesFrom
  <1>6. OnePerNetwork(old) => OnePerNetwork(ms)
    BY <1>2, <1>3 DEF OnePerNetwork, MemberOf
  <1> QED
    BY <1>1, <1>2, <1>5, <1>6 DEF PlaceStep, InterfacesPlaced

LEMMA EditInterfacePlaced ==
    ASSUME TypeOK, NEW h \in Host, NEW n0 \in Network, NEW n \in Network, NEW ip \in Address,
           NEW t \in InterfaceType, NEW d \in DnsServer \cup {None},
           EditInterface(h, n0, n, ip, t, d)
    PROVE  PlaceStep
  <1> DEFINE old == hosts[h].network_memberships
             new == NewInterface(n, ip, t, d)
             ms == Edited(h, n0, new)
  <1>1. h \in LiveHosts /\ OnlyInterfaces(h, ms)
    BY EditInterfaceEffect
  <1>2. /\ n \in LiveNetworks /\ ~AddressTaken(n, ip, {h})
        /\ n # n0 => ~MemberOf(hosts[h], n)
        /\ UNCHANGED <<networks, clients>>
    BY DEF EditInterface, CanEditInterface, Attachable, FreeToMove
  <1>3. \A k : [new EXCEPT !.active_key_id = k].network_id = n
            /\ [new EXCEPT !.active_key_id = k].ip = ip
    BY DEF NewInterface
  <1> HIDE DEF new
  <1>4. ASSUME NEW m \in ms
        PROVE  \E o \in old :
                  \/ o.network_id = n0 /\ m = [new EXCEPT !.active_key_id = o.active_key_id]
                  \/ o.network_id # n0 /\ m = o
    BY DEF Edited
  <1> HIDE DEF ms
  <1>5. PlacesFrom(old, ms, {h})
    BY <1>2, <1>3, <1>4 DEF PlacesFrom
  <1>6. ASSUME OnePerNetwork(old)
        PROVE  OnePerNetwork(ms)
    <2> SUFFICES ASSUME NEW m \in ms, NEW q \in ms, m.network_id = q.network_id
                 PROVE  m = q
      BY DEF OnePerNetwork
    <2>1. PICK o \in old :
             \/ o.network_id = n0 /\ m = [new EXCEPT !.active_key_id = o.active_key_id]
             \/ o.network_id # n0 /\ m = o
      BY <1>4
    <2>2. PICK r \in old :
             \/ r.network_id = n0 /\ q = [new EXCEPT !.active_key_id = r.active_key_id]
             \/ r.network_id # n0 /\ q = r
      BY <1>4
    <2>3. o.network_id = n0 /\ r.network_id = n0 => o = r
      BY <1>6 DEF OnePerNetwork
    <2>4. o.network_id # n0 /\ r.network_id # n0 => o = r
      BY <1>6, <2>1, <2>2 DEF OnePerNetwork
    <2>5. o.network_id = n0 <=> r.network_id = n0
      BY <1>2, <1>3, <2>1, <2>2 DEF MemberOf
    <2> QED
      BY <2>1, <2>2, <2>3, <2>4, <2>5
  <1> QED
    BY <1>1, <1>2, <1>5, <1>6 DEF PlaceStep, InterfacesPlaced, ms

LEMMA RemoveInterfacePlaced ==
    ASSUME TypeOK, NEW h \in Host, NEW n \in Network, RemoveInterface(h, n)
    PROVE  PlaceStep
  <1> DEFINE old == hosts[h].network_memberships
             ms == {m \in old : m.network_id # n}
  <1>1. h \in LiveHosts /\ OnlyInterfaces(h, ms) /\ UNCHANGED <<networks, clients>>
    BY RemoveInterfaceEffect DEF RemoveInterface
  <1>2. PlacesFrom(old, ms, {h}) /\ (OnePerNetwork(old) => OnePerNetwork(ms))
    BY DEF PlacesFrom, OnePerNetwork
  <1> QED
    BY <1>1, <1>2 DEF PlaceStep, InterfacesPlaced

LEMMA InterfaceKeyPlaced ==
    ASSUME TypeOK, NEW h \in Host, NEW n \in Network, NEW k \in Key, InterfaceKeyStep(h, n, k)
    PROVE  PlaceStep
  <1> DEFINE old == hosts[h].network_memberships
             ms == Rekeyed(h, n, k)
  <1>1. h \in LiveHosts /\ OnlyInterfaces(h, ms)
    BY InterfaceKeyEffect
  <1>2. UNCHANGED <<networks, clients>>
    BY DEF InterfaceKeyStep, RotateInterfaceKey, AssignInterfaceKey, AssignKeyToInterface
  <1>3. \A o \in old : /\ [o EXCEPT !.active_key_id = k].network_id = o.network_id
                       /\ [o EXCEPT !.active_key_id = k].ip = o.ip
    BY <1>1, LiveDocs DEF Interface
  <1>4. ASSUME NEW m \in ms
        PROVE  \E o \in old : /\ m = IF o.network_id = n THEN [o EXCEPT !.active_key_id = k] ELSE o
                              /\ m.network_id = o.network_id /\ m.ip = o.ip
    BY <1>3 DEF Rekeyed
  <1>5. PlacesFrom(old, ms, {h})
    BY <1>4 DEF PlacesFrom
  <1>6. OnePerNetwork(old) => OnePerNetwork(ms)
    BY <1>4 DEF OnePerNetwork
  <1> QED
    BY <1>1, <1>2, <1>5, <1>6 DEF PlaceStep, InterfacesPlaced

LEMMA OtherHostStepsPlaced ==
    ASSUME TypeOK, NEW h \in Host,
           \/ CreateHost(h) \/ DeleteHost(h)
           \/ \E p \in Host, n \in Network :
                 \/ \E a \in AllowedIpsSet : AddPeerConnection(h, p, n, a)
                 \/ RemovePeerConnection(h, p, n)
    PROVE  NothingPlaced
  <1>1. UNCHANGED <<networks, clients>>
    BY DEF CreateHost, DeleteHost, AddPeerConnection, RemovePeerConnection
  <1>2. \A g \in LiveHosts' :
           \/ hosts'[g].network_memberships = {}
           \/ g \in LiveHosts /\ hosts'[g].network_memberships = hosts[g].network_memberships
    <2>1. CASE CreateHost(h)
      BY <2>1, CreateHostEffect
    <2>2. CASE DeleteHost(h)
      BY <2>2, DeleteHostEffect
    <2>3. ASSUME NEW p \in Host, NEW n \in Network, NEW a \in AllowedIpsSet,
                 AddPeerConnection(h, p, n, a)
          PROVE  /\ LiveHosts' = LiveHosts
                 /\ \A g \in LiveHosts : hosts'[g].network_memberships = hosts[g].network_memberships
      BY <2>3, AddPeerConnectionEffect DEF OnlyPeers
    <2>4. ASSUME NEW p \in Host, NEW n \in Network, RemovePeerConnection(h, p, n)
          PROVE  /\ LiveHosts' = LiveHosts
                 /\ \A g \in LiveHosts : hosts'[g].network_memberships = hosts[g].network_memberships
      BY <2>4, RemovePeerConnectionEffect DEF OnlyPeers
    <2> QED
      BY <2>1, <2>2, <2>3, <2>4
  <1> QED
    BY <1>1, <1>2 DEF NothingPlaced, LiveClients, LiveNetworks

-----------------------------------------------------------------------------
LEMMA AddMembershipPlaced ==
    ASSUME TypeOK, NEW c \in Client, NEW n \in Network, NEW ip \in Address,
           AddNetworkMembership(c, n, ip)
    PROVE  PlaceStep
  <1> DEFINE old == clients[c].network_memberships
             new == [network_id |-> n, ip |-> ip]
             ms == old \cup {new}
  <1>1. c \in LiveClients /\ OnlyClient(c, [clients[c] EXCEPT !.network_memberships = ms])
    BY AddNetworkMembershipEffect
  <1>2. [clients[c] EXCEPT !.network_memberships = ms].network_memberships = ms
    BY <1>1, ClientFields
  <1>3. /\ n \in LiveNetworks /\ ~MemberOf(clients[c], n) /\ ~AddressTaken(n, ip, {})
        /\ UNCHANGED <<networks, hosts>>
    BY DEF AddNetworkMembership, CanAddNetworkMembership
  <1>4. PlacesFrom(old, ms, {})
    BY <1>3 DEF PlacesFrom
  <1>5. OnePerNetwork(old) => OnePerNetwork(ms)
    BY <1>3 DEF OnePerNetwork, MemberOf
  <1> QED
    BY <1>1, <1>2, <1>3, <1>4, <1>5 DEF PlaceStep, MembershipsPlaced

LEMMA RemoveMembershipPlaced ==
    ASSUME TypeOK, NEW c \in Client, NEW n \in Network, RemoveNetworkMembership(c, n)
    PROVE  PlaceStep
  <1> DEFINE old == clients[c].network_memberships
             ms == {m \in old : m.network_id # n}
  <1>1. c \in LiveClients /\ OnlyClient(c, [clients[c] EXCEPT !.network_memberships = ms])
    BY RemoveNetworkMembershipEffect
  <1>2. [clients[c] EXCEPT !.network_memberships = ms].network_memberships = ms
    BY <1>1, ClientFields
  <1>3. UNCHANGED <<networks, hosts>>
    BY DEF RemoveNetworkMembership
  <1>4. PlacesFrom(old, ms, {}) /\ (OnePerNetwork(old) => OnePerNetwork(ms))
    BY DEF PlacesFrom, OnePerNetwork
  <1> QED
    BY <1>1, <1>2, <1>3, <1>4 DEF PlaceStep, MembershipsPlaced

LEMMA OtherClientStepsPlaced ==
    ASSUME TypeOK, NEW c \in Client,
           \/ \E k \in Key : ClientKeyStep(c, k)
           \/ \E d \in DnsServer \cup {None} :
                 EditClient(c, d) \/ \E k \in Key : NewClientStep(c, d, k)
           \/ DeleteClient(c)
           \/ \E x \in Connection :
                 \/ AddConnection(c, x.host_id, x.network_id, x.allowed_ips_set_id)
                 \/ RemoveConnection(c, x)
    PROVE  NothingPlaced
  <1>1. UNCHANGED <<networks, hosts>>
    BY DEF ClientKeyStep, RotateKey, AssignExistingKey, AssignKeyToClient, EditClient,
           NewClientStep, CreateClient, CreateClientWithKey, DeleteClient, AddConnection,
           RemoveConnection
  <1>2. ASSUME c \in LiveClients, NEW doc, OnlyClient(c, doc),
               doc.network_memberships = clients[c].network_memberships
        PROVE  NothingPlaced
    BY <1>1, <1>2 DEF NothingPlaced, OnlyClient, LiveHosts, LiveNetworks
  <1>3. ASSUME NEW k \in Key, ClientKeyStep(c, k)
        PROVE  NothingPlaced
    <2>1. c \in LiveClients /\ OnlyClient(c, [clients[c] EXCEPT !.active_key_id = k])
      BY <1>3, ClientKeyEffect
    <2>2. [clients[c] EXCEPT !.active_key_id = k].network_memberships
             = clients[c].network_memberships
      BY <2>1, ClientFields
    <2> QED
      BY <1>2, <2>1, <2>2
  <1>4. ASSUME NEW d \in DnsServer \cup {None}, EditClient(c, d)
        PROVE  NothingPlaced
    <2>1. c \in LiveClients /\ OnlyClient(c, [clients[c] EXCEPT !.dns_server_id = d])
      BY <1>4, EditClientEffect
    <2>2. [clients[c] EXCEPT !.dns_server_id = d].network_memberships
             = clients[c].network_memberships
      BY <2>1, ClientFields
    <2> QED
      BY <1>2, <2>1, <2>2
  <1>5. ASSUME NEW d \in DnsServer \cup {None}, NEW k \in Key, NewClientStep(c, d, k)
        PROVE  NothingPlaced
    <2>1. [NewClient(d) EXCEPT !.active_key_id = k].network_memberships = {}
      BY DEF NewClient
    <2>2. /\ LiveClients' = LiveClients \cup {c}
          /\ \A b \in LiveClients : clients'[b] = clients[b]
          /\ clients'[c].network_memberships = {}
      BY <1>5, <2>1, CreateClientEffect
    <2> QED
      BY <1>1, <2>2 DEF NothingPlaced, LiveHosts, LiveNetworks
  <1>6. ASSUME DeleteClient(c)
        PROVE  NothingPlaced
    BY <1>1, <1>6, DeleteClientEffect DEF NothingPlaced, LiveHosts, LiveNetworks
  <1>7. ASSUME NEW x \in Connection,
               \/ AddConnection(c, x.host_id, x.network_id, x.allowed_ips_set_id)
               \/ RemoveConnection(c, x)
        PROVE  NothingPlaced
    <2>1. x.host_id \in Host /\ x.network_id \in Network /\ x.allowed_ips_set_id \in AllowedIpsSet
      BY DEF Connection
    <2>2. ASSUME NEW v, c \in LiveClients, OnlyClient(c, [clients[c] EXCEPT !.connections = v])
          PROVE  NothingPlaced
      <3>1. [clients[c] EXCEPT !.connections = v].network_memberships
               = clients[c].network_memberships
        BY <2>2, ClientFields
      <3> QED
        BY <1>2, <2>2, <3>1
    <2>3. CASE AddConnection(c, x.host_id, x.network_id, x.allowed_ips_set_id)
      BY <2>1, <2>2, <2>3, AddConnectionEffect
    <2>4. CASE RemoveConnection(c, x)
      BY <2>2, <2>4, RemoveConnectionEffect
    <2> QED
      BY <1>7, <2>3, <2>4
  <1> QED
    BY <1>3, <1>4, <1>5, <1>6, <1>7

-----------------------------------------------------------------------------
\* Every step of every handler is of one of the three kinds.
LEMMA PlaceSteps ==
    ASSUME TypeOK, [Next]_vars
    PROVE  PlaceStep
  <1>1. CASE NetworkNext
    <2>1. UNCHANGED <<hosts, clients>>
      BY <1>1, NetworkNextEffect
    <2>2. \A n \in LiveNetworks \ LiveNetworks' : ~NetworkUsed(n)
      BY <1>1, NetworkNextLive
    <2> QED
      BY <2>1, <2>2 DEF PlaceStep, NothingPlaced, LiveHosts, LiveClients
  <1>2. CASE HostNext
    BY <1>2, AddInterfacePlaced, EditInterfacePlaced, RemoveInterfacePlaced, InterfaceKeyPlaced,
       OtherHostStepsPlaced DEF HostNext, InterfaceKeyStep, PlaceStep
  <1>3. CASE ClientNext
    BY <1>3, AddMembershipPlaced, RemoveMembershipPlaced, OtherClientStepsPlaced
    DEF ClientNext, ClientKeyStep, NewClientStep, PlaceStep
  <1>4. CASE PresetNext
    <2>1. ASSUME NEW k \in Key, NEW h \in Host, NEW n \in Network, AssignKeyToInterface(k, h, n)
          PROVE  PlaceStep
      BY <2>1, InterfaceKeyPlaced DEF InterfaceKeyStep
    <2>2. ASSUME NEW k \in Key, NEW c \in Client, AssignKeyToClient(k, c)
          PROVE  PlaceStep
      BY <2>2, OtherClientStepsPlaced DEF ClientKeyStep, PlaceStep
    <2>3. \/ UNCHANGED <<networks, hosts, clients>>
          \/ \E k \in Key, h \in Host, n \in Network : AssignKeyToInterface(k, h, n)
          \/ \E k \in Key, c \in Client : AssignKeyToClient(k, c)
      BY <1>4 DEF PresetNext, CreateKey, DeleteKey, CreateDnsServer, DeleteDnsServer,
         CreateAllowedIpsSet, DeleteAllowedIpsSet
    <2> QED
      BY <2>1, <2>2, <2>3, KeptPlaced DEF PlaceStep
  <1>5. CASE UNCHANGED vars
    BY <1>5, KeptPlaced DEF vars, PlaceStep
  <1> QED
    BY <1>1, <1>2, <1>3, <1>4, <1>5 DEF Next

-----------------------------------------------------------------------------
LEMMA NextNoOrphans ==
    ASSUME TypeOK, NoOrphanMembership, [Next]_vars
    PROVE  NoOrphanMembership'
  <1>1. CASE NothingPlaced
    <2>1. \A g \in LiveHosts : \A m \in hosts[g].network_memberships :
             m.network_id \in LiveNetworks /\ NetworkUsed(m.network_id)
      BY DEF NoOrphanMembership, NetworkUsed, MemberOf
    <2>2. \A c \in LiveClients : \A m \in clients[c].network_memberships :
             m.network_id \in LiveNetworks /\ NetworkUsed(m.network_id)
      BY DEF NoOrphanMembership, NetworkUsed, MemberOf
    <2> QED
      BY <1>1, <2>1, <2>2 DEF NothingPlaced, NoOrphanMembership
  <1>2. ASSUME NEW h \in LiveHosts, NEW ms, InterfacesPlaced(h, ms)
        PROVE  NoOrphanMembership'
    <2>1. /\ LiveNetworks' = LiveNetworks /\ LiveHosts' = LiveHosts /\ UNCHANGED clients
          /\ LiveClients' = LiveClients
          /\ \A g \in LiveHosts \ {h} : hosts'[g] = hosts[g]
          /\ hosts'[h].network_memberships = ms
      BY <1>2 DEF InterfacesPlaced, OnlyInterfaces, LiveNetworks, LiveClients
    <2>2. \A m \in ms : m.network_id \in LiveNetworks
      BY <1>2 DEF InterfacesPlaced, PlacesFrom, NoOrphanMembership
    <2> QED
      BY <2>1, <2>2 DEF NoOrphanMembership
  <1>3. ASSUME NEW c \in LiveClients, NEW ms, MembershipsPlaced(c, ms)
        PROVE  NoOrphanMembership'
    <2>1. /\ LiveNetworks' = LiveNetworks /\ LiveHosts' = LiveHosts /\ UNCHANGED hosts
          /\ LiveClients' = LiveClients
          /\ \A b \in LiveClients \ {c} : clients'[b] = clients[b]
          /\ clients'[c].network_memberships = ms
      BY <1>3 DEF MembershipsPlaced, OnlyClient, LiveNetworks, LiveHosts
    <2>2. \A m \in ms : m.network_id \in LiveNetworks
      BY <1>3 DEF MembershipsPlaced, PlacesFrom, NoOrphanMembership
    <2> QED
      BY <2>1, <2>2 DEF NoOrphanMembership
  <1> QED
    BY <1>1, <1>2, <1>3, PlaceSteps DEF PlaceStep

\* No interface and no membership belongs to a network that was deleted: the count
\* of delete_network sees what the handlers of hosts and of clients have stored.
THEOREM MembershipsKeepNetworks == Spec => []NoOrphanMembership
  <1>1. Init => NoOrphanMembership
    BY DEF Init, NoOrphanMembership, LiveHosts, LiveClients
  <1> QED
    BY <1>1, NextNoOrphans, TypeCorrect, PTL DEF Spec

LEMMA NextOneInterface ==
    ASSUME TypeOK, OneInterfacePerNetwork, [Next]_vars
    PROVE  OneInterfacePerNetwork'
  <1>1. CASE NothingPlaced
    BY <1>1 DEF NothingPlaced, OneInterfacePerNetwork
  <1>2. ASSUME NEW h \in LiveHosts, NEW ms, InterfacesPlaced(h, ms)
        PROVE  OneInterfacePerNetwork'
    <2>1. /\ LiveHosts' = LiveHosts /\ UNCHANGED clients /\ LiveClients' = LiveClients
          /\ \A g \in LiveHosts \ {h} : hosts'[g] = hosts[g]
          /\ hosts'[h].network_memberships = ms
      BY <1>2 DEF InterfacesPlaced, OnlyInterfaces, LiveClients
    <2>2. OnePerNetwork(ms)
      BY <1>2 DEF InterfacesPlaced, OnePerNetwork, OneInterfacePerNetwork
    <2> QED
      BY <2>1, <2>2 DEF OneInterfacePerNetwork, OnePerNetwork
  <1>3. ASSUME NEW c \in LiveClients, NEW ms, MembershipsPlaced(c, ms)
        PROVE  OneInterfacePerNetwork'
    <2>1. /\ LiveHosts' = LiveHosts /\ UNCHANGED hosts /\ LiveClients' = LiveClients
          /\ \A b \in LiveClients \ {c} : clients'[b] = clients[b]
          /\ clients'[c].network_memberships = ms
      BY <1>3 DEF MembershipsPlaced, OnlyClient, LiveHosts
    <2>2. OnePerNetwork(ms)
      BY <1>3 DEF MembershipsPlaced, OnePerNetwork, OneInterfacePerNetwork
    <2> QED
      BY <2>1, <2>2 DEF OneInterfacePerNetwork, OnePerNetwork
  <1> QED
    BY <1>1, <1>2, <1>3, PlaceSteps DEF PlaceStep

\* A host has one interface per network and a client one membership, also after
\* interfaces move between networks (edit_interface).
THEOREM OneInterfaceStays == Spec => []OneInterfacePerNetwork
  <1>1. Init => OneInterfacePerNetwork
    BY DEF Init, OneInterfacePerNetwork, LiveHosts, LiveClients
  <1> QED
    BY <1>1, NextOneInterface, TypeCorrect, PTL DEF Spec

LEMMA NextAddressesUnique ==
    ASSUME TypeOK, AddressesUnique, [Next]_vars
    PROVE  AddressesUnique'
  <1>1. CASE NothingPlaced
    BY <1>1 DEF NothingPlaced, AddressesUnique
  <1>2. ASSUME NEW h \in LiveHosts, NEW ms, InterfacesPlaced(h, ms)
        PROVE  AddressesUnique'
    <2>1. /\ LiveHosts' = LiveHosts /\ UNCHANGED clients /\ LiveClients' = LiveClients
          /\ \A g \in LiveHosts \ {h} : hosts'[g] = hosts[g]
          /\ hosts'[h].network_memberships = ms
      BY <1>2 DEF InterfacesPlaced, OnlyInterfaces, LiveClients
    <2>2. ASSUME NEW m \in ms, NEW g \in LiveHosts \ {h}, NEW o \in hosts[g].network_memberships
          PROVE  ~(m.network_id = o.network_id /\ m.ip = o.ip)
      BY <1>2 DEF InterfacesPlaced, PlacesFrom, AddressTaken, AddressesUnique
    <2>3. ASSUME NEW m \in ms, NEW c \in LiveClients, NEW o \in clients[c].network_memberships
          PROVE  ~(m.network_id = o.network_id /\ m.ip = o.ip)
      BY <1>2 DEF InterfacesPlaced, PlacesFrom, AddressTaken, AddressesUnique
    <2> QED
      BY <2>1, <2>2, <2>3 DEF AddressesUnique
  <1>3. ASSUME NEW c \in LiveClients, NEW ms, MembershipsPlaced(c, ms)
        PROVE  AddressesUnique'
    <2>1. /\ LiveHosts' = LiveHosts /\ UNCHANGED hosts /\ LiveClients' = LiveClients
          /\ \A b \in LiveClients \ {c} : clients'[b] = clients[b]
          /\ clients'[c].network_memberships = ms
      BY <1>3 DEF MembershipsPlaced, OnlyClient, LiveHosts
    <2>2. ASSUME NEW m \in ms, NEW h \in LiveHosts, NEW o \in hosts[h].network_memberships
          PROVE  ~(m.network_id = o.network_id /\ m.ip = o.ip)
      BY <1>3 DEF MembershipsPlaced, PlacesFrom, AddressTaken, AddressesUnique
    <2>3. ASSUME NEW m \in ms, NEW b \in LiveClients \ {c}, NEW o \in clients[b].network_memberships
          PROVE  ~(m.network_id = o.network_id /\ m.ip = o.ip)
      <3>1. CASE m.network_id \in LiveNetworks /\ ~AddressTaken(m.network_id, m.ip, {})
        BY <3>1 DEF AddressTaken
      <3>2. CASE \E q \in clients[c].network_memberships :
                    q.network_id = m.network_id /\ q.ip = m.ip
        BY <3>2 DEF AddressesUnique
      <3> QED
        BY <1>3, <3>1, <3>2 DEF MembershipsPlaced, PlacesFrom
    <2> QED
      BY <2>1, <2>2, <2>3 DEF AddressesUnique
  <1> QED
    BY <1>1, <1>2, <1>3, PlaceSteps DEF PlaceStep

\* Within a network no address is given out twice, although each handler asks two
\* collections and edit_interface leaves the host it edits out of the question.
THEOREM AddressesStayUnique == Spec => []AddressesUnique
  <1>1. Init => AddressesUnique
    BY DEF Init, AddressesUnique, LiveHosts, LiveClients
  <1> QED
    BY <1>1, NextAddressesUnique, TypeCorrect, PTL DEF Spec

-----------------------------------------------------------------------------
(* Interfaces that change where they are. *)

\* For an interface of h that a step changes: its key stays, or all the rest does.
KeyOrPlaceStays(h) ==
    LET old == hosts[h].network_memberships \ hosts'[h].network_memberships
        new == hosts'[h].network_memberships \ hosts[h].network_memberships
    IN  \A m \in old, o \in new :
            \/ o.active_key_id = m.active_key_id
            \/ o = [m EXCEPT !.active_key_id = o.active_key_id]

LEMMA EditInterfaceKeepsKey ==
    ASSUME TypeOK, OneInterfacePerNetwork, NEW h \in Host, NEW n0 \in Network, NEW n \in Network,
           NEW ip \in Address, NEW t \in InterfaceType, NEW d \in DnsServer \cup {None},
           EditInterface(h, n0, n, ip, t, d)
    PROVE  \A g \in LiveHosts : KeyOrPlaceStays(g)
  <1> DEFINE new == NewInterface(n, ip, t, d)
  <1>1. h \in LiveHosts /\ OnlyInterfaces(h, Edited(h, n0, new))
    BY EditInterfaceEffect
  <1>2. \A k : [new EXCEPT !.active_key_id = k].active_key_id = k
    BY DEF NewInterface
  <1> HIDE DEF new
  <1>3. ASSUME NEW m \in hosts[h].network_memberships, m \notin Edited(h, n0, new)
        PROVE  m.network_id = n0
    BY <1>3 DEF Edited
  <1>4. ASSUME NEW o \in Edited(h, n0, new), o \notin hosts[h].network_memberships
        PROVE  \E p \in hosts[h].network_memberships :
                  p.network_id = n0 /\ o.active_key_id = p.active_key_id
    BY <1>2, <1>4 DEF Edited
  <1>5. \A m, p \in hosts[h].network_memberships : m.network_id = p.network_id => m = p
    BY <1>1 DEF OneInterfacePerNetwork
  <1>6. KeyOrPlaceStays(h)
    BY <1>1, <1>3, <1>4, <1>5 DEF KeyOrPlaceStays, OnlyInterfaces
  <1> QED
    BY <1>1, <1>6 DEF KeyOrPlaceStays, OnlyInterfaces

LEMMA InterfaceKeyKeepsPlace ==
    ASSUME TypeOK, OneInterfacePerNetwork, NEW h \in Host, NEW n \in Network, NEW k \in Key,
           InterfaceKeyStep(h, n, k)
    PROVE  \A g \in LiveHosts : KeyOrPlaceStays(g)
  <1>1. h \in LiveHosts /\ OnlyInterfaces(h, Rekeyed(h, n, k))
    BY InterfaceKeyEffect
  <1>2. \A m \in hosts[h].network_memberships : [m EXCEPT !.active_key_id = k].active_key_id = k
    BY <1>1, LiveDocs DEF Interface
  <1>3. ASSUME NEW m \in hosts[h].network_memberships, m \notin Rekeyed(h, n, k)
        PROVE  m.network_id = n
    BY <1>3 DEF Rekeyed
  <1>4. ASSUME NEW o \in Rekeyed(h, n, k), o \notin hosts[h].network_memberships
        PROVE  \E p \in hosts[h].network_memberships :
                  /\ p.network_id = n
                  /\ o = [p EXCEPT !.active_key_id = k] /\ o.active_key_id = k
    <2>1. PICK p \in hosts[h].network_memberships :
             o = IF p.network_id = n THEN [p EXCEPT !.active_key_id = k] ELSE p
      BY <1>4 DEF Rekeyed
    <2>2. p.network_id = n /\ o = [p EXCEPT !.active_key_id = k]
      BY <1>4, <2>1
    <2>3. o.active_key_id = k
      BY <1>2, <2>2
    <2> QED
      BY <2>2, <2>3
  <1>5. \A m, p \in hosts[h].network_memberships : m.network_id = p.network_id => m = p
    BY <1>1 DEF OneInterfacePerNetwork
  <1>6. hosts'[h].network_memberships = Rekeyed(h, n, k)
    BY <1>1 DEF OnlyInterfaces
  <1>7. ASSUME NEW m \in hosts[h].network_memberships, m \notin Rekeyed(h, n, k),
               NEW o \in Rekeyed(h, n, k), o \notin hosts[h].network_memberships
        PROVE  o = [m EXCEPT !.active_key_id = o.active_key_id]
    <2>1. PICK p \in hosts[h].network_memberships :
             p.network_id = n /\ o = [p EXCEPT !.active_key_id = k] /\ o.active_key_id = k
      BY <1>4, <1>7
    <2>2. p = m
      BY <1>3, <1>5, <1>7, <2>1
    <2> QED
      BY <2>1, <2>2
  <1>8. KeyOrPlaceStays(h)
    BY <1>6, <1>7 DEF KeyOrPlaceStays
  <1> QED
    BY <1>1, <1>8 DEF KeyOrPlaceStays, OnlyInterfaces

\* The other handlers only add interfaces, or only take them away.
LEMMA OtherHostStepsKeepKey ==
    ASSUME TypeOK, NEW h \in Host,
           \/ CreateHost(h) \/ DeleteHost(h)
           \/ \E n \in Network, ip \in Address, t \in InterfaceType, d \in DnsServer \cup {None} :
                 AddInterface(h, n, ip, t, d)
           \/ \E n \in Network : RemoveInterface(h, n)
           \/ \E p \in Host, n \in Network :
                 \/ \E a \in AllowedIpsSet : AddPeerConnection(h, p, n, a)
                 \/ RemovePeerConnection(h, p, n)
    PROVE  \A g \in LiveHosts : hosts'[g] # None => KeyOrPlaceStays(g)
  <1>1. ASSUME NEW ms, OnlyInterfaces(h, ms),
               hosts[h].network_memberships \subseteq ms \/ ms \subseteq hosts[h].network_memberships
        PROVE  \A g \in LiveHosts : KeyOrPlaceStays(g)
    BY <1>1 DEF OnlyInterfaces, KeyOrPlaceStays
  <1>2. CASE CreateHost(h)
    BY <1>2, CreateHostEffect DEF KeyOrPlaceStays
  <1>3. CASE DeleteHost(h)
    BY <1>3, DeleteHostEffect DEF KeyOrPlaceStays, LiveHosts
  <1>4. ASSUME NEW n \in Network, NEW ip \in Address, NEW t \in InterfaceType,
               NEW d \in DnsServer \cup {None}, AddInterface(h, n, ip, t, d)
        PROVE  \A g \in LiveHosts : KeyOrPlaceStays(g)
    <2>1. OnlyInterfaces(h, hosts[h].network_memberships \cup {NewInterface(n, ip, t, d)})
      BY <1>4, AddInterfaceEffect
    <2> QED
      BY <1>1, <2>1
  <1>5. ASSUME NEW n \in Network, RemoveInterface(h, n)
        PROVE  \A g \in LiveHosts : KeyOrPlaceStays(g)
    <2>1. OnlyInterfaces(h, {m \in hosts[h].network_memberships : m.network_id # n})
      BY <1>5, RemoveInterfaceEffect
    <2> QED
      BY <1>1, <2>1
  <1>6. ASSUME NEW p, NEW ps, NEW qs, OnlyPeers(h, p, ps, qs)
        PROVE  \A g \in LiveHosts : KeyOrPlaceStays(g)
    BY <1>6 DEF OnlyPeers, KeyOrPlaceStays
  <1>7. ASSUME NEW p \in Host, NEW n \in Network,
               \/ \E a \in AllowedIpsSet : AddPeerConnection(h, p, n, a)
               \/ RemovePeerConnection(h, p, n)
        PROVE  \A g \in LiveHosts : KeyOrPlaceStays(g)
    BY <1>6, <1>7, AddPeerConnectionEffect, RemovePeerConnectionEffect
  <1> QED
    BY <1>2, <1>3, <1>4, <1>5, <1>7

\* Moving, retyping or re-addressing an interface leaves it the key that its peers
\* were given, and giving it another key leaves it where it is: so it is for every
\* handler, because an interface is the only one of its host on its network.
THEOREM InterfacesKeepKeys == Spec => InterfaceKeepsKey
  <1>1. ASSUME TypeOK, OneInterfacePerNetwork, [Next]_vars
        PROVE  \A h \in LiveHosts : hosts'[h] # None => KeyOrPlaceStays(h)
    <2>1. CASE UNCHANGED hosts
      BY <2>1 DEF KeyOrPlaceStays
    <2>2. CASE HostNext
      BY <1>1, <2>2, EditInterfaceKeepsKey, InterfaceKeyKeepsPlace, OtherHostStepsKeepKey
      DEF HostNext, InterfaceKeyStep
    <2>3. CASE ClientNext
      BY <2>1, <2>3 DEF ClientNext, CreateClient, CreateClientWithKey, EditClient, DeleteClient,
         RotateKey, AssignExistingKey, AddNetworkMembership, RemoveNetworkMembership,
         AddConnection, RemoveConnection
    <2>4. CASE PresetNext
      <3>1. UNCHANGED hosts \/ \E k \in Key, h \in Host, n \in Network : InterfaceKeyStep(h, n, k)
        BY <2>4 DEF PresetNext, CreateKey, DeleteKey, AssignKeyToClient, CreateDnsServer,
           DeleteDnsServer, CreateAllowedIpsSet, DeleteAllowedIpsSet, InterfaceKeyStep
      <3> QED
        BY <1>1, <2>1, <3>1, InterfaceKeyKeepsPlace
    <2> QED
      BY <1>1, <2>1, <2>2, <2>3, <2>4, NetworkNextEffect DEF Next, vars
  <1>2. ASSUME TypeOK, OneInterfacePerNetwork, [Next]_vars
        PROVE  \A h \in LiveHosts : hosts'[h] # None =>
                  LET old == hosts[h].network_memberships \ hosts'[h].network_memberships
                      new == hosts'[h].network_memberships \ hosts[h].network_memberships
                  IN  \A m \in old, o \in new :
                          \/ o.active_key_id = m.active_key_id
                          \/ o = [m EXCEPT !.active_key_id = o.active_key_id]
    BY <1>1, <1>2 DEF KeyOrPlaceStays
  <1> QED
    BY <1>2, TypeCorrect, OneInterfaceStays, PTL DEF Spec, InterfaceKeepsKey
=============================================================================
