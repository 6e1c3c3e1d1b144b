------------------------------ MODULE Requests ------------------------------
(***************************************************************************)
(* The handlers as gunicorn runs them: in several threads of two worker    *)
(* processes, over a MongoDB that makes single documents atomic and        *)
(* nothing more.  A handler first does its checks (Begin), and then sends  *)
(* its writes one by one (Send), so that other requests may come between   *)
(* the check and the write and between two writes; and a worker process    *)
(* may be killed (Kill) with some of its writes sent and the others not.   *)
(* The reads of one handler are one step: what can change between two of   *)
(* them is left out.                                                       *)
(***************************************************************************)
EXTENDS Integrity, Sequences

CONSTANTS
    Thread,       \* the threads that serve requests
    MayBeKilled   \* whether a worker may die in the middle of a request

ASSUME KillAssumption == MayBeKilled \in BOOLEAN

VARIABLE pending  \* the writes each thread still has to send

rvars == <<vars, pending>>

-----------------------------------------------------------------------------
(* Writes: calls of insert_one, delete_one and update_one. *)

Insert(coll, id, doc) == [op |-> "insert", coll |-> coll, id |-> id, doc |-> doc]
Replace(coll, id, doc) == [op |-> "set", coll |-> coll, id |-> id, doc |-> doc]
Delete(coll, id) == [op |-> "delete", coll |-> coll, id |-> id]
InsertId(coll, id) == [op |-> "insert_id", coll |-> coll, id |-> id]
DeleteId(coll, id) == [op |-> "delete_id", coll |-> coll, id |-> id]
OnHost(op, h, n, v) == [op |-> op, coll |-> "hosts", id |-> h, network_id |-> n, value |-> v]
OnClient(op, c, n, v) == [op |-> op, coll |-> "clients", id |-> c, network_id |-> n, value |-> v]

Db == [networks |-> networks, hosts |-> hosts, clients |-> clients,
       keys |-> keys, dnsServers |-> dnsServers, allowedIps |-> allowedIps]

\* The collection u.coll of a database after the write u.
Written(coll, u) ==
    CASE u.op = "insert"    -> [coll EXCEPT ![u.id] = u.doc]
      [] u.op = "set"       -> UpdateOne(coll, u.id, u.doc)
      [] u.op = "delete"    -> [coll EXCEPT ![u.id] = None]
      [] u.op = "insert_id" -> coll \cup {u.id}
      [] u.op = "delete_id" -> coll \ {u.id}
      [] u.op = "push_interface"    -> PushInterface(coll, u.id, u.value)
      [] u.op = "set_interface"     -> SetInterface(coll, u.id, u.network_id, u.value)
      [] u.op = "set_interface_key" -> SetInterfaceKey(coll, u.id, u.network_id, u.value)
      [] u.op = "pull_interface"    -> PullInterface(coll, u.id, u.network_id)
      [] u.op = "push_peer"         -> PushPeer(coll, u.id, u.value)
      [] u.op = "pull_peer"         -> PullPeer(coll, u.id, u.value, u.network_id)
      [] u.op = "set_key"           -> SetClientKey(coll, u.id, u.value)
      [] u.op = "set_dns"           -> SetClientDns(coll, u.id, u.value)
      [] u.op = "push_membership"   -> PushMembership(coll, u.id, u.network_id, u.value)
      [] u.op = "pull_membership"   -> PullMembership(coll, u.id, u.network_id)
      [] u.op = "push_connection"   -> PushConnection(coll, u.id, u.value)
      [] u.op = "set_connections"   -> SetConnections(coll, u.id, u.value)

Apply(db, u) == [db EXCEPT ![u.coll] = Written(@, u)]

-----------------------------------------------------------------------------
(* The requests: what a handler has checked when it starts to write, and its *)
(* writes in their order.                                                    *)

\* Thread w starts a request that will send the given writes; new are the ObjectIds
\* among them that the driver makes up.
Start(w, writes, new) ==
    /\ \A id \in new : Fresh(id)
    /\ pending' = [pending EXCEPT ![w] = writes]
    /\ issued' = issued \cup new

NetworkRequest(w) ==
    \/ \E n \in Network, cidr \in Cidr, t \in NetworkType, h \in Host \cup {None} :
          /\ ManagerChosen(t, h)
          /\ \/ OverlapsNone(cidr, {}) /\ Start(w, <<Insert("networks", n, NewNetwork(cidr, t, h))>>, {n})
             \/ /\ n \in LiveNetworks /\ OverlapsNone(cidr, {n})
                /\ Start(w, <<Replace("networks", n, NewNetwork(cidr, t, h))>>, {})
    \/ \E n \in LiveNetworks : ~NetworkUsed(n) /\ Start(w, <<Delete("networks", n)>>, {})

HostRequest(w) ==
    \/ \E h \in Host : Start(w, <<Insert("hosts", h, NewHost)>>, {h})
    \/ \E h \in Host : CanDeleteHost(h) /\ Start(w, <<Delete("hosts", h)>>, {})
    \/ \E h \in Host, n \in Network, ip \in Address, t \in InterfaceType, d \in DnsChoice :
          LET m == NewInterface(n, ip, t, d) IN
          \/ CanAddInterface(h, n, ip, t, d) /\ Start(w, <<OnHost("push_interface", h, n, m)>>, {})
          \/ \E n0 \in Network : /\ CanEditInterface(h, n0, n, ip, t, d)
                                 /\ Start(w, <<OnHost("set_interface", h, n0, m)>>, {})
    \/ \E h \in Host, n \in Network :
          CanRemoveInterface(h, n) /\ Start(w, <<OnHost("pull_interface", h, n, None)>>, {})

PeerWrites_OneSide(h, p, n, a) == <<OnHost("push_peer", h, n, NewPeer(p, n, a))>>

PeerWrites(h, p, n, a) ==
    <<OnHost("push_peer", h, n, NewPeer(p, n, a)), OnHost("push_peer", p, n, NewPeer(h, n, a))>>

PeerRequest(w) ==
    \E h, p \in Host, n \in Network :
        \/ \E a \in AllowedIpsSet :
              CanAddPeerConnection(h, p, n, a) /\ Start(w, PeerWrites(h, p, n, a), {})
        \/ Start(w, <<OnHost("pull_peer", h, n, p), OnHost("pull_peer", p, n, h)>>, {})

\* generate_and_store_key comes before the pointer to the key, in every handler.
StoreThenPoint_Reversed(k, point) == <<point, InsertId("keys", k)>>

StoreThenPoint(k, point) == <<InsertId("keys", k), point>>

\* The interface branch of assign_key is the second disjunct, too.
InterfaceKeyRequest(w) ==
    \E h \in Host, n \in Network, k \in Key :
       LET point == OnHost("set_interface_key", h, n, k) IN
       /\ KeyableInterface(h, n)
       /\ \/ Start(w, StoreThenPoint(k, point), {k})
          \/ k \in keys /\ Start(w, <<point>>, {})

\* The client branch of assign_key is the second disjunct, too.
ClientKeyRequest(w) ==
    \E c \in LiveClients, k \in Key :
       LET point == OnClient("set_key", c, None, k) IN
       \/ Start(w, StoreThenPoint(k, point), {k})
       \/ k \in keys /\ Start(w, <<point>>, {})

StoredKeyRequest(w) ==
    \/ \E k \in Key : Start(w, <<InsertId("keys", k)>>, {k})
    \/ \E k \in keys : ~KeyUsed(k) /\ Start(w, <<DeleteId("keys", k)>>, {})

KeyRequest(w) == InterfaceKeyRequest(w) \/ ClientKeyRequest(w) \/ StoredKeyRequest(w)

\* create_client inserts the client before it has a key for it.
CreateClientRequest(w, c, d, k) ==
    LET insert == Insert("clients", c, NewClient(d))
        point  == OnClient("set_key", c, None, k)
    IN  \/ Start(w, <<insert>> \o StoreThenPoint(k, point), {c, k})
        \/ k \in keys /\ Start(w, <<insert, point>>, {c})

ClientRequest(w) ==
    \/ \E c \in Client, d \in DnsChoice, k \in Key : CreateClientRequest(w, c, d, k)
    \/ \E c \in LiveClients :
          \/ Start(w, <<Delete("clients", c)>>, {})
          \/ \E d \in DnsChoice : Start(w, <<OnClient("set_dns", c, None, d)>>, {})
          \/ \E n \in Network :
                \/ \E ip \in Address : /\ CanAddNetworkMembership(c, n, ip)
                                       /\ Start(w, <<OnClient("push_membership", c, n, ip)>>, {})
                \/ /\ CanRemoveNetworkMembership(c, n)
                   /\ Start(w, <<OnClient("pull_membership", c, n, None)>>, {})
                \/ \E h \in Host, a \in AllowedIpsSet :
                      /\ CanAddConnection(c, h, n, a)
                      /\ Start(w, <<OnClient("push_connection", c, n, NewConnection(h, n, a))>>, {})
          \/ \E x \in clients[c].connections :
                Start(w, <<OnClient("set_connections", c, None, clients[c].connections \ {x})>>, {})

DnsServerRequest(w) ==
    \/ \E d \in DnsServer : Start(w, <<InsertId("dnsServers", d)>>, {d})
    \/ \E d \in dnsServers : ~DnsServerInUse(d) /\ Start(w, <<DeleteId("dnsServers", d)>>, {})

AllowedIpsRequest(w) ==
    \/ \E a \in AllowedIpsSet : Start(w, <<InsertId("allowedIps", a)>>, {a})
    \/ \E a \in allowedIps : ~AllowedIpsInUse(a) /\ Start(w, <<DeleteId("allowedIps", a)>>, {})

PresetRequest(w) == DnsServerRequest(w) \/ AllowedIpsRequest(w)

-----------------------------------------------------------------------------
RequestsInit ==
    /\ networks = [n \in Network |-> None]
    /\ hosts = [h \in Host |-> None]
    /\ clients = [c \in Client |-> None]
    /\ keys = {} /\ dnsServers = {} /\ allowedIps = {}
    /\ issued = {}
    /\ pending = [w \in Thread |-> <<>>]

Begin(w) ==
    /\ pending[w] = <<>>
    /\ \/ NetworkRequest(w) \/ HostRequest(w) \/ PeerRequest(w)
       \/ KeyRequest(w) \/ ClientRequest(w) \/ PresetRequest(w)
    /\ UNCHANGED <<networks, hosts, clients, keys, dnsServers, allowedIps>>

Send(w) ==
    /\ pending[w] # <<>>
    /\ LET db == Apply(Db, Head(pending[w])) IN
          /\ networks' = db.networks /\ hosts' = db.hosts /\ clients' = db.clients
          /\ keys' = db.keys /\ dnsServers' = db.dnsServers /\ allowedIps' = db.allowedIps
    /\ pending' = [pending EXCEPT ![w] = Tail(@)]
    /\ UNCHANGED issued

\* gunicorn's --timeout, a deploy, or the container going down.
Kill(w) ==
    /\ MayBeKilled
    /\ pending[w] # <<>>
    /\ pending' = [pending EXCEPT ![w] = <<>>]
    /\ UNCHANGED vars

RequestsNext == \E w \in Thread : Begin(w) \/ Send(w) \/ Kill(w)

RequestsSpec == RequestsInit /\ [][RequestsNext]_rvars

-----------------------------------------------------------------------------
(* Properties. *)

\* The ith of the writes, if there are so many; no handler sends more than three.
Nth(db, writes, i) == IF i \in DOMAIN writes THEN Apply(db, writes[i]) ELSE db

AllWritten(db, writes) == Nth(Nth(Nth(db, writes, 1), writes, 2), writes, 3)

TheThread == CHOOSE w \in Thread : TRUE

\* The database as it will be when the only thread has sent its writes.
Drained == AllWritten(Db, pending[TheThread])

Serial == INSTANCE Inventory WITH
    networks <- Drained.networks, hosts <- Drained.hosts, clients <- Drained.clients,
    keys <- Drained.keys, dnsServers <- Drained.dnsServers, allowedIps <- Drained.allowedIps

\* With one thread and no kills, the handlers are the atomic handlers of Inventory:
\* each request takes effect as a whole when its checks are done.
ImplementsInventory == Serial!Spec

\* A worker killed between two writes may leave one side of a peer connection, but
\* never one that names a host that is gone or that hangs on no interface of its
\* own: the surviving side still keeps delete_host and remove_interface away.
PeerSidesHold ==
    \A h \in LiveHosts : \A x \in hosts[h].peer_connections :
        x.peer_host_id \in LiveHosts /\ MemberOf(hosts[h], x.network_id)
=============================================================================
