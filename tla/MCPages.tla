------------------------------ MODULE MCPages ------------------------------
(* The read-only pages, over the inventories the handlers can make of nested *)
(* networks.  The bound keeps what the pages do not read where it is: the    *)
(* networks come last, interfaces get no key, and nothing is deleted, since  *)
(* pages show what is there.                                                 *)
EXTENDS Inventory, Addresses, Topology, TLC

CONSTANTS
    MaxMembers,   \* interfaces and memberships, together
    GivenOut      \* the addresses they may have

PagesSymmetry == Permutations(Network)

Memberships ==
    {<<x, m>> \in LiveHosts \X UNION {hosts[h].network_memberships : h \in LiveHosts} :
        m \in hosts[x].network_memberships}
    \cup
    {<<x, m>> \in LiveClients \X UNION {clients[c].network_memberships : c \in LiveClients} :
        m \in clients[x].network_memberships}

PagesBound ==
    /\ issued = LiveNetworks \cup LiveHosts \cup LiveClients \cup keys \cup allowedIps
    /\ LiveNetworks # {} => Ids \ Network \subseteq issued
    /\ \A x \in Memberships : x[2].ip \in GivenOut
    /\ Cardinality(Memberships) <= MaxMembers
    /\ \A h \in LiveHosts : \A m \in hosts[h].network_memberships :
          m.active_key_id = None /\ m.interface_type # "client_non_wg"

PagesSpec == Init /\ [][Next /\ PagesBound']_vars
=============================================================================
