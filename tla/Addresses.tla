------------------------------ MODULE Addresses ------------------------------
(***************************************************************************)
(* The address arithmetic of app/utils/ipam.py and the two pages built on  *)
(* it: the address a form proposes, and the table of a network, which also *)
(* looks into the networks nested in it.  Addresses are numbers here and a *)
(* block is an aligned run of 2^k of them (IPv4: IPv6 keeps no broadcast). *)
(* The table of a network of more than 1024 addresses, which lists only    *)
(* the assigned ones, is left out.                                         *)
(***************************************************************************)
EXTENDS Store

Lowest(ips) == CHOOSE ip \in ips : \A other \in ips : ip <= other
Highest(ips) == CHOOSE ip \in ips : \A other \in ips : ip >= other

ASSUME AddressesAssumption ==
    Address \subseteq Nat /\ \A cidr \in Cidr : cidr # {} /\ IsFiniteSet(cidr)

HasReserved(cidr) == Cardinality(cidr) >= 4

\* The network and the broadcast address.
Reserved(cidr) == IF HasReserved(cidr) THEN {Lowest(cidr), Highest(cidr)} ELSE {}

Usable_All(cidr) == cidr

\* IPv4Network.hosts(): a /31 or /32 has no reserved addresses.
Usable(cidr) == cidr \ Reserved(cidr)

-----------------------------------------------------------------------------
Members(n) ==
    {h \in LiveHosts : MemberOf(hosts[h], n)} \cup {c \in LiveClients : MemberOf(clients[c], n)}

IpsOf(owner, n) ==
    LET doc == IF owner \in Host THEN hosts[owner] ELSE clients[owner]
    IN  {m.ip : m \in {x \in doc.network_memberships : x.network_id = n}}

UsedIps(n) == UNION {IpsOf(x, n) : x \in Members(n)}

\* _assignments: who has each address of n; a client is filed last.
Assignments(n) ==
    [ip \in UsedIps(n) |->
        LET owners == {x \in Members(n) : ip \in IpsOf(x, n)}
        IN  IF owners \cap Client # {} THEN CHOOSE x \in owners \cap Client : TRUE
                                       ELSE CHOOSE x \in owners : TRUE]

NextFreeIp(n) ==
    LET free == Usable(networks[n].cidr) \ UsedIps(n)
    IN  IF free = {} THEN None ELSE Lowest(free)

-----------------------------------------------------------------------------
(* view_network *)

ChildNetworks(n) ==
    {m \in LiveNetworks \ {n} :
        networks[m].cidr # networks[n].cidr /\ networks[m].cidr \subseteq networks[n].cidr}

\* The most specific of them; of two with one CIDR, the one MongoDB returns first.
Narrowest(ns) ==
    CHOOSE m \in ns : \A o \in ns : Cardinality(networks[m].cidr) <= Cardinality(networks[o].cidr)

ContainingChild(n, ip) ==
    LET holding == {m \in ChildNetworks(n) : ip \in networks[m].cidr}
    IN  IF holding = {} THEN None ELSE Narrowest(holding)

Row(kind, owner, subnet) == [kind |-> kind, owner |-> owner, subnet |-> subnet]

Resolve_ChildFirst(n, ip) ==
    LET child == ContainingChild(n, ip) IN
    IF child # None
    THEN IF ip \in UsedIps(child) THEN Row("assigned", Assignments(child)[ip], child)
                                  ELSE Row("subnet", None, child)
    ELSE IF ip \in UsedIps(n) THEN Row("assigned", Assignments(n)[ip], child)
    ELSE Row("free", None, None)

Resolve(n, ip) ==
    LET child == ContainingChild(n, ip) IN
    IF ip \in UsedIps(n) THEN Row("assigned", Assignments(n)[ip], child)
    ELSE IF child = None THEN Row("free", None, None)
    ELSE IF ip \in UsedIps(child) THEN Row("assigned", Assignments(child)[ip], child)
    ELSE Row("subnet", None, child)

\* The row of each address of n.
AddressTable(n) ==
    [ip \in networks[n].cidr |->
        IF ip \notin Reserved(networks[n].cidr) THEN Resolve(n, ip)
        ELSE IF ContainingChild(n, ip) = None THEN Row("reserved", None, None)
        ELSE Row("subnet", None, ContainingChild(n, ip))]

-----------------------------------------------------------------------------
(* Properties. *)

\* The proposed address is one the handler that gets it will take, and shows as free,
\* or as part of a network inside; none is proposed only if all that may be are given out.
ProposalIsFree ==
    \A n \in LiveNetworks :
        IF NextFreeIp(n) = None
        THEN \A ip \in Usable(networks[n].cidr) : AddressTaken(n, ip, {})
        ELSE /\ NextFreeIp(n) \in networks[n].cidr
             /\ ~AddressTaken(n, NextFreeIp(n), {})
             /\ AddressTable(n)[NextFreeIp(n)].kind # "reserved"

\* README: the table shows every address, what is on it and what is still free.
\* So it does for the network's own members outside the two reserved addresses,
\* and an address it calls free is nobody's in any network nested in it, as long as
\* no CIDR was edited away from under an address.
TableTellsTruth ==
    \A n \in LiveNetworks : \A ip \in networks[n].cidr :
        LET row == AddressTable(n)[ip] IN
        /\ \A x \in Members(n) :
              ip \in IpsOf(x, n) \ Reserved(networks[n].cidr) => row.owner = x
        /\ row.kind = "free" =>
              \A m \in ChildNetworks(n) \cup {n} : \A x \in Members(m) :
                  IpsOf(x, m) \subseteq networks[m].cidr => ip \notin IpsOf(x, m)
        /\ row.owner # None =>
              \E m \in ChildNetworks(n) \cup {n} : row.owner \in Members(m) /\ ip \in IpsOf(row.owner, m)
=============================================================================
