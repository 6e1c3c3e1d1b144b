------------------------------ MODULE Teardown ------------------------------
(***************************************************************************)
(* An administrator who stops adding things and removes what is left.  The *)
(* delete handlers refuse while something still refers to their document,  *)
(* so removing everything terminates only if no set of documents waits on  *)
(* itself.                                                                 *)
(***************************************************************************)
EXTENDS Inventory

VARIABLE closing      \* the administrator only removes from now on

tvars == <<vars, closing>>

\* Everything a delete or remove button does, but DeleteClient, whose handler asks
\* for nothing: a client goes only once its memberships are gone.
Removal ==
    \/ \E n \in Network : DeleteNetwork(n)
    \/ \E h \in Host : DeleteHost(h)
    \/ \E h \in Host, n \in Network : RemoveInterface(h, n)
    \/ \E h, p \in Host, n \in Network : RemovePeerConnection(h, p, n)
    \/ \E c \in Client : DeleteClient(c) /\ clients[c].network_memberships = {}
    \/ \E c \in Client, n \in Network : RemoveNetworkMembership(c, n)
    \/ \E c \in Client, x \in Connection : RemoveConnection(c, x)
    \/ \E k \in Key : DeleteKey(k)
    \/ \E d \in DnsServer : DeleteDnsServer(d)
    \/ \E a \in AllowedIpsSet : DeleteAllowedIpsSet(a)

StopAdding == ~closing /\ closing' = TRUE /\ UNCHANGED vars

TeardownInit == Init /\ closing = FALSE

TeardownNext ==
    \/ ~closing /\ Next /\ UNCHANGED closing
    \/ StopAdding
    \/ closing /\ Removal /\ UNCHANGED closing

\* The administrator keeps removing as long as some removal is accepted and changes
\* something; nothing is assumed about which one.
TeardownSpec ==
    TeardownInit /\ [][TeardownNext]_tvars /\ WF_tvars(closing /\ Removal /\ UNCHANGED closing)

Nothing ==
    /\ LiveNetworks = {} /\ LiveHosts = {} /\ LiveClients = {}
    /\ keys = {} /\ dnsServers = {} /\ allowedIps = {}

\* From every inventory the handlers can build, removing whatever may be removed, in
\* any order, ends with nothing left: the refusals of the delete handlers never
\* block each other.
EverythingCanGo == closing ~> Nothing
=============================================================================
