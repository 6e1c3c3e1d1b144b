---------------------------- MODULE MCInventory ----------------------------
(* Inventory for TLC: the sets of interchangeable ids and addresses.  Two    *)
(* addresses are interchangeable while every block holds both.               *)
EXTENDS Inventory, Tunnel, Topology, TLC

PeersSymmetry ==
    Permutations(Host) \cup Permutations(Network) \cup Permutations(Address)
        \cup Permutations(AllowedIpsSet)

ClientsSymmetry ==
    Permutations(Client) \cup Permutations(Network) \cup Permutations(Address)

PresetsSymmetry == Permutations(Key)
=============================================================================
