----------------------------- MODULE MCRestore -----------------------------
(* Restore for TLC: a small database of one collection and users, and three *)
(* archives to upload: one of the same installation with other documents and *)
(* another administrator, one whose users do not parse, and one that has     *)
(* users alone, which are no list of documents.                              *)
EXTENDS Restore, TLC

CONSTANTS v0, v1, other

MCOriginal ==
    [hosts |-> 1 :> v0 @@ 2 :> v0, users |-> 1 :> AdminName]

Later == [hosts |-> 1 :> v1 @@ 2 :> v1, users |-> 1 :> other]

Damaged == [hosts |-> 2 :> v1, users |-> Corrupt]

Listless == [users |-> Odd]

MCArchive == {Later, Damaged, Listless}
=============================================================================
