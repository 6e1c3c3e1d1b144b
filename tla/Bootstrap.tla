------------------------------ MODULE Bootstrap ------------------------------
(***************************************************************************)
(* ensure_admin_user as it runs at every boot: in the gunicorn workers and *)
(* the backup daemon at once, each of which supervisord or gunicorn starts *)
(* again when it dies.  One round trip to MongoDB is one step, and the     *)
(* processes may come in each other's way, or die, between any two.        *)
(***************************************************************************)
EXTENDS Naturals, FiniteSets

CONSTANTS
    Process,      \* the processes that call create_app
    UserId,       \* ObjectIds of user documents, in the order MongoDB sorts them
    Username,
    AdminName,    \* ADMIN_USERNAME
    Nobody,       \* no user document
    MaxCrashes    \* bound on the crashes of a behaviour

ASSUME BootAssumption ==
    /\ UserId \subseteq Nat
    /\ AdminName \in Username /\ Nobody \notin Username
    /\ MaxCrashes \in Nat

VARIABLES
    users,        \* _id -> username of the document, or Nobody
    usedIds,      \* ObjectIds that have been given to a user document
    index,        \* the unique index on username is there
    pc,           \* where each process is in ensure_admin_user
    surplus,      \* the documents each process found to be duplicates and will delete
    crashes

bvars == <<users, usedIds, index, pc, surplus, crashes>>

LiveUsers == {id \in UserId : users[id] # Nobody}

UniqueNames == \A i, j \in LiveUsers : users[i] = users[j] => i = j

\* sorted(ids)[1:] of every username with more than one document.
Duplicates_KeepNewest ==
    {id \in LiveUsers : \E i \in LiveUsers : users[i] = users[id] /\ i > id}

Duplicates == {id \in LiveUsers : \E i \in LiveUsers : users[i] = users[id] /\ i < id}

-----------------------------------------------------------------------------
\* A database of an earlier release, or an uploaded archive, may hold duplicates;
\* once the index is there it cannot.
BootInit ==
    /\ users \in [UserId -> Username \cup {Nobody}]
    /\ usedIds = LiveUsers
    /\ index \in {b \in BOOLEAN : b => UniqueNames}
    /\ pc = [p \in Process |-> "down"]
    /\ surplus = [p \in Process |-> {}]
    /\ crashes = 0

Goto(p, where) == pc' = [pc EXCEPT ![p] = where]

Start(p) ==
    /\ pc[p] = "down"
    /\ Goto(p, "aggregate")
    /\ UNCHANGED <<users, usedIds, index, surplus, crashes>>

Aggregate(p) ==
    /\ pc[p] = "aggregate"
    /\ surplus' = [surplus EXCEPT ![p] = Duplicates]
    /\ Goto(p, "dedupe")
    /\ UNCHANGED <<users, usedIds, index, crashes>>

\* delete_many takes its documents one by one; some may be gone already.
DeleteSurplus(p) ==
    /\ pc[p] = "dedupe"
    /\ \E id \in surplus[p] :
          /\ users' = [users EXCEPT ![id] = Nobody]
          /\ surplus' = [surplus EXCEPT ![p] = @ \ {id}]
    /\ UNCHANGED <<usedIds, index, pc, crashes>>

CreateIndex_First(p) ==
    /\ pc[p] = "dedupe"
    /\ IF index \/ UniqueNames
       THEN index' = TRUE /\ Goto(p, "count")
       ELSE index' = FALSE /\ Goto(p, "down")
    /\ surplus' = [surplus EXCEPT ![p] = {}]
    /\ UNCHANGED <<users, usedIds, crashes>>

CreateIndex_NotUnique(p) ==
    /\ pc[p] = "dedupe" /\ surplus[p] = {}
    /\ Goto(p, "count")
    /\ UNCHANGED <<users, usedIds, index, surplus, crashes>>

\* create_index fails, and the process with it, if a username is there twice.
CreateIndex(p) ==
    /\ pc[p] = "dedupe" /\ surplus[p] = {}
    /\ IF index \/ UniqueNames
       THEN index' = TRUE /\ Goto(p, "count")
       ELSE index' = FALSE /\ Goto(p, "down")
    /\ UNCHANGED <<users, usedIds, surplus, crashes>>

Count_Inverted(p) ==
    /\ pc[p] = "count"
    /\ Goto(p, IF LiveUsers = {} THEN "up" ELSE "insert")
    /\ UNCHANGED <<users, usedIds, index, surplus, crashes>>

Count(p) ==
    /\ pc[p] = "count"
    /\ Goto(p, IF LiveUsers = {} THEN "insert" ELSE "up")
    /\ UNCHANGED <<users, usedIds, index, surplus, crashes>>

InsertAdmin_NoIndex(p) ==
    /\ pc[p] = "insert"
    /\ \E id \in UserId \ usedIds :
          users' = [users EXCEPT ![id] = AdminName] /\ usedIds' = usedIds \cup {id}
    /\ Goto(p, "up")
    /\ UNCHANGED <<index, surplus, crashes>>

InsertAdmin_IdAsName(p) ==
    /\ pc[p] = "insert"
    /\ \E id \in UserId \ usedIds :
          users' = [users EXCEPT ![id] = id] /\ usedIds' = usedIds \cup {id}
    /\ Goto(p, "up")
    /\ UNCHANGED <<index, surplus, crashes>>

\* The index turns a second administrator into a DuplicateKeyError, which is passed
\* over.
InsertAdmin(p) ==
    /\ pc[p] = "insert"
    /\ IF index /\ \E i \in LiveUsers : users[i] = AdminName
       THEN UNCHANGED <<users, usedIds>>
       ELSE \E id \in UserId \ usedIds :
                users' = [users EXCEPT ![id] = AdminName] /\ usedIds' = usedIds \cup {id}
    /\ Goto(p, "up")
    /\ UNCHANGED <<index, surplus, crashes>>

Crash(p) ==
    /\ pc[p] # "down" /\ crashes < MaxCrashes
    /\ crashes' = crashes + 1
    /\ surplus' = [surplus EXCEPT ![p] = {}]
    /\ Goto(p, "down")
    /\ UNCHANGED <<users, usedIds, index>>

Boot(p) ==
    \/ Start(p) \/ Aggregate(p) \/ DeleteSurplus(p) \/ CreateIndex(p)
    \/ Count(p) \/ InsertAdmin(p)

BootNext == \E p \in Process : Boot(p) \/ Crash(p)

\* autorestart starts a process that is down, and a process that runs goes on.
BootFairness == \A p \in Process : WF_bvars(Boot(p))

BootSpec == BootInit /\ [][BootNext]_bvars /\ BootFairness

-----------------------------------------------------------------------------
(* Properties. *)

BootTypeOK ==
    /\ users \in [UserId -> Username \cup {Nobody}]
    /\ usedIds \subseteq UserId /\ LiveUsers \subseteq usedIds
    /\ index \in BOOLEAN
    /\ pc \in [Process -> {"down", "aggregate", "dedupe", "count", "insert", "up"}]
    /\ surplus \in [Process -> SUBSET usedIds]
    /\ crashes \in 0 .. MaxCrashes

\* create_index never fails in ensure_admin_user: a process that has deleted the
\* duplicates it saw finds none, whatever the others insert meanwhile, because a
\* process inserts only once its own create_index has succeeded.
IndexNeverFails ==
    \A p \in Process : pc[p] = "dedupe" /\ surplus[p] = {} => UniqueNames

\* Whoever is through with ensure_admin_user leaves an account to log in with, and
\* no two of one name, though others may still be deleting and inserting.
UpWithAccounts == (\E p \in Process : pc[p] = "up") => LiveUsers # {} /\ UniqueNames

\* Deduplication by several processes at once costs no username its last document:
\* of the documents of a name the oldest stays.
OldestStays ==
    [][\A id \in LiveUsers : users'[id] = Nobody =>
        \E i \in LiveUsers : i < id /\ users[i] = users[id] /\ users'[i] = users[i]]_bvars

\* README: admin credentials are seeded only while no user exists.  The count may be
\* stale by the time of the insert; the index makes up for it.
SeedOnlyWhenEmpty ==
    [][\A id \in UserId : users[id] = Nobody /\ users'[id] # Nobody => LiveUsers = {}]_bvars

\* Every process gets through in the end, however the others interleave with it.
AllComeUp == \A p \in Process : <>[](pc[p] = "up")
=============================================================================
