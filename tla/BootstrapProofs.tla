-------------------------- MODULE BootstrapProofs --------------------------
(***************************************************************************)
(* The safety of the boot for any number of processes, documents and       *)
(* crashes.  None of the properties is inductive by itself; BootInv adds   *)
(* what the processes know of each other through the index.                *)
(***************************************************************************)
EXTENDS Bootstrap, TLAPS

\* Whoever has got past create_index has made the index.
PastIndex == \A p \in Process : pc[p] \in {"count", "insert", "up"} => index

IndexUnique == index => UniqueNames

\* A process deletes a document only while an older one of the name is there ...
OlderThere ==
    \A p \in Process : \A id \in surplus[p] :
        users[id] # Nobody => \E i \in LiveUsers : i < id /\ users[i] = users[id]

\* ... and while it deduplicates it knows every document that has an older one.
KnowsDuplicates ==
    \A p \in Process :
        /\ pc[p] = "dedupe" => Duplicates \subseteq surplus[p]
        /\ pc[p] # "dedupe" => surplus[p] = {}

AccountOnceUp == \A p \in Process : pc[p] = "up" => LiveUsers # {}

\* A stale count is harmless: what has been inserted since is the administrator.
CountedEmpty ==
    \A p \in Process : pc[p] = "insert" =>
        LiveUsers = {} \/ \E i \in LiveUsers : users[i] = AdminName

BootInv ==
    /\ BootTypeOK
    /\ PastIndex /\ IndexUnique /\ OlderThere
    /\ KnowsDuplicates /\ AccountOnceUp /\ CountedEmpty

LEMMA UniqueWithoutDuplicates == ASSUME BootTypeOK, Duplicates = {} PROVE UniqueNames
  BY BootAssumption DEF BootTypeOK, UniqueNames, Duplicates, LiveUsers

LEMMA BootInitInv == BootInit => BootInv
  <1> SUFFICES ASSUME BootInit PROVE BootInv
    OBVIOUS
  <1>1. BootTypeOK
    BY BootAssumption DEF BootInit, BootTypeOK, LiveUsers
  <1>2. PastIndex /\ IndexUnique /\ OlderThere /\ KnowsDuplicates /\ AccountOnceUp /\ CountedEmpty
    BY DEF BootInit, PastIndex, IndexUnique, OlderThere, KnowsDuplicates,
           AccountOnceUp, CountedEmpty
  <1> QED
    BY <1>1, <1>2 DEF BootInv

\* The steps that leave the documents alone.
LEMMA QuietStep ==
    ASSUME BootInv, NEW p \in Process,
           Start(p) \/ Aggregate(p) \/ CreateIndex(p) \/ Count(p) \/ Crash(p)
    PROVE  BootInv'
  <1> USE DEF BootInv, Goto
  <1>1. users' = users /\ usedIds' = usedIds /\ LiveUsers' = LiveUsers /\ Duplicates' = Duplicates
    BY DEF Start, Aggregate, CreateIndex, Count, Crash, LiveUsers, Duplicates
  <1>2. UniqueNames' = UniqueNames
    BY <1>1 DEF UniqueNames
  <1>3. BootTypeOK'
    <2>1. Duplicates \subseteq usedIds
      BY DEF BootTypeOK, Duplicates
    <2>2. CASE Start(p) \/ Count(p)
      BY <2>2, <1>1 DEF BootTypeOK, Start, Count
    <2>3. CASE Aggregate(p)
      BY <2>3, <2>1, <1>1 DEF BootTypeOK, Aggregate
    <2>4. CASE CreateIndex(p)
      BY <2>4, <1>1 DEF BootTypeOK, CreateIndex
    <2>5. CASE Crash(p)
      BY <2>5, <1>1, BootAssumption DEF BootTypeOK, Crash
    <2> QED
      BY <2>2, <2>3, <2>4, <2>5
  <1>4. PastIndex'
    BY DEF BootTypeOK, PastIndex, Start, Aggregate, CreateIndex, Count, Crash
  <1>5. IndexUnique'
    BY <1>2 DEF IndexUnique, Start, Aggregate, CreateIndex, Count, Crash
  <1>6. OlderThere'
    BY <1>1 DEF BootTypeOK, OlderThere, Start, Aggregate, CreateIndex, Count, Crash, Duplicates
  <1>7. KnowsDuplicates'
    BY <1>1 DEF BootTypeOK, KnowsDuplicates, Start, Aggregate, CreateIndex, Count, Crash
  <1>8. AccountOnceUp'
    BY <1>1 DEF BootTypeOK, AccountOnceUp, Start, Aggregate, CreateIndex, Count, Crash
  <1>9. CountedEmpty'
    BY <1>1 DEF BootTypeOK, CountedEmpty, Start, Aggregate, CreateIndex, Count, Crash
  <1> QED
    BY <1>3, <1>4, <1>5, <1>6, <1>7, <1>8, <1>9

LEMMA DeleteStep ==
    ASSUME BootInv, NEW p \in Process, DeleteSurplus(p)
    PROVE  BootInv'
  <1> USE DEF BootInv
  <1>1. PICK id \in surplus[p] :
            /\ users' = [users EXCEPT ![id] = Nobody]
            /\ surplus' = [surplus EXCEPT ![p] = @ \ {id}]
    BY DEF DeleteSurplus
  <1>2. id \in UserId /\ UNCHANGED <<usedIds, index, pc, crashes>> /\ pc[p] = "dedupe"
    BY DEF DeleteSurplus, BootTypeOK
  <1>3. LiveUsers' = LiveUsers \ {id} /\ \A i \in LiveUsers' : users'[i] = users[i]
    BY <1>1, <1>2 DEF LiveUsers, BootTypeOK
  <1>4. Duplicates' \subseteq Duplicates \ {id}
    BY <1>3 DEF Duplicates
  <1>5. BootTypeOK'
    BY <1>1, <1>2, <1>3, BootAssumption DEF BootTypeOK
  <1>6. PastIndex'
    BY <1>2 DEF PastIndex
  <1>7. IndexUnique'
    BY <1>2, <1>3 DEF IndexUnique, UniqueNames
  <1>8. \A j \in LiveUsers : \E i \in LiveUsers' : users[i] = users[j]
    BY <1>1, <1>2, <1>3, BootAssumption DEF OlderThere, LiveUsers
  <1>9. OlderThere'
    <2> SUFFICES ASSUME NEW q \in Process, NEW j \in surplus'[q], users'[j] # Nobody
                 PROVE  \E i \in LiveUsers' : i < j /\ users'[i] = users'[j]
      BY DEF OlderThere
    <2>1. j \in surplus[q] /\ j \in UserId /\ j # id /\ users'[j] = users[j]
      BY <1>1, <1>2 DEF BootTypeOK
    <2>2. PICK i \in LiveUsers : i < j /\ users[i] = users[j]
      BY <2>1 DEF OlderThere
    <2>3. CASE i # id
      BY <2>1, <2>2, <2>3, <1>3
    <2>4. CASE i = id
      <3>1. PICK k \in LiveUsers : k < id /\ users[k] = users[id]
        BY <2>4, <1>1 DEF OlderThere, LiveUsers
      <3>2. k \in Nat /\ i \in Nat /\ j \in Nat /\ k < i /\ i < j
        BY <3>1, <2>1, <2>2, <2>4, BootAssumption DEF LiveUsers
      <3>3. k < j /\ k # id /\ k \in LiveUsers'
        BY <3>1, <3>2, <2>4, <1>3
      <3>4. users'[k] = users'[j]
        BY <3>1, <3>3, <2>1, <2>2, <2>4, <1>3
      <3> QED
        BY <3>3, <3>4
    <2> QED
      BY <2>3, <2>4
  <1>10. KnowsDuplicates'
    BY <1>1, <1>2, <1>4 DEF KnowsDuplicates, BootTypeOK
  <1>11. AccountOnceUp'
    BY <1>2, <1>8 DEF AccountOnceUp
  <1>12. CountedEmpty'
    BY <1>2, <1>3, <1>8 DEF CountedEmpty
  <1> QED
    BY <1>5, <1>6, <1>7, <1>9, <1>10, <1>11, <1>12

LEMMA InsertStep ==
    ASSUME BootInv, NEW p \in Process, InsertAdmin(p)
    PROVE  BootInv' /\ (users' # users => LiveUsers = {})
  <1> USE DEF BootInv, Goto
  <1>1. pc[p] = "insert" /\ index /\ index' = index /\ UniqueNames
    BY DEF InsertAdmin, PastIndex, IndexUnique
  <1>2. /\ pc' = [pc EXCEPT ![p] = "up"]
        /\ surplus' = surplus /\ crashes' = crashes
    BY DEF InsertAdmin
  <1>3. CASE \E i \in LiveUsers : users[i] = AdminName
    <2>1. users' = users /\ usedIds' = usedIds /\ LiveUsers' = LiveUsers /\ Duplicates' = Duplicates
      BY <1>1, <1>3 DEF InsertAdmin, LiveUsers, Duplicates
    <2>2. BootTypeOK' /\ PastIndex' /\ IndexUnique' /\ OlderThere'
      BY <1>1, <1>2, <2>1 DEF BootTypeOK, PastIndex, IndexUnique, UniqueNames, OlderThere
    <2>3. KnowsDuplicates' /\ AccountOnceUp' /\ CountedEmpty'
      BY <1>1, <1>2, <1>3, <2>1 DEF BootTypeOK, KnowsDuplicates, AccountOnceUp, CountedEmpty
    <2> QED
      BY <2>1, <2>2, <2>3
  <1>4. CASE ~\E i \in LiveUsers : users[i] = AdminName
    <2>1. LiveUsers = {}
      BY <1>1, <1>4 DEF CountedEmpty
    <2>2. PICK id \in UserId \ usedIds :
              users' = [users EXCEPT ![id] = AdminName] /\ usedIds' = usedIds \cup {id}
      BY <1>4 DEF InsertAdmin
    <2>3. LiveUsers' = {id} /\ users'[id] = AdminName
      BY <2>1, <2>2, BootAssumption DEF LiveUsers, BootTypeOK
    <2>4. Duplicates' = {}
      BY <2>3, BootAssumption DEF Duplicates
    <2>5. BootTypeOK'
      BY <1>1, <1>2, <2>1, <2>2, <2>3, BootAssumption DEF BootTypeOK
    <2>6. PastIndex' /\ IndexUnique'
      BY <1>1, <1>2, <2>3 DEF PastIndex, IndexUnique, UniqueNames
    <2>7. OlderThere'
      BY <1>2, <2>1, <2>2 DEF OlderThere, BootTypeOK, LiveUsers
    <2>8. KnowsDuplicates' /\ AccountOnceUp' /\ CountedEmpty'
      BY <1>1, <1>2, <2>3, <2>4 DEF BootTypeOK, KnowsDuplicates, AccountOnceUp, CountedEmpty
    <2> QED
      BY <2>1, <2>5, <2>6, <2>7, <2>8
  <1> QED
    BY <1>3, <1>4

LEMMA BootStepInv == BootInv /\ [BootNext]_bvars => BootInv'
  <1> SUFFICES ASSUME BootInv, [BootNext]_bvars PROVE BootInv'
    OBVIOUS
  <1>1. CASE UNCHANGED bvars
    BY <1>1 DEF bvars, BootInv, BootTypeOK, PastIndex, IndexUnique, UniqueNames, OlderThere,
                KnowsDuplicates, AccountOnceUp, CountedEmpty, LiveUsers, Duplicates
  <1>2. ASSUME NEW p \in Process, Boot(p) \/ Crash(p) PROVE BootInv'
    BY <1>2, QuietStep, DeleteStep, InsertStep DEF Boot
  <1> QED
    BY <1>1, <1>2 DEF BootNext

LEMMA BootInvariant == BootSpec => []BootInv
  BY BootInitInv, BootStepInv, PTL DEF BootSpec

LEMMA BootInvImplies == BootInv => BootTypeOK /\ IndexNeverFails /\ UpWithAccounts
  <1> SUFFICES ASSUME BootInv PROVE BootTypeOK /\ IndexNeverFails /\ UpWithAccounts
    OBVIOUS
  <1>1. IndexNeverFails
    BY UniqueWithoutDuplicates DEF BootInv, IndexNeverFails, KnowsDuplicates
  <1>2. UpWithAccounts
    BY DEF BootInv, UpWithAccounts, AccountOnceUp, PastIndex, IndexUnique
  <1> QED
    BY <1>1, <1>2 DEF BootInv

\* The state of a boot keeps its shape, and no ObjectId of a user is used twice.
THEOREM BootTypeCorrect == BootSpec => []BootTypeOK
  BY BootInvariant, BootInvImplies, PTL

\* ensure_admin_user never dies of its own create_index.
THEOREM BootIndexNeverFails == BootSpec => []IndexNeverFails
  BY BootInvariant, BootInvImplies, PTL

\* A process that is through leaves an account, and one document per name.
THEOREM BootUpWithAccounts == BootSpec => []UpWithAccounts
  BY BootInvariant, BootInvImplies, PTL

\* Concurrent deduplication leaves the oldest document of every name.
THEOREM BootOldestStays == BootSpec => OldestStays
  <1> DEFINE Stays == \A id \in LiveUsers : users'[id] = Nobody =>
                \E i \in LiveUsers : i < id /\ users[i] = users[id] /\ users'[i] = users[i]
  <1>1. ASSUME BootInv, [BootNext]_bvars PROVE [Stays]_bvars
    <2> SUFFICES ASSUME BootNext, NEW id \in LiveUsers, users'[id] = Nobody
                 PROVE  \E i \in LiveUsers : i < id /\ users[i] = users[id] /\ users'[i] = users[i]
      BY <1>1
    <2>1. PICK p \in Process : Boot(p) \/ Crash(p)
      BY DEF BootNext
    <2>2. users' # users
      BY DEF LiveUsers
    <2>3. CASE InsertAdmin(p)
      BY <1>1, <2>2, <2>3, InsertStep
    <2>4. CASE DeleteSurplus(p)
      <3>1. PICK d \in surplus[p] : users' = [users EXCEPT ![d] = Nobody]
        BY <2>4 DEF DeleteSurplus
      <3>2. id = d /\ users[id] # Nobody
        BY <3>1 DEF LiveUsers
      <3>3. PICK i \in LiveUsers : i < id /\ users[i] = users[id]
        BY <1>1, <3>2 DEF BootInv, OlderThere
      <3>4. users'[i] = users[i]
        BY <3>1, <3>2, <3>3, BootAssumption DEF LiveUsers
      <3> QED
        BY <3>3, <3>4
    <2> QED
      BY <2>1, <2>2, <2>3, <2>4
      DEF Boot, Start, Aggregate, CreateIndex, Count, Crash
  <1> QED
    BY <1>1, BootInvariant, PTL DEF BootSpec, OldestStays

\* The administrator is seeded only into an empty collection, stale counts or not.
THEOREM BootSeedOnlyWhenEmpty == BootSpec => SeedOnlyWhenEmpty
  <1> DEFINE Seeded == \A id \in UserId : users[id] = Nobody /\ users'[id] # Nobody => LiveUsers = {}
  <1>1. ASSUME BootInv, [BootNext]_bvars PROVE [Seeded]_bvars
    <2> SUFFICES ASSUME BootNext, NEW id \in UserId, users[id] = Nobody, users'[id] # Nobody
                 PROVE  LiveUsers = {}
      BY <1>1
    <2>1. PICK p \in Process : Boot(p) \/ Crash(p)
      BY DEF BootNext
    <2>2. ~DeleteSurplus(p)
      BY <1>1 DEF BootInv, BootTypeOK, DeleteSurplus
    <2>3. CASE InsertAdmin(p)
      BY <1>1, <2>3, InsertStep
    <2> QED
      BY <2>1, <2>2, <2>3
      DEF Boot, Start, Aggregate, CreateIndex, Count, Crash
  <1> QED
    BY <1>1, BootInvariant, PTL DEF BootSpec, SeedOnlyWhenEmpty
=============================================================================
