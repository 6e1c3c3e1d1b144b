---------------------------- MODULE RestoreProofs ----------------------------
(***************************************************************************)
(* The safety of restores, for any number of workers, collections,         *)
(* documents, archives and kills.  Each of the three properties has an     *)
(* invariant of its own: the database before the first restore (Pristine), *)
(* the one restore there has been (OneRestore), and several restores of    *)
(* one archive (Converging).                                               *)
(***************************************************************************)
EXTENDS Restore, WellFoundedInduction, TLAPS

-----------------------------------------------------------------------------
(* The order of the collections. *)

LEMMA Positions ==
    /\ \A c \in Kept : Position(c) \in 1 .. 7 /\ COLLECTIONS[Position(c)] = c
    /\ \A c \in Kept \ {"users"} : Position(c) < Position("users")
  <1>1. DOMAIN COLLECTIONS = 1 .. 7
    BY DEF COLLECTIONS
  <1>2. ASSUME NEW c \in Kept
        PROVE  Position(c) \in 1 .. 7 /\ COLLECTIONS[Position(c)] = c
    <2>1. \E i \in DOMAIN COLLECTIONS : COLLECTIONS[i] = c
      BY RestoreAssumption DEF ToSet
    <2> QED
      BY <1>1, <2>1 DEF Position
  <1>3. \A i \in 1 .. 7 : COLLECTIONS[i] = "users" <=> i = 7
    BY DEF COLLECTIONS
  <1>4. Position("users") = 7
    BY <1>2, <1>3, RestoreAssumption
  <1>5. ASSUME NEW c \in Kept \ {"users"} PROVE Position(c) < 7
    BY <1>2, <1>3
  <1> QED
    BY <1>2, <1>4, <1>5

\* Two collections are at different places.
LEMMA PositionsDiffer ==
    \A b, c \in Kept : Position(b) \in Nat /\ (Position(b) = Position(c) => b = c)
  BY Positions

LEMMA FirstIs ==
    ASSUME NEW left \in SUBSET Kept, left # {}
    PROVE  First(left) \in left /\ \A c \in left : Position(First(left)) <= Position(c)
  <1> DEFINE places == {Position(c) : c \in left}
  <1>1. places \in SUBSET Nat /\ places # {}
    BY PositionsDiffer
  <1>2. PICK x \in places : \A y \in places : ~(<<y, x>> \in OpToRel(<, Nat))
    BY <1>1, NatLessThanWellFounded, WFMin
  <1>3. PICK c \in left : x = Position(c)
    BY <1>2
  <1>4. \A d \in left : Position(c) <= Position(d)
    <2> SUFFICES ASSUME NEW d \in left PROVE Position(c) <= Position(d)
      OBVIOUS
    <2>1. ~(Position(d) < Position(c))
      BY <1>2, <1>3, PositionsDiffer DEF OpToRel
    <2>2. Position(d) \in Nat /\ Position(c) \in Nat
      BY PositionsDiffer
    <2> QED
      BY <2>1, <2>2
  <1> HIDE DEF places
  <1> QED
    BY <1>4 DEF First

LEMMA UsersLast ==
    ASSUME NEW left \in SUBSET Kept, left # {}, First(left) = "users"
    PROVE  left = {"users"}
  <1>1. \A c \in left : c = "users"
    BY FirstIs, Positions
  <1> QED
    BY <1>1, FirstIs

-----------------------------------------------------------------------------
(* Documents and archives. *)

LEMMA DocumentsAre ==
    ASSUME NEW c, NEW docs \in Documents(c)
    PROVE  /\ DOMAIN docs \subseteq UserId
           /\ docs = [id \in DOMAIN docs |-> docs[id]]
           /\ \A id \in DOMAIN docs : docs[id] \in Held(c)
  <1>1. PICK ids \in SUBSET UserId : docs \in [ids -> Held(c)]
    BY DEF Documents
  <1> QED
    BY <1>1

LEMMA DocumentsFrom ==
    ASSUME NEW c, NEW ids \in SUBSET UserId, NEW docs \in [ids -> Held(c)]
    PROVE  docs \in Documents(c)
  BY DEF Documents

LEMMA ArchivesAre ==
    ASSUME NEW data \in Archives
    PROVE  /\ DOMAIN data \subseteq Kept
           /\ data = [c \in DOMAIN data |-> data[c]]
           /\ \A c \in DOMAIN data : data[c] \in Documents(c) \cup Damage
  <1>1. PICK cs \in SUBSET Kept : data \in [cs -> Entries]
    BY DEF Archives
  <1> QED
    BY <1>1 DEF Archives

LEMMA ArchivesFrom ==
    ASSUME NEW cs \in SUBSET Kept, NEW data, data = [c \in cs |-> data[c]],
           \A c \in cs : data[c] \in Documents(c)
    PROVE  data \in Archives
  <1>1. data \in [cs -> Entries]
    BY DEF Entries
  <1> QED
    BY <1>1 DEF Archives

LEMMA HeldSomething == \A c : Nobody \notin Held(c)
  BY BootAssumption, RestoreAssumption DEF Held

\* What is stored, and what it is as documents, are the same thing.
LEMMA PresentIs ==
    ASSUME NEW c, NEW f \in [UserId -> Held(c) \cup {Nobody}]
    PROVE  /\ Present(f) \in Documents(c)
           /\ \A id \in UserId : id \in DOMAIN Present(f) <=> f[id] # Nobody
           /\ \A id \in DOMAIN Present(f) : Present(f)[id] = f[id]
  <1>1. Present(f) \in [{id \in UserId : f[id] # Nobody} -> Held(c)]
    BY DEF Present
  <1> QED
    BY <1>1, DocumentsFrom DEF Present

LEMMA PresentFilled ==
    ASSUME NEW c, NEW docs \in Documents(c)
    PROVE  Filled(docs) \in [UserId -> Held(c) \cup {Nobody}] /\ Present(Filled(docs)) = docs
  <1>1. Filled(docs) \in [UserId -> Held(c) \cup {Nobody}]
    BY DocumentsAre DEF Filled
  <1>2. \A id \in UserId : Filled(docs)[id] # Nobody <=> id \in DOMAIN docs
    BY DocumentsAre, HeldSomething DEF Filled
  <1>3. {id \in UserId : Filled(docs)[id] # Nobody} = DOMAIN docs
    BY <1>2, DocumentsAre
  <1>4. \A id \in DOMAIN docs : Filled(docs)[id] = docs[id]
    BY DocumentsAre DEF Filled
  <1> QED
    BY <1>1, <1>3, <1>4, DocumentsAre DEF Present

LEMMA NothingIs == \A c : Nothing \in Documents(c) /\ DOMAIN Nothing = {}
  <1> SUFFICES ASSUME NEW c PROVE Nothing \in [{} -> Held(c)] /\ DOMAIN Nothing = {}
    BY DocumentsFrom
  <1> QED
    BY DEF Nothing

-----------------------------------------------------------------------------
(* Types. *)

Active(w) == req[w] # NoRequest

\* What a request has read, and what it has left to insert, are as its stage says.
RequestOK(r) ==
    \/ r = NoRequest
    \/ /\ r.phase \in {"snapshot", "replace", "insert"}
       /\ r.data \in Archives /\ r.left \in SUBSET Kept
       /\ r.phase = "snapshot" => r.taken \in Archives /\ DOMAIN r.taken = Kept \ r.left
       /\ r.phase = "insert" =>
            /\ r.left # {} /\ First(r.left) \in DOMAIN r.data
            /\ r.data[First(r.left)] \in Documents(First(r.left))
            /\ DOMAIN r.todo \subseteq DOMAIN r.data[First(r.left)]
            /\ \A id \in DOMAIN r.todo : r.todo[id] = r.data[First(r.left)][id]

StoresOK ==
    /\ users \in [UserId -> Username \cup {Nobody}]
    /\ db \in [Kept \ {"users"} -> [UserId -> Version \cup {Nobody}]]

RestoreTypeOK ==
    /\ StoresOK
    /\ pc \in [Process -> {"down", "aggregate", "dedupe", "count", "insert", "up"}]
    /\ surplus \in [Process -> SUBSET UserId]
    /\ crashes \in Nat
    /\ staged \in Archives \cup {Nobody} /\ files \in SUBSET Archives
    /\ req = [w \in Process |-> req[w]] /\ \A w \in Process : RequestOK(req[w])
    /\ confirmed \in Seq(Archives) /\ errors \in Nat

LEMMA StoredTyped ==
    ASSUME StoresOK, NEW c \in Kept
    PROVE  /\ Stored(c) \in [UserId -> Held(c) \cup {Nobody}]
           /\ Docs(c) \in Documents(c)
  <1>1. Stored(c) \in [UserId -> Held(c) \cup {Nobody}]
    BY DEF StoresOK, Stored, Held
  <1> QED
    BY <1>1, PresentIs DEF Docs

LEMMA SetTo ==
    ASSUME StoresOK, NEW c \in Kept, NEW f \in [UserId -> Held(c) \cup {Nobody}],
           SetCollection(c, f)
    PROVE  /\ StoresOK'
           /\ Docs(c)' = Present(f)
           /\ \A b \in Kept \ {c} : Docs(b)' = Docs(b)
           /\ UNCHANGED <<index, pc, surplus, crashes>>
  <1>1. CASE c = "users"
    BY <1>1 DEF SetCollection, StoresOK, Docs, Stored, Held
  <1>2. CASE c # "users"
    BY <1>2 DEF SetCollection, StoresOK, Docs, Stored, Held
  <1> QED
    BY <1>1, <1>2

\* delete_many.
LEMMA SetToNothing ==
    ASSUME StoresOK, NEW c \in Kept, SetCollection(c, Filled(Nothing))
    PROVE  /\ StoresOK'
           /\ Docs(c)' = Nothing
           /\ \A b \in Kept \ {c} : Docs(b)' = Docs(b)
           /\ UNCHANGED <<index, pc, surplus, crashes>>
  <1>1. Filled(Nothing) \in [UserId -> Held(c) \cup {Nobody}] /\ Present(Filled(Nothing)) = Nothing
    BY PresentFilled, NothingIs
  <1> QED
    BY <1>1, SetTo

\* One document of insert_many.
LEMMA SetOneMore ==
    ASSUME StoresOK, NEW c \in Kept, NEW id \in UserId, NEW doc \in Held(c),
           SetCollection(c, [Stored(c) EXCEPT ![id] = doc])
    PROVE  /\ StoresOK'
           /\ Docs(c)' = With(Docs(c), id, doc)
           /\ \A b \in Kept \ {c} : Docs(b)' = Docs(b)
           /\ UNCHANGED <<index, pc, surplus, crashes>>
  <1> DEFINE f == [Stored(c) EXCEPT ![id] = doc]
  <1>1. Stored(c) \in [UserId -> Held(c) \cup {Nobody}] /\ doc # Nobody
    BY StoredTyped, HeldSomething
  <1>2. f \in [UserId -> Held(c) \cup {Nobody}]
    BY <1>1
  <1>3. {i \in UserId : f[i] # Nobody} = {i \in UserId : Stored(c)[i] # Nobody} \cup {id}
    BY <1>1
  <1>4. Present(f) = With(Present(Stored(c)), id, doc)
    BY <1>1, <1>3 DEF Present, With
  <1> HIDE DEF f
  <1>5. SetCollection(c, f)
    BY DEF f
  <1> QED
    BY <1>2, <1>4, <1>5, SetTo DEF Docs

LEMMA SameDocs ==
    ASSUME UNCHANGED <<users, db>>
    PROVE  (StoresOK => StoresOK') /\ \A c \in Kept : Docs(c)' = Docs(c)
  BY DEF StoresOK, Docs, Stored

LEMMA ReadOK ==
    ASSUME StoresOK, NEW r, RequestOK(r), r.phase = "snapshot", r.left # {}
    PROVE  /\ First(r.left) \in r.left /\ First(r.left) \in Kept
           /\ RequestOK(Snapshotting(r.data, r.fromStage, r.left \ {First(r.left)},
                                     With(r.taken, First(r.left), Docs(First(r.left)))))
  <1> DEFINE c == First(r.left)
             taken == With(r.taken, c, Docs(c))
  <1>1. /\ r.data \in Archives /\ r.left \in SUBSET Kept
        /\ r.taken \in Archives /\ DOMAIN r.taken = Kept \ r.left
    BY DEF RequestOK, NoRequest
  <1>2. c \in r.left /\ c \in Kept
    BY <1>1, FirstIs
  <1>3. DOMAIN taken = Kept \ (r.left \ {c})
    BY <1>1, <1>2 DEF With
  <1>4. taken \in Archives
    <2>1. taken = [b \in DOMAIN taken |-> taken[b]] /\ DOMAIN taken \in SUBSET Kept
      BY <1>3 DEF With
    <2>2. Docs(c) \in Documents(c)
      BY <1>2, StoredTyped
    <2>3. \A b \in DOMAIN taken : taken[b] \in Documents(b) \cup Damage
      BY <1>1, <2>2, ArchivesAre DEF With
    <2> HIDE DEF taken
    <2>4. taken \in [DOMAIN taken -> Entries]
      BY <2>1, <2>3 DEF Entries
    <2> QED
      BY <2>1, <2>3, <2>4 DEF Archives
  <1> HIDE DEF taken
  <1> QED
    BY <1>1, <1>2, <1>3, <1>4 DEF RequestOK, Snapshotting, taken

LEMMA InsertIsOK ==
    ASSUME NEW r, RequestOK(r), r.phase = "insert", NEW id \in DOMAIN r.todo
    PROVE  /\ First(r.left) \in Kept /\ id \in UserId
           /\ r.todo[id] \in Held(First(r.left))
           /\ RequestOK(Inserting(r.data, r.fromStage, r.left, Without(r.todo, id)))
  <1>1. /\ r.data \in Archives /\ r.left \in SUBSET Kept /\ r.left # {}
        /\ First(r.left) \in DOMAIN r.data
        /\ r.data[First(r.left)] \in Documents(First(r.left))
        /\ DOMAIN r.todo \subseteq DOMAIN r.data[First(r.left)]
        /\ \A i \in DOMAIN r.todo : r.todo[i] = r.data[First(r.left)][i]
    BY DEF RequestOK, NoRequest
  <1>2. First(r.left) \in Kept
    BY <1>1, FirstIs
  <1>3. id \in UserId /\ r.todo[id] \in Held(First(r.left))
    BY <1>1, DocumentsAre
  <1>4. /\ DOMAIN Without(r.todo, id) \subseteq DOMAIN r.todo
        /\ \A i \in DOMAIN Without(r.todo, id) : Without(r.todo, id)[i] = r.todo[i]
    BY DEF Without
  <1> QED
    BY <1>1, <1>2, <1>3, <1>4 DEF RequestOK, Inserting

LEMMA StartInsertOK ==
    ASSUME NEW r, RequestOK(r), r.phase = "replace", NEW c, c = First(r.left), r.left # {},
           c \in DOMAIN r.data, r.data[c] \notin Damage
    PROVE  /\ c \in Kept
           /\ r.data[c] \in Documents(c)
           /\ RequestOK(Inserting(r.data, r.fromStage, r.left, r.data[c]))
  <1>1. r.data \in Archives /\ r.left \in SUBSET Kept
    BY DEF RequestOK, NoRequest
  <1>2. c \in Kept /\ r.data[c] \in Documents(c)
    BY <1>1, FirstIs, ArchivesAre
  <1> QED
    BY <1>1, <1>2 DEF RequestOK, Inserting

LEMMA ReplaceOK ==
    ASSUME NEW r, RequestOK(r), r # NoRequest, NEW left \in SUBSET Kept
    PROVE  RequestOK(Replacing(r.data, r.fromStage, left))
  BY DEF RequestOK, Replacing

LEMMA StartedOK ==
    ASSUME NEW data \in Archives, NEW fromStage
    PROVE  RequestOK(Started(data, fromStage))
  <1>1. DOMAIN Nothing = {} /\ Nothing = [c \in {} |-> Nothing[c]]
    BY DEF Nothing
  <1>2. Nothing \in Archives
    BY <1>1, ArchivesFrom
  <1> QED
    BY <1>1, <1>2 DEF RequestOK, Started, Snapshotting

-----------------------------------------------------------------------------
(* The steps, told by what they do to one request and to the documents.    *)

\* Steps of the boot, and of a worker that dies.
BootTyped == pc \in [Process -> {"down", "aggregate", "dedupe", "count", "insert", "up"}]
             /\ surplus \in [Process -> SUBSET UserId] /\ crashes \in Nat

LEMMA BootTypes ==
    ASSUME StoresOK, BootTyped, NEW p \in Process, Boot(p) \/ Crash(p), UNCHANGED db
    PROVE  StoresOK' /\ BootTyped'
  <1> USE DEF StoresOK, BootTyped, Goto
  <1>1. CASE Start(p)
    BY <1>1 DEF Start
  <1>2. CASE Aggregate(p)
    BY <1>2 DEF Aggregate, Duplicates, LiveUsers
  <1>3. CASE DeleteSurplus(p)
    BY <1>3 DEF DeleteSurplus
  <1>4. CASE CreateIndex(p)
    BY <1>4 DEF CreateIndex
  <1>5. CASE Count(p)
    BY <1>5 DEF Count
  <1>6. CASE InsertAdmin(p)
    BY <1>6, BootAssumption DEF InsertAdmin
  <1>7. CASE Crash(p)
    BY <1>7 DEF Crash
  <1> QED
    BY <1>1, <1>2, <1>3, <1>4, <1>5, <1>6, <1>7 DEF Boot

LEMMA RestoreInitTyped ==
    ASSUME RestoreInit
    PROVE  RestoreTypeOK /\ \A c \in Kept : Docs(c) = Original[c]
  <1>1. \A c \in Kept : /\ Filled(Original[c]) \in [UserId -> Held(c) \cup {Nobody}]
                        /\ Present(Filled(Original[c])) = Original[c]
    BY PresentFilled, RestoreAssumption
  <1>2. \A c \in Kept : Stored(c) = Filled(Original[c])
    BY DEF RestoreInit, Stored
  <1>3. StoresOK
    <2>1. users \in [UserId -> Username \cup {Nobody}]
      BY <1>1, RestoreAssumption DEF RestoreInit, Held
    <2>2. \A c \in Kept \ {"users"} : Filled(Original[c]) \in [UserId -> Version \cup {Nobody}]
      BY <1>1 DEF Held
    <2>3. db \in [Kept \ {"users"} -> [UserId -> Version \cup {Nobody}]]
      BY <2>2 DEF RestoreInit
    <2> QED
      BY <2>1, <2>3 DEF StoresOK
  <1>4. RestoreTypeOK
    BY <1>3 DEF RestoreInit, RestoreTypeOK, RequestOK
  <1> QED
    BY <1>1, <1>2, <1>4 DEF Docs

\* The three ways in which insert_many goes on.
InsertEnds(w) ==
    /\ DOMAIN req[w].todo = {}
    /\ req' = [req EXCEPT ![w] =
          Replacing(req[w].data, req[w].fromStage, req[w].left \ {First(req[w].left)})]
    /\ UNCHANGED <<bvars, db, staged>>

InsertFails(w, id) ==
    /\ Taken(First(req[w].left), id, req[w].todo[id])
    /\ req' = [req EXCEPT ![w] = NoRequest]
    /\ staged' \in {staged, Nobody}
    /\ UNCHANGED <<bvars, db>>

InsertsOne(w, id) ==
    /\ ~Taken(First(req[w].left), id, req[w].todo[id])
    /\ SetCollection(First(req[w].left), [Stored(First(req[w].left)) EXCEPT ![id] = req[w].todo[id]])
    /\ req' = [req EXCEPT ![w] =
          Inserting(req[w].data, req[w].fromStage, req[w].left, Without(req[w].todo, id))]
    /\ UNCHANGED staged

LEMMA InsertCases ==
    ASSUME NEW w \in Process, InsertMany(w)
    PROVE  /\ req[w].phase = "insert" /\ UNCHANGED <<files, rhistory>>
           /\ \/ InsertEnds(w)
              \/ \E id \in DOMAIN req[w].todo :
                    /\ \A i \in DOMAIN req[w].todo : id <= i
                    /\ InsertFails(w, id) \/ InsertsOne(w, id)
  <1>1. req[w].phase = "insert" /\ UNCHANGED <<files, rhistory>>
    BY DEF InsertMany
  <1>2. CASE InsertEnds(w)
    BY <1>1, <1>2
  <1>3. CASE ~InsertEnds(w)
    <2>1. PICK id \in DOMAIN req[w].todo :
             /\ \A i \in DOMAIN req[w].todo : id <= i
             /\ IF Taken(First(req[w].left), id, req[w].todo[id])
                THEN AfterDuplicate(w, First(req[w].left))
                ELSE /\ SetCollection(First(req[w].left),
                            [Stored(First(req[w].left)) EXCEPT ![id] = req[w].todo[id]])
                     /\ req' = [req EXCEPT ![w] = Inserting(req[w].data, req[w].fromStage,
                                    req[w].left, Without(req[w].todo, id))]
                     /\ UNCHANGED staged
      BY <1>3 DEF InsertMany, InsertEnds
    <2>2. InsertFails(w, id) \/ InsertsOne(w, id)
      BY <2>1 DEF InsertFails, InsertsOne, AfterDuplicate, Finish
    <2> QED
      BY <1>1, <2>1, <2>2
  <1> QED
    BY <1>2, <1>3

\* A step of a request is a step of an active request, and of no other.
LEMMA OwnRequest ==
    ASSUME RestoreTypeOK, NEW w \in Process, RestoreStep(w)
    PROVE  /\ Active(w) /\ RequestOK(req[w])
           /\ req' = [v \in Process |-> req'[v]]
           /\ \A v \in Process \ {w} : req'[v] = req[v]
           /\ UNCHANGED <<index, pc, surplus, crashes, confirmed, errors>>
  <1>1. req = [v \in Process |-> req[v]] /\ RequestOK(req[w])
    BY DEF RestoreTypeOK
  <1>2. CASE ReadCollection(w) \/ WriteSafetySnapshot(w) \/ Complete(w)
    BY <1>1, <1>2 DEF ReadCollection, WriteSafetySnapshot, Complete, Finish, Active, NoRequest, bvars,
                      rhistory
  <1>3. CASE \E c \in Kept : \/ SkipCollection(w, c) \/ FailOnEntry(w, c)
                            \/ FailOnDocuments(w, c) \/ DeleteMany(w, c)
    <2>1. PICK c \in Kept : \/ SkipCollection(w, c) \/ FailOnEntry(w, c)
                           \/ FailOnDocuments(w, c) \/ DeleteMany(w, c)
      BY <1>3
    <2>2. Active(w) /\ \E r : req' = [req EXCEPT ![w] = r]
      BY <2>1 DEF SkipCollection, FailOnEntry, FailOnDocuments, DeleteMany, AtCollection, Finish,
                  Active, NoRequest
    <2>3. UNCHANGED <<index, pc, surplus, crashes, confirmed, errors>>
      BY <2>1 DEF SkipCollection, FailOnEntry, FailOnDocuments, DeleteMany, SetCollection, bvars,
                  rhistory
    <2> QED
      BY <1>1, <2>2, <2>3
  <1>4. CASE InsertMany(w)
    <2>1. Active(w) /\ UNCHANGED <<confirmed, errors>>
      BY <1>4, InsertCases DEF Active, NoRequest, rhistory
    <2>2. \E r : req' = [req EXCEPT ![w] = r]
      BY <1>4, InsertCases DEF InsertEnds, InsertFails, InsertsOne
    <2>3. UNCHANGED <<index, pc, surplus, crashes>>
      BY <1>4, InsertCases DEF InsertEnds, InsertFails, InsertsOne, SetCollection, bvars
    <2> QED
      BY <1>1, <2>1, <2>2, <2>3
  <1> QED
    BY <1>2, <1>3, <1>4 DEF RestoreStep

LEMMA RestoreStepTyped ==
    ASSUME RestoreTypeOK, NEW w \in Process, RestoreStep(w)
    PROVE  RestoreTypeOK'
  <1>1. /\ Active(w) /\ RequestOK(req[w])
        /\ req' = [v \in Process |-> req'[v]]
        /\ \A v \in Process \ {w} : req'[v] = req[v]
        /\ UNCHANGED <<index, pc, surplus, crashes, confirmed, errors>>
    BY OwnRequest
  <1>2. StoresOK /\ req[w] # NoRequest /\ req = [v \in Process |-> req[v]]
    BY <1>1 DEF RestoreTypeOK, Active
  <1>3. RequestOK(NoRequest)
    BY DEF RequestOK
  <1>4. staged' \in {staged, Nobody}
    BY DEF RestoreStep, ReadCollection, WriteSafetySnapshot, SkipCollection, FailOnEntry,
           FailOnDocuments, DeleteMany, InsertMany, AfterDuplicate, Complete, Finish
  <1>5. ASSUME StoresOK', RequestOK(req'[w]), files' \in SUBSET Archives
        PROVE  RestoreTypeOK'
    BY <1>1, <1>4, <1>5 DEF RestoreTypeOK
  <1>6. CASE ReadCollection(w)
    <2>1. RequestOK(req'[w])
      BY <1>1, <1>2, <1>6, ReadOK DEF ReadCollection
    <2> QED
      BY <1>2, <1>5, <1>6, <2>1, SameDocs DEF ReadCollection, RestoreTypeOK, bvars
  <1>7. CASE WriteSafetySnapshot(w)
    <2>1. RequestOK(req'[w])
      BY <1>1, <1>2, <1>7, ReplaceOK DEF WriteSafetySnapshot
    <2>2. req[w].taken \in Archives
      BY <1>1, <1>2, <1>7 DEF WriteSafetySnapshot, RequestOK
    <2>3. files' \in SUBSET Archives
      BY <1>7, <2>2 DEF WriteSafetySnapshot, RestoreTypeOK
    <2> QED
      BY <1>2, <1>5, <1>7, <2>1, <2>3, SameDocs DEF WriteSafetySnapshot, bvars
  <1>8. ASSUME NEW c \in Kept, SkipCollection(w, c) PROVE RestoreTypeOK'
    <2>1. req[w].left \ {c} \in SUBSET Kept
      BY <1>1, <1>2 DEF RequestOK
    <2>2. RequestOK(req'[w])
      BY <1>1, <1>2, <1>8, <2>1, ReplaceOK DEF SkipCollection
    <2> QED
      BY <1>2, <1>5, <1>8, <2>2, SameDocs DEF SkipCollection, RestoreTypeOK, bvars
  <1>9. ASSUME NEW c \in Kept, FailOnEntry(w, c) PROVE RestoreTypeOK'
    BY <1>2, <1>3, <1>5, <1>9, SameDocs DEF FailOnEntry, Finish, RestoreTypeOK, bvars
  <1>10. ASSUME NEW c \in Kept, FailOnDocuments(w, c) PROVE RestoreTypeOK'
    <2>1. StoresOK' /\ UNCHANGED files /\ req'[w] = NoRequest
      BY <1>2, <1>10, SetToNothing DEF FailOnDocuments, Finish
    <2> QED
      BY <1>3, <1>5, <2>1 DEF RestoreTypeOK
  <1>11. ASSUME NEW c \in Kept, DeleteMany(w, c) PROVE RestoreTypeOK'
    <2>1. RequestOK(req'[w])
      BY <1>1, <1>2, <1>11, StartInsertOK DEF DeleteMany, AtCollection
    <2> QED
      BY <1>2, <1>5, <1>11, <2>1, SetToNothing DEF DeleteMany, RestoreTypeOK
  <1>12. CASE InsertMany(w)
    <2>1. req[w].phase = "insert" /\ UNCHANGED files
      BY <1>12, InsertCases
    <2>2. CASE InsertEnds(w)
      <3>1. req[w].left \ {First(req[w].left)} \in SUBSET Kept
        BY <1>1, <1>2 DEF RequestOK
      <3>2. RequestOK(req'[w])
        BY <1>1, <1>2, <2>2, <3>1, ReplaceOK DEF InsertEnds
      <3> QED
        BY <1>2, <1>5, <2>1, <2>2, <3>2, SameDocs DEF InsertEnds, RestoreTypeOK, bvars
    <2>3. ASSUME NEW id, InsertFails(w, id) PROVE RestoreTypeOK'
      BY <1>2, <1>3, <1>5, <2>1, <2>3, SameDocs DEF InsertFails, RestoreTypeOK, bvars
    <2>4. ASSUME NEW id \in DOMAIN req[w].todo, InsertsOne(w, id) PROVE RestoreTypeOK'
      <3>1. /\ First(req[w].left) \in Kept /\ id \in UserId
            /\ req[w].todo[id] \in Held(First(req[w].left))
            /\ RequestOK(Inserting(req[w].data, req[w].fromStage, req[w].left,
                                   Without(req[w].todo, id)))
        BY <1>1, <2>1, InsertIsOK
      <3>2. RequestOK(req'[w])
        BY <1>2, <2>4, <3>1 DEF InsertsOne
      <3>3. StoresOK'
        BY <1>2, <2>4, <3>1, SetOneMore DEF InsertsOne
      <3> QED
        BY <1>5, <2>1, <3>2, <3>3 DEF RestoreTypeOK
    <2> QED
      BY <1>12, <2>2, <2>3, <2>4, InsertCases
  <1>13. CASE Complete(w)
    BY <1>2, <1>3, <1>5, <1>13, SameDocs DEF Complete, Finish, RestoreTypeOK, bvars
  <1> QED
    BY <1>6, <1>7, <1>8, <1>9, <1>11, <1>12, <1>13, <1>10 DEF RestoreStep

LEMMA ConfirmIs ==
    ASSUME RestoreTypeOK, NEW w \in Process, Confirm(w)
    PROVE  /\ req[w] = NoRequest /\ pc[w] = "up"
           /\ UNCHANGED <<bvars, db, staged, files, unsaved, errors>>
           /\ \E data \in Archives, fromStage \in BOOLEAN :
                /\ req' = [req EXCEPT ![w] = Started(data, fromStage)]
                /\ confirmed' = Append(confirmed, data)
  <1>1. staged \in Archives \cup {Nobody} /\ files \in SUBSET Archives
    BY DEF RestoreTypeOK
  <1>2. PICK fromStage \in BOOLEAN :
            \E data \in IF fromStage THEN {staged} \ {Nobody} ELSE files :
                /\ req' = [req EXCEPT ![w] = Started(data, fromStage)]
                /\ confirmed' = Append(confirmed, data)
    BY DEF Confirm
  <1>3. PICK data \in IF fromStage THEN {staged} \ {Nobody} ELSE files :
            /\ req' = [req EXCEPT ![w] = Started(data, fromStage)]
            /\ confirmed' = Append(confirmed, data)
    BY <1>2
  <1>4. data \in Archives
    BY <1>1
  <1> QED
    BY <1>3, <1>4 DEF Confirm

LEMMA RestoreNextTyped ==
    ASSUME RestoreTypeOK, [RestoreNext]_rvars
    PROVE  RestoreTypeOK'
  <1>1. /\ req = [v \in Process |-> req[v]] /\ \A v \in Process : RequestOK(req[v])
        /\ StoresOK /\ BootTyped /\ confirmed \in Seq(Archives)
    BY DEF RestoreTypeOK, BootTyped
  <1>2. CASE UNCHANGED rvars
    <2>1. UNCHANGED <<users, db, pc, surplus, crashes, staged, files, req, confirmed, errors>>
      BY <1>2 DEF rvars, bvars, rhistory
    <2>2. StoresOK'
      BY <1>1, <2>1, SameDocs
    <2> QED
      BY <2>1, <2>2 DEF RestoreTypeOK
  <1>3. ASSUME NEW archive \in Archive, Upload(archive) PROVE RestoreTypeOK'
    <2>1. /\ UNCHANGED <<users, db, pc, surplus, crashes, files, req, confirmed, errors>>
          /\ staged' = archive
      BY <1>3 DEF Upload, bvars, rhistory
    <2>2. StoresOK' /\ archive \in Archives
      BY <1>1, <2>1, SameDocs, RestoreAssumption
    <2> QED
      BY <2>1, <2>2 DEF RestoreTypeOK
  <1>4. ASSUME NEW w \in Process, Confirm(w) PROVE RestoreTypeOK'
    <2>1. UNCHANGED <<users, db, pc, surplus, crashes, staged, files, errors>>
      BY <1>4 DEF Confirm, bvars
    <2>2. StoresOK'
      BY <1>1, <2>1, SameDocs
    <2>3. PICK data \in Archives, fromStage \in BOOLEAN :
              /\ req' = [req EXCEPT ![w] = Started(data, fromStage)]
              /\ confirmed' = Append(confirmed, data)
      BY <1>4, ConfirmIs
    <2>4. RequestOK(Started(data, fromStage))
      BY StartedOK
    <2>5. confirmed' \in Seq(Archives)
      BY <1>1, <2>3
    <2>6. req' = [v \in Process |-> req'[v]] /\ \A v \in Process : RequestOK(req'[v])
      BY <1>1, <2>3, <2>4
    <2> QED
      BY <2>1, <2>2, <2>5, <2>6 DEF RestoreTypeOK
  <1>5. ASSUME NEW w \in Process, BootWorker(w) \/ KillWorker(w) PROVE RestoreTypeOK'
    <2>1. (Boot(w) \/ Crash(w)) /\ UNCHANGED <<db, staged, files, confirmed, errors>>
      BY <1>5 DEF BootWorker, KillWorker, rhistory
    <2>2. req' \in {req, [req EXCEPT ![w] = NoRequest]}
      BY <1>5 DEF BootWorker, KillWorker
    <2>3. req' = [v \in Process |-> req'[v]] /\ \A v \in Process : RequestOK(req'[v])
      BY <1>1, <2>2 DEF RequestOK
    <2>4. StoresOK' /\ BootTyped'
      BY <1>1, <2>1, BootTypes
    <2> QED
      BY <2>1, <2>3, <2>4 DEF RestoreTypeOK, BootTyped
  <1>6. ASSUME NEW w \in Process, DatabaseFails(w) PROVE RestoreTypeOK'
    <2>1. /\ UNCHANGED <<users, db, pc, surplus, crashes, files, confirmed>>
          /\ req' = [req EXCEPT ![w] = NoRequest] /\ staged' \in {staged, Nobody}
          /\ errors' = errors + 1
      BY <1>6 DEF DatabaseFails, Finish, bvars
    <2>2. StoresOK' /\ errors' \in Nat
      BY <1>1, <2>1, SameDocs DEF RestoreTypeOK
    <2>3. req' = [v \in Process |-> req'[v]] /\ \A v \in Process : RequestOK(req'[v])
      BY <1>1, <2>1 DEF RequestOK
    <2> QED
      BY <2>1, <2>2, <2>3 DEF RestoreTypeOK
  <1> QED
    BY <1>2, <1>3, <1>4, <1>5, <1>6, RestoreStepTyped DEF RestoreNext

LEMMA RestoreTyped == RestoreSpec => []RestoreTypeOK
  BY RestoreInitTyped, RestoreNextTyped, PTL DEF RestoreSpec

-----------------------------------------------------------------------------
(* The database before the first restore. *)

\* With the users of a running installation no boot writes anything.
Calm ==
    /\ index /\ Docs("users") = Original["users"]
    /\ \A w \in Process : pc[w] # "insert" /\ surplus[w] = {}

LEMMA CalmUsers ==
    ASSUME StoresOK, Calm
    PROVE  LiveUsers # {} /\ Duplicates = {}
  <1>1. users \in [UserId -> Held("users") \cup {Nobody}] /\ Stored("users") = users
    BY DEF StoresOK, Held, Stored
  <1>2. Present(users) = Original["users"]
    BY <1>1 DEF Calm, Docs
  <1>3. /\ \A id \in UserId : id \in DOMAIN Original["users"] <=> id \in LiveUsers
        /\ \A id \in LiveUsers : Original["users"][id] = users[id]
    BY <1>1, <1>2, PresentIs DEF LiveUsers
  <1>4. DOMAIN Original["users"] \subseteq UserId
    BY RestoreAssumption, DocumentsAre
  <1>5. LiveUsers # {}
    BY <1>3, <1>4, RestoreAssumption
  <1>6. \A i, j \in LiveUsers : users[i] = users[j] => i = j
    BY <1>3, RestoreAssumption DEF NamesUnique, LiveUsers
  <1>7. \A i \in LiveUsers : i \in Nat
    BY BootAssumption DEF LiveUsers
  <1> QED
    BY <1>5, <1>6, <1>7 DEF Duplicates

LEMMA CalmBoot ==
    ASSUME StoresOK, BootTyped, Calm, NEW p \in Process, Boot(p) \/ Crash(p), UNCHANGED db
    PROVE  Calm' /\ UNCHANGED users
  <1>1. LiveUsers # {} /\ Duplicates = {}
    BY CalmUsers
  <1>2. UNCHANGED users /\ index' = TRUE /\ \A w \in Process : pc'[w] # "insert" /\ surplus'[w] = {}
    <2> USE DEF Calm, BootTyped, Goto
    <2>1. CASE Start(p)
      BY <2>1 DEF Start
    <2>2. CASE Aggregate(p)
      BY <1>1, <2>2 DEF Aggregate
    <2>3. CASE DeleteSurplus(p)
      BY <2>3 DEF DeleteSurplus
    <2>4. CASE CreateIndex(p)
      BY <2>4 DEF CreateIndex
    <2>5. CASE Count(p)
      BY <1>1, <2>5 DEF Count
    <2>6. CASE InsertAdmin(p)
      BY <2>6 DEF InsertAdmin
    <2>7. CASE Crash(p)
      BY <2>7 DEF Crash
    <2> QED
      BY <2>1, <2>2, <2>3, <2>4, <2>5, <2>6, <2>7 DEF Boot
  <1>3. Docs("users")' = Docs("users")
    BY <1>2, SameDocs, RestoreAssumption
  <1> QED
    BY <1>2, <1>3 DEF Calm

\* Every request is still reading for its safety snapshot, and has read the original.
ReadsOriginal(r) ==
    r.phase = "snapshot" /\ r.taken = [c \in Kept \ r.left |-> Original[c]]

Pristine ==
    Original \notin files /\ ~unsaved =>
        /\ Calm
        /\ \A c \in Kept : Docs(c) = Original[c]
        /\ \A w \in Process : Active(w) => ReadsOriginal(req[w])

LEMMA CalmInit == ASSUME RestoreInit PROVE Calm /\ Quiet
  <1>1. Docs("users") = Original["users"]
    BY RestoreInitTyped, RestoreAssumption
  <1> QED
    BY <1>1 DEF RestoreInit, Calm, Quiet

LEMMA PristineRead ==
    ASSUME RestoreTypeOK, Pristine, NEW w \in Process, ReadCollection(w)
    PROVE  Pristine'
  <1> SUFFICES ASSUME Original \notin files', ~unsaved' PROVE Pristine'
    BY DEF Pristine
  <1>1. UNCHANGED <<users, db, index, pc, surplus, files, unsaved>>
    BY DEF ReadCollection, bvars, rhistory
  <1>2. /\ Calm /\ \A c \in Kept : Docs(c) = Original[c]
        /\ \A v \in Process : Active(v) => ReadsOriginal(req[v])
    BY <1>1 DEF Pristine
  <1>3. /\ \A c \in Kept : Docs(c)' = Original[c]
        /\ Calm'
    BY <1>1, <1>2, SameDocs, RestoreAssumption DEF Calm
  <1>4. /\ Active(w) /\ req' = [v \in Process |-> req'[v]]
        /\ \A v \in Process \ {w} : req'[v] = req[v]
    BY OwnRequest DEF RestoreStep
  <1> DEFINE r == req[w]
             c == First(req[w].left)
  <1>5. /\ req'[w] = Snapshotting(r.data, r.fromStage, r.left \ {c}, With(r.taken, c, Docs(c)))
        /\ r.left # {} /\ r.phase = "snapshot" /\ r.left \in SUBSET Kept
    BY <1>4 DEF ReadCollection, RestoreTypeOK, RequestOK, Active
  <1>6. c \in r.left /\ c \in Kept
    BY <1>5, FirstIs
  <1>7. r.taken = [b \in Kept \ r.left |-> Original[b]] /\ Docs(c) = Original[c]
    BY <1>2, <1>4, <1>6 DEF ReadsOriginal
  <1>8. (Kept \ r.left) \cup {c} = Kept \ (r.left \ {c})
    BY <1>6
  <1>9. With(r.taken, c, Docs(c)) = [b \in Kept \ (r.left \ {c}) |-> Original[b]]
    BY <1>7, <1>8 DEF With
  <1>10. ReadsOriginal(req'[w])
    BY <1>5, <1>9 DEF ReadsOriginal, Snapshotting
  <1> QED
    BY <1>2, <1>3, <1>4, <1>10 DEF Pristine, Active

LEMMA PristineWrite ==
    ASSUME RestoreTypeOK, Pristine, NEW w \in Process, RestoreStep(w), ~ReadCollection(w)
    PROVE  Pristine'
  <1> SUFFICES ASSUME Original \notin files', ~unsaved' PROVE FALSE
    BY DEF Pristine
  <1>1. Active(w) /\ RequestOK(req[w])
    BY OwnRequest
  <1>2. Original \notin files /\ ~unsaved
    <2>1. CASE WriteSafetySnapshot(w)
      <3>1. files \subseteq files' /\ (unsaved' = TRUE \/ UNCHANGED unsaved)
        BY <2>1 DEF WriteSafetySnapshot
      <3> QED
        BY <3>1
    <2>2. CASE ~WriteSafetySnapshot(w)
      <3>1. UNCHANGED <<files, unsaved>>
        BY <2>2, InsertCases DEF RestoreStep, ReadCollection, SkipCollection, FailOnEntry,
               FailOnDocuments, DeleteMany, Complete, rhistory
      <3> QED
        BY <3>1
    <2> QED
      BY <2>1, <2>2
  <1>3. req[w].phase = "snapshot" /\ req[w].taken = [c \in Kept \ req[w].left |-> Original[c]]
    BY <1>1, <1>2 DEF Pristine, ReadsOriginal
  <1>4. WriteSafetySnapshot(w)
    BY <1>3 DEF RestoreStep, SkipCollection, FailOnEntry, FailOnDocuments, DeleteMany,
           AtCollection, InsertMany, Complete
  <1>5. req[w].taken = [c \in Kept |-> Original[c]]
    BY <1>3, <1>4 DEF WriteSafetySnapshot
  <1>6. Original = [c \in Kept |-> Original[c]]
    BY RestoreAssumption, ArchivesAre
  <1> QED
    BY <1>4, <1>5, <1>6 DEF WriteSafetySnapshot

LEMMA PristineNext ==
    ASSUME RestoreTypeOK, Pristine, [RestoreNext]_rvars
    PROVE  Pristine'
  <1>1. /\ req = [v \in Process |-> req[v]] /\ StoresOK /\ BootTyped
    BY DEF RestoreTypeOK, BootTyped
  <1>2. ASSUME UNCHANGED <<files, unsaved, db>>,
               Calm => Calm' /\ UNCHANGED users,
               \A w \in Process : req'[w] \in {req[w], NoRequest}
                                  \/ (req'[w].phase = "snapshot" /\ req'[w].left = Kept
                                      /\ req'[w].taken = Nothing)
        PROVE  Pristine'
    <2> SUFFICES ASSUME Original \notin files', ~unsaved' PROVE Pristine'
      BY DEF Pristine
    <2>1. /\ Calm /\ \A c \in Kept : Docs(c) = Original[c]
          /\ \A w \in Process : Active(w) => ReadsOriginal(req[w])
      BY <1>2 DEF Pristine
    <2>2. Calm' /\ \A c \in Kept : Docs(c)' = Original[c]
      BY <1>2, <2>1, SameDocs
    <2>3. Nothing = [c \in Kept \ Kept |-> Original[c]]
      BY DEF Nothing
    <2>4. \A w \in Process : Active(w)' => ReadsOriginal(req'[w])
      BY <1>2, <2>1, <2>3 DEF Active, ReadsOriginal
    <2> QED
      BY <2>2, <2>4 DEF Pristine
  <1>3. ASSUME UNCHANGED bvars, UNCHANGED db PROVE Calm => Calm' /\ UNCHANGED users
    BY <1>3, SameDocs, RestoreAssumption DEF bvars, Calm
  <1>4. CASE UNCHANGED rvars
    BY <1>2, <1>3, <1>4 DEF rvars, rhistory
  <1>5. ASSUME NEW archive \in Archive, Upload(archive) PROVE Pristine'
    BY <1>2, <1>3, <1>5 DEF Upload, rhistory
  <1>6. ASSUME NEW w \in Process, Confirm(w) PROVE Pristine'
    <2>1. PICK data \in Archives, fromStage \in BOOLEAN :
              req' = [req EXCEPT ![w] = Started(data, fromStage)]
      BY <1>6, ConfirmIs
    <2>2. /\ req'[w].phase = "snapshot" /\ req'[w].left = Kept /\ req'[w].taken = Nothing
          /\ \A v \in Process \ {w} : req'[v] = req[v]
      BY <1>1, <2>1 DEF Started, Snapshotting
    <2> QED
      BY <1>2, <1>3, <1>6, <2>2 DEF Confirm
  <1>7. ASSUME NEW w \in Process, BootWorker(w) \/ KillWorker(w) PROVE Pristine'
    <2>1. (Boot(w) \/ Crash(w)) /\ UNCHANGED <<db, files, unsaved>>
          /\ req' \in {req, [req EXCEPT ![w] = NoRequest]}
      BY <1>7 DEF BootWorker, KillWorker, rhistory
    <2>2. \A v \in Process : req'[v] \in {req[v], NoRequest}
      BY <1>1, <2>1
    <2> QED
      BY <1>1, <1>2, <2>1, <2>2, CalmBoot
  <1>8. ASSUME NEW w \in Process, DatabaseFails(w) PROVE Pristine'
    <2>1. UNCHANGED <<bvars, db, files, unsaved>> /\ req' = [req EXCEPT ![w] = NoRequest]
      BY <1>8 DEF DatabaseFails, Finish
    <2>2. \A v \in Process : req'[v] \in {req[v], NoRequest}
      BY <1>1, <2>1
    <2> QED
      BY <1>2, <1>3, <2>1, <2>2
  <1> QED
    BY <1>4, <1>5, <1>6, <1>7, <1>8, PristineRead, PristineWrite DEF RestoreNext

\* However restores, kills and boots overlap, the database as it was before the first
\* restore is in a snapshot before anything is replaced, or its file could not be written.
THEOREM OriginalAlwaysKept == RestoreSpec => []OriginalKept
  <1>1. RestoreInit => Pristine
    BY RestoreInitTyped, CalmInit DEF Pristine, Quiet, Active
  <1>2. Pristine => OriginalKept
    <2> SUFFICES ASSUME Pristine, Original \notin files, ~unsaved
                 PROVE  Contents = Original
      BY DEF OriginalKept
    <2>1. Contents = [c \in Kept |-> Original[c]]
      BY DEF Pristine, Contents
    <2>2. Original = [c \in Kept |-> Original[c]]
      BY RestoreAssumption, ArchivesAre
    <2> QED
      BY <2>1, <2>2
  <1> QED
    BY <1>1, <1>2, PristineNext, RestoreTyped, PTL DEF RestoreSpec

-----------------------------------------------------------------------------
(* The only restore there has been. *)

Others == Kept \ {"users"}

Replaced(data, c) == Docs(c) = IF c \in DOMAIN data THEN data[c] ELSE Original[c]

HalfInserted(r, c) == Docs(c) = [id \in DOMAIN r.data[c] \ DOMAIN r.todo |-> r.data[c][id]]

\* What a restore has got done, collection by collection.
Progress(r) ==
    \A c \in Others :
        /\ r.phase = "snapshot" => Docs(c) = Original[c]
        /\ r.phase # "snapshot" /\ c \notin r.left => Replaced(r.data, c)
        /\ r.phase = "replace" /\ c \in r.left => Docs(c) = Original[c]
        /\ r.phase = "insert" /\ c \in r.left =>
              IF c = First(r.left) THEN HalfInserted(r, c) ELSE Docs(c) = Original[c]

\* Either the users are as they were, or all the others are replaced.
UsersAtLast(r) == r.phase # "snapshot" /\ r.left \subseteq {"users"}

NoneSoFar ==
    Len(confirmed) = 0 => Calm /\ (\A c \in Kept : Docs(c) = Original[c]) /\ Quiet

OneRestore ==
    Len(confirmed) = 1 =>
        /\ \A v, w \in Process : Active(v) /\ Active(w) => v = w
        /\ \A w \in Process : Active(w) => req[w].data = confirmed[1] /\ Progress(req[w])
        /\ \/ Calm
           \/ /\ \A c \in Others : Replaced(confirmed[1], c)
              /\ \A w \in Process : Active(w) => UsersAtLast(req[w])

\* A step that leaves the documents alone leaves what is said of them.
LEMMA SameProgress ==
    ASSUME UNCHANGED <<users, db>>
    PROVE  /\ \A data : \A c \in Others : Replaced(data, c)' <=> Replaced(data, c)
           /\ \A r : \A c \in Others : HalfInserted(r, c)' <=> HalfInserted(r, c)
           /\ \A c \in Others : Docs(c)' = Docs(c)
           /\ UNCHANGED <<index, pc, surplus>> /\ Calm => Calm'
  <1>1. \A c \in Kept : Docs(c)' = Docs(c)
    BY SameDocs
  <1> QED
    BY <1>1, RestoreAssumption DEF Others, Replaced, HalfInserted, Calm

\* One step of the only restore, from r to its next stage.
LEMMA ReadProgress ==
    ASSUME RestoreTypeOK, NEW w \in Process, Active(w), Progress(req[w]), Calm,
           ReadCollection(w) \/ WriteSafetySnapshot(w)
    PROVE  /\ req'[w].data = req[w].data /\ Progress(req[w])'
           /\ Calm'
  <1>1. /\ req = [v \in Process |-> req[v]]
        /\ UNCHANGED <<users, db, index, pc, surplus>> /\ req[w].phase = "snapshot"
    BY DEF RestoreTypeOK, ReadCollection, WriteSafetySnapshot, bvars
  <1>2. \A c \in Others : Docs(c)' = Original[c]
    BY <1>1, SameProgress DEF Progress
  <1>3. \/ req'[w].phase = "snapshot" /\ req'[w].data = req[w].data
        \/ req'[w].phase = "replace" /\ req'[w].data = req[w].data /\ req'[w].left = Kept
    BY <1>1 DEF ReadCollection, WriteSafetySnapshot, Snapshotting, Replacing
  <1>4. Progress(req[w])'
    BY <1>2, <1>3 DEF Progress, Others
  <1> QED
    BY <1>1, <1>3, <1>4, SameProgress

LEMMA SkipProgress ==
    ASSUME RestoreTypeOK, NEW w \in Process, Active(w), Progress(req[w]),
           NEW c \in Kept, SkipCollection(w, c)
    PROVE  /\ req'[w].data = req[w].data /\ Progress(req[w])'
           /\ req'[w].phase = "replace" /\ req'[w].left \subseteq req[w].left
           /\ UNCHANGED <<users, db, index, pc, surplus>>
  <1>1. /\ req = [v \in Process |-> req[v]] /\ req[w].left \in SUBSET Kept
        /\ UNCHANGED <<users, db, index, pc, surplus>> /\ req[w].phase = "replace"
        /\ c = First(req[w].left) /\ req[w].left # {} /\ c \notin DOMAIN req[w].data
    BY DEF RestoreTypeOK, RequestOK, Active, SkipCollection, AtCollection, bvars
  <1>2. /\ req'[w].phase = "replace" /\ req'[w].data = req[w].data
        /\ req'[w].left = req[w].left \ {c}
    BY <1>1 DEF SkipCollection, Replacing
  <1>3. c \in req[w].left
    BY <1>1, FirstIs
  <1>4. ASSUME NEW b \in Others
        PROVE  /\ b \in req'[w].left => Docs(b)' = Original[b]
               /\ b \notin req'[w].left => Replaced(req[w].data, b)'
    <2>1. Docs(b)' = Docs(b)
      BY <1>1, SameProgress
    <2>2. b \in req[w].left => Docs(b) = Original[b]
      BY <1>1 DEF Progress
    <2>3. b \notin req[w].left => Replaced(req[w].data, b)
      BY <1>1 DEF Progress
    <2> QED
      BY <1>1, <1>2, <1>3, <2>1, <2>2, <2>3 DEF Replaced
  <1>5. Progress(req[w])'
    BY <1>2, <1>4 DEF Progress
  <1> QED
    BY <1>1, <1>2, <1>5

LEMMA DeleteProgress ==
    ASSUME RestoreTypeOK, NEW w \in Process, Active(w), Progress(req[w]),
           NEW c \in Kept, DeleteMany(w, c)
    PROVE  /\ req'[w].data = req[w].data /\ Progress(req[w])'
           /\ req'[w].phase = "insert" /\ req'[w].left = req[w].left
           /\ c = First(req[w].left) /\ c \in req[w].left
           /\ \A b \in Kept \ {c} : Docs(b)' = Docs(b)
           /\ UNCHANGED <<index, pc, surplus>>
  <1>1. /\ req = [v \in Process |-> req[v]] /\ req[w].left \in SUBSET Kept /\ StoresOK
        /\ req[w].phase = "replace" /\ SetCollection(c, Filled(Nothing))
        /\ c = First(req[w].left) /\ req[w].left # {} /\ c \in DOMAIN req[w].data
    BY DEF RestoreTypeOK, RequestOK, Active, DeleteMany, AtCollection
  <1>2. /\ req'[w].phase = "insert" /\ req'[w].data = req[w].data
        /\ req'[w].left = req[w].left /\ req'[w].todo = req[w].data[c]
    BY <1>1 DEF DeleteMany, Inserting
  <1>3. c \in req[w].left
    BY <1>1, FirstIs
  <1>4. /\ Docs(c)' = Nothing
        /\ \A b \in Kept \ {c} : Docs(b)' = Docs(b)
        /\ UNCHANGED <<index, pc, surplus>>
    BY <1>1, SetToNothing
  <1>5. HalfInserted(req[w], c)'
    BY <1>2, <1>4 DEF HalfInserted, Nothing
  <1>6. ASSUME NEW b \in Others, b # c
        PROVE  /\ b \in req'[w].left => Docs(b)' = Original[b]
               /\ b \notin req'[w].left => Replaced(req[w].data, b)'
    <2>1. Docs(b)' = Docs(b)
      BY <1>4, <1>6 DEF Others
    <2>2. b \in req[w].left => Docs(b) = Original[b]
      BY <1>1 DEF Progress
    <2>3. b \notin req[w].left => Replaced(req[w].data, b)
      BY <1>1 DEF Progress
    <2> QED
      BY <1>2, <2>1, <2>2, <2>3 DEF Replaced
  <1>7. Progress(req[w])'
    BY <1>1, <1>2, <1>3, <1>5, <1>6 DEF Progress
  <1> QED
    BY <1>1, <1>2, <1>3, <1>4, <1>7

LEMMA EndProgress ==
    ASSUME RestoreTypeOK, NEW w \in Process, Active(w), Progress(req[w]),
           InsertEnds(w), req[w].phase = "insert"
    PROVE  /\ req'[w].data = req[w].data /\ Progress(req[w])'
           /\ req'[w].phase = "replace" /\ req'[w].left \subseteq req[w].left
           /\ UNCHANGED <<users, db, index, pc, surplus>>
  <1> DEFINE c == First(req[w].left)
  <1>1. /\ req = [v \in Process |-> req[v]] /\ req[w].left \in SUBSET Kept /\ req[w].left # {}
        /\ c \in DOMAIN req[w].data /\ req[w].data[c] \in Documents(c)
        /\ DOMAIN req[w].todo = {}
        /\ UNCHANGED <<users, db, index, pc, surplus>>
    BY DEF RestoreTypeOK, RequestOK, Active, InsertEnds, bvars
  <1>2. /\ req'[w].phase = "replace" /\ req'[w].data = req[w].data
        /\ req'[w].left = req[w].left \ {c}
    BY <1>1 DEF InsertEnds, Replacing
  <1>3. c \in req[w].left
    BY <1>1, FirstIs
  <1>4. HalfInserted(req[w], c) => Docs(c) = req[w].data[c]
    BY <1>1, DocumentsAre DEF HalfInserted
  <1>5. ASSUME NEW b \in Others
        PROVE  /\ b \in req'[w].left => Docs(b)' = Original[b]
               /\ b \notin req'[w].left => Replaced(req[w].data, b)'
    <2>1. Docs(b)' = Docs(b)
      BY <1>1, SameProgress
    <2>2. b \in req[w].left /\ b # c => Docs(b) = Original[b]
      BY DEF Progress
    <2>3. b \notin req[w].left => Replaced(req[w].data, b)
      BY DEF Progress
    <2>4. b = c => Replaced(req[w].data, b)
      BY <1>1, <1>3, <1>4 DEF Progress, Replaced
    <2> QED
      BY <1>2, <2>1, <2>2, <2>3, <2>4 DEF Replaced
  <1>6. Progress(req[w])'
    BY <1>2, <1>5 DEF Progress
  <1> QED
    BY <1>1, <1>2, <1>6

LEMMA InsertProgress ==
    ASSUME RestoreTypeOK, NEW w \in Process, Active(w), Progress(req[w]),
           NEW id \in DOMAIN req[w].todo, InsertsOne(w, id), req[w].phase = "insert"
    PROVE  /\ req'[w].data = req[w].data /\ Progress(req[w])'
           /\ req'[w].phase = "insert" /\ req'[w].left = req[w].left
           /\ First(req[w].left) \in req[w].left
           /\ \A b \in Kept \ {First(req[w].left)} : Docs(b)' = Docs(b)
           /\ UNCHANGED <<index, pc, surplus>>
  <1>1. First(req[w].left) \in Kept
    BY InsertIsOK DEF RestoreTypeOK
  <1>2. PICK c \in Kept : c = First(req[w].left)
    BY <1>1
  <1>3. /\ req = [v \in Process |-> req[v]] /\ req[w].left \in SUBSET Kept /\ req[w].left # {}
        /\ RequestOK(req[w]) /\ StoresOK
        /\ DOMAIN req[w].todo \subseteq DOMAIN req[w].data[c]
        /\ \A i \in DOMAIN req[w].todo : req[w].todo[i] = req[w].data[c][i]
    BY <1>2 DEF RestoreTypeOK, RequestOK, Active
  <1>4. /\ req'[w].phase = "insert" /\ req'[w].data = req[w].data
        /\ req'[w].left = req[w].left /\ req'[w].todo = Without(req[w].todo, id)
    BY <1>3 DEF InsertsOne, Inserting
  <1>5. c \in req[w].left
    BY <1>3, <1>2, FirstIs
  <1>6. c \in Kept /\ id \in UserId /\ req[w].todo[id] \in Held(c)
    BY <1>3, <1>2, InsertIsOK
  <1>7. /\ Docs(c)' = With(Docs(c), id, req[w].todo[id])
        /\ \A b \in Kept \ {c} : Docs(b)' = Docs(b)
        /\ UNCHANGED <<index, pc, surplus>>
    BY <1>3, <1>6, <1>2, SetOneMore DEF InsertsOne
  <1>8. HalfInserted(req[w], c) => HalfInserted(req[w], c)'
    <2> SUFFICES ASSUME HalfInserted(req[w], c) PROVE HalfInserted(req[w], c)'
      OBVIOUS
    <2>1. DOMAIN Without(req[w].todo, id) = DOMAIN req[w].todo \ {id}
      BY DEF Without
    <2>2. DOMAIN Docs(c) = DOMAIN req[w].data[c] \ DOMAIN req[w].todo
      BY DEF HalfInserted
    <2>3. DOMAIN Docs(c) \cup {id} = DOMAIN req[w].data[c] \ DOMAIN req'[w].todo
      BY <1>3, <1>4, <2>1, <2>2
    <2>4. \A i \in DOMAIN Docs(c) : Docs(c)[i] = req[w].data[c][i]
      BY DEF HalfInserted
    <2>5. Docs(c)' = [i \in DOMAIN Docs(c) \cup {id} |-> req[w].data[c][i]]
      BY <1>3, <1>7, <2>4 DEF With
    <2> QED
      BY <1>4, <2>3, <2>5 DEF HalfInserted
  <1>9. ASSUME NEW b \in Others, b # c
        PROVE  /\ b \in req'[w].left => Docs(b)' = Original[b]
               /\ b \notin req'[w].left => Replaced(req[w].data, b)'
    <2>1. Docs(b)' = Docs(b)
      BY <1>7, <1>9 DEF Others
    <2>2. b \in req[w].left => Docs(b) = Original[b]
      BY <1>9, <1>2 DEF Progress
    <2>3. b \notin req[w].left => Replaced(req[w].data, b)
      BY DEF Progress
    <2> QED
      BY <1>4, <2>1, <2>2, <2>3 DEF Replaced
  <1>10. Progress(req[w])'
    BY <1>4, <1>5, <1>8, <1>9, <1>2 DEF Progress
  <1> QED
    BY <1>4, <1>5, <1>7, <1>10, <1>2

Settled(data) == \A c \in Others : Replaced(data, c)

\* How the only restore goes on: its users are untouched, or all the rest is done.
LEMMA OneRestoreStep ==
    ASSUME RestoreTypeOK, NEW w \in Process, RestoreStep(w), Progress(req[w]),
           NEW data, data = req[w].data,
           Calm \/ (Settled(data) /\ UsersAtLast(req[w]))
    PROVE  /\ Active(w)' => req'[w].data = data /\ Progress(req[w])'
           /\ Calm' \/ (Settled(data)' /\ (Active(w)' => UsersAtLast(req'[w])))
  <1>1. /\ Active(w) /\ req = [v \in Process |-> req[v]]
        /\ req[w].left \in SUBSET Kept
    BY OwnRequest DEF RestoreTypeOK, RequestOK, Active
  <1>2. \A c \in Kept : c # "users" => c \in Others
    BY DEF Others
  <1>3. ASSUME UNCHANGED <<users, db, index, pc, surplus>> PROVE (Calm => Calm') /\ (Settled(data) => Settled(data)')
    BY <1>3, SameProgress DEF Settled
  <1>4. CASE ReadCollection(w) \/ WriteSafetySnapshot(w)
    <2>1. Calm
      BY <1>4 DEF ReadCollection, WriteSafetySnapshot, UsersAtLast
    <2> QED
      BY <1>1, <1>4, <2>1, ReadProgress
  <1>5. ASSUME NEW c \in Kept, SkipCollection(w, c)
        PROVE  /\ req'[w].data = data /\ Progress(req[w])'
               /\ Calm' \/ (Settled(data)' /\ UsersAtLast(req'[w]))
    BY <1>1, <1>3, <1>5, SkipProgress DEF UsersAtLast
  <1>6. CASE \/ (\E c \in Kept : FailOnEntry(w, c)) \/ Complete(w)
             \/ (InsertMany(w) /\ \E id : InsertFails(w, id))
    <2>1. UNCHANGED <<users, db, index, pc, surplus>> /\ ~Active(w)'
      BY <1>1, <1>6 DEF FailOnEntry, Complete, InsertFails, Finish, bvars, Active
    <2> QED
      BY <1>3, <2>1 DEF UsersAtLast
  <1>7. ASSUME NEW c \in Kept, c = First(req[w].left), c \in req[w].left,
               req[w].phase \in {"replace", "insert"},
               \A b \in Kept \ {c} : Docs(b)' = Docs(b), UNCHANGED <<index, pc, surplus>>
        PROVE  Calm' \/ (Settled(data)' /\ req[w].left = {"users"})
    <2>1. CASE c = "users"
      <3>1. req[w].left = {"users"}
        BY <1>1, <1>7, <2>1, UsersLast
      <3>2. \A b \in Others : Replaced(data, b) /\ b \in Kept \ {c}
        BY <1>7, <2>1, <3>1 DEF Progress, Others
      <3>3. \A b \in Others : Replaced(data, b)'
        BY <1>7, <3>2 DEF Replaced
      <3> QED
        BY <3>1, <3>3 DEF Settled
    <2>2. CASE c # "users"
      <3>1. Calm
        BY <1>7, <2>2 DEF UsersAtLast
      <3>2. Docs("users")' = Docs("users")
        BY <1>7, <2>2, RestoreAssumption
      <3> QED
        BY <1>7, <3>1, <3>2 DEF Calm
    <2> QED
      BY <2>1, <2>2
  <1>8. ASSUME NEW c \in Kept, DeleteMany(w, c)
        PROVE  /\ req'[w].data = data /\ Progress(req[w])'
               /\ Calm' \/ (Settled(data)' /\ UsersAtLast(req'[w]))
    <2>1. req[w].phase = "replace"
      BY <1>8 DEF DeleteMany, AtCollection
    <2>2. /\ req'[w].data = data /\ Progress(req[w])'
          /\ req'[w].phase = "insert" /\ req'[w].left = req[w].left
      BY <1>1, <1>8, DeleteProgress
    <2>3. Calm' \/ (Settled(data)' /\ req[w].left = {"users"})
      BY <1>1, <1>7, <1>8, <2>1, DeleteProgress
    <2> QED
      BY <2>2, <2>3 DEF UsersAtLast
  <1>9. ASSUME NEW c \in Kept, FailOnDocuments(w, c)
         PROVE  ~Active(w)' /\ (Calm' \/ Settled(data)')
    <2>1. /\ StoresOK /\ req[w].phase = "replace" /\ c = First(req[w].left) /\ req[w].left # {}
          /\ SetCollection(c, Filled(Nothing)) /\ req' = [req EXCEPT ![w] = NoRequest]
      BY <1>9 DEF RestoreTypeOK, FailOnDocuments, AtCollection, Finish
    <2>2. c \in req[w].left
      BY <1>1, <2>1, FirstIs
    <2>3. (\A b \in Kept \ {c} : Docs(b)' = Docs(b)) /\ UNCHANGED <<index, pc, surplus>>
      BY <2>1, SetToNothing
    <2> QED
      BY <1>1, <1>7, <2>1, <2>2, <2>3 DEF Active
  <1>10. ASSUME InsertEnds(w), req[w].phase = "insert"
         PROVE  /\ req'[w].data = data /\ Progress(req[w])'
                /\ Calm' \/ (Settled(data)' /\ UsersAtLast(req'[w]))
    BY <1>1, <1>3, <1>10, EndProgress DEF UsersAtLast
  <1>11. ASSUME NEW id \in DOMAIN req[w].todo, InsertsOne(w, id), req[w].phase = "insert"
         PROVE  /\ req'[w].data = data /\ Progress(req[w])'
                /\ Calm' \/ (Settled(data)' /\ UsersAtLast(req'[w]))
    <2>1. PICK c : c = First(req[w].left)
      OBVIOUS
    <2>2. /\ req'[w].data = data /\ Progress(req[w])'
          /\ req'[w].phase = "insert" /\ req'[w].left = req[w].left
          /\ c \in req[w].left /\ c \in Kept
      BY <1>1, <1>11, <2>1, InsertProgress
    <2>3. Calm' \/ (Settled(data)' /\ req[w].left = {"users"})
      BY <1>1, <1>7, <1>11, <2>1, <2>2, InsertProgress
    <2> QED
      BY <2>2, <2>3 DEF UsersAtLast
  <1>12. CASE InsertMany(w)
    BY <1>6, <1>10, <1>11, <1>12, InsertCases
  <1> QED
    BY <1>4, <1>5, <1>6, <1>8, <1>12, <1>9 DEF RestoreStep

LEMMA OneRestoreNext ==
    ASSUME RestoreTypeOK, NoneSoFar, OneRestore, [RestoreNext]_rvars
    PROVE  NoneSoFar' /\ OneRestore'
  <1>1. /\ req = [v \in Process |-> req[v]] /\ StoresOK /\ BootTyped
        /\ confirmed \in Seq(Archives) /\ Len(confirmed) \in Nat
    BY DEF RestoreTypeOK, BootTyped
  <1>2. ASSUME UNCHANGED <<confirmed, db>>,
               Calm => Calm' /\ UNCHANGED users,
               \A w \in Process : req'[w] \in {req[w], NoRequest}
        PROVE  NoneSoFar' /\ OneRestore'
    <2>1. \A c \in Others : Docs(c)' = Docs(c)
      BY <1>2 DEF Others, Docs, Stored
    <2>2. NoneSoFar'
      <3> SUFFICES ASSUME Len(confirmed) = 0
                   PROVE  Calm' /\ (\A c \in Kept : Docs(c)' = Original[c]) /\ Quiet'
        BY <1>2 DEF NoneSoFar
      <3>1. Calm /\ Quiet /\ \A c \in Kept : Docs(c) = Original[c]
        BY DEF NoneSoFar
      <3>2. Calm' /\ \A c \in Kept : Docs(c)' = Original[c]
        BY <1>2, <3>1, SameDocs
      <3> QED
        BY <1>2, <3>1, <3>2 DEF Quiet
    <2>3. OneRestore'
      <3> SUFFICES ASSUME Len(confirmed) = 1 PROVE OneRestore'
        BY <1>2 DEF OneRestore
      <3>1. \A v, w \in Process : Active(v)' /\ Active(w)' => v = w
        BY <1>2 DEF OneRestore, Active
      <3>2. ASSUME NEW w \in Process, Active(w)'
            PROVE  req'[w].data = confirmed[1] /\ Progress(req[w])'
        <4>1. req'[w] = req[w] /\ req[w].data = confirmed[1] /\ Progress(req[w])
          BY <1>2, <3>2 DEF OneRestore, Active
        <4>2. \A data : \A c \in Others : Replaced(data, c)' <=> Replaced(data, c)
          BY <2>1 DEF Replaced
        <4>3. \A c \in Others : HalfInserted(req[w], c)' <=> HalfInserted(req[w], c)
          BY <2>1, <4>1 DEF HalfInserted
        <4>4. Progress(req[w])'
          BY <2>1, <4>1, <4>2, <4>3 DEF Progress, HalfInserted, Replaced
        <4> QED
          BY <4>1, <4>4
      <3>3. CASE Calm
        BY <1>2, <3>1, <3>2, <3>3 DEF OneRestore
      <3>4. CASE ~Calm
        <4>1. \A c \in Others : Replaced(confirmed[1], c)
          BY <3>4 DEF OneRestore
        <4>2. \A c \in Others : Replaced(confirmed[1], c)'
          BY <1>2, <2>1, <4>1 DEF Replaced
        <4>3. \A w \in Process : Active(w)' => UsersAtLast(req[w])'
          BY <1>2, <3>4 DEF OneRestore, Active, UsersAtLast
        <4> QED
          BY <1>2, <3>1, <3>2, <4>2, <4>3, Zenon DEF OneRestore
      <3> QED
        BY <3>3, <3>4
    <2> QED
      BY <2>2, <2>3
  <1>3. ASSUME UNCHANGED bvars, UNCHANGED db PROVE Calm => Calm' /\ UNCHANGED users
    BY <1>3, SameProgress DEF bvars
  <1>4. CASE UNCHANGED rvars
    BY <1>2, <1>3, <1>4 DEF rvars, rhistory
  <1>5. ASSUME NEW archive \in Archive, Upload(archive) PROVE NoneSoFar' /\ OneRestore'
    BY <1>2, <1>3, <1>5 DEF Upload, rhistory
  <1>6. ASSUME NEW w \in Process, BootWorker(w) \/ KillWorker(w)
        PROVE  NoneSoFar' /\ OneRestore'
    <2>1. /\ (Boot(w) \/ Crash(w)) /\ UNCHANGED <<db, confirmed>>
          /\ req' \in {req, [req EXCEPT ![w] = NoRequest]}
      BY <1>6 DEF BootWorker, KillWorker, rhistory
    <2>2. \A v \in Process : req'[v] \in {req[v], NoRequest}
      BY <1>1, <2>1
    <2> QED
      BY <1>1, <1>2, <2>1, <2>2, CalmBoot
  <1>7. ASSUME NEW w \in Process, Confirm(w) PROVE NoneSoFar' /\ OneRestore'
    <2>1. PICK data \in Archives, fromStage \in BOOLEAN :
              /\ req' = [req EXCEPT ![w] = Started(data, fromStage)]
              /\ confirmed' = Append(confirmed, data)
      BY <1>7, ConfirmIs
    <2>2. Len(confirmed)' = Len(confirmed) + 1
      BY <1>1, <2>1
    <2>3. Len(confirmed)' # 0 /\ (Len(confirmed)' = 1 => Len(confirmed) = 0)
      BY <1>1, <2>2
    <2>4. NoneSoFar'
      BY <2>3, Zenon DEF NoneSoFar
    <2>5. OneRestore'
      <3> SUFFICES ASSUME Len(confirmed) = 0 PROVE OneRestore'
        BY <2>3, Zenon DEF OneRestore
      <3>1. Calm /\ Quiet /\ \A c \in Kept : Docs(c) = Original[c]
        BY DEF NoneSoFar
      <3>2. /\ \A v \in Process \ {w} : ~Active(v)'
            /\ req'[w].phase = "snapshot" /\ req'[w].data = data
        BY <1>1, <2>1, <3>1 DEF Quiet, Active, Started, Snapshotting
      <3>3. confirmed'[1] = data
        BY <1>1, <2>1
      <3>4. UNCHANGED <<bvars, db>>
        BY <1>7 DEF Confirm
      <3>5. Calm' /\ \A c \in Kept : Docs(c)' = Original[c]
        BY <1>3, <3>1, <3>4, SameDocs DEF bvars
      <3>6. Progress(req[w])'
        BY <3>2, <3>5 DEF Progress, Others
      <3> QED
        BY <3>2, <3>3, <3>5, <3>6 DEF OneRestore
    <2> QED
      BY <2>4, <2>5
  <1>8. ASSUME NEW w \in Process, RestoreStep(w) PROVE NoneSoFar' /\ OneRestore'
    <2>1. /\ Active(w) /\ UNCHANGED confirmed
          /\ \A v \in Process \ {w} : req'[v] = req[v]
      BY <1>8, OwnRequest
    <2>2. NoneSoFar'
      BY <2>1 DEF NoneSoFar, Quiet, Active
    <2>3. OneRestore'
      <3> SUFFICES ASSUME Len(confirmed) = 1 PROVE OneRestore'
        BY <2>1 DEF OneRestore
      <3>1. PICK data : data = confirmed[1]
        OBVIOUS
      <3>2. /\ \A v \in Process \ {w} : ~Active(v)
            /\ req[w].data = data /\ Progress(req[w])
            /\ Calm \/ (Settled(data) /\ UsersAtLast(req[w]))
        BY <2>1, <3>1 DEF OneRestore, Settled
      <3>3. \A v \in Process \ {w} : ~Active(v)'
        BY <2>1, <3>2 DEF Active
      <3>4. /\ Active(w)' => req'[w].data = data /\ Progress(req[w])'
            /\ Calm' \/ (Settled(data)' /\ (Active(w)' => UsersAtLast(req'[w])))
        BY <1>8, <3>2, OneRestoreStep
      <3>5. confirmed'[1] = data
        BY <2>1, <3>1
      <3> QED
        BY <3>3, <3>4, <3>5 DEF OneRestore, Settled
    <2> QED
      BY <2>2, <2>3
  <1>9. ASSUME NEW w \in Process, DatabaseFails(w) PROVE NoneSoFar' /\ OneRestore'
    <2>1. UNCHANGED <<bvars, db, confirmed>> /\ req' = [req EXCEPT ![w] = NoRequest]
      BY <1>9 DEF DatabaseFails, Finish
    <2>2. \A v \in Process : req'[v] \in {req[v], NoRequest}
      BY <1>1, <2>1
    <2> QED
      BY <1>2, <1>3, <2>1, <2>2
  <1> QED
    BY <1>4, <1>5, <1>6, <1>7, <1>8, <1>9 DEF RestoreNext

\* However the only restore of a behaviour goes, and whoever boots meanwhile, users
\* other than the original ones mean that everything else is as the archive has it.
THEOREM CredentialsAlwaysLast == RestoreSpec => []CredentialsLast
  <1>1. RestoreInit => NoneSoFar /\ OneRestore
    <2> SUFFICES ASSUME RestoreInit PROVE NoneSoFar /\ OneRestore
      OBVIOUS
    <2>1. Len(confirmed) = 0
      BY DEF RestoreInit
    <2> QED
      BY <2>1, RestoreInitTyped, CalmInit DEF NoneSoFar, OneRestore
  <1>2. OneRestore => CredentialsLast
    BY DEF OneRestore, CredentialsLast, Calm, Others, Replaced
  <1> QED
    BY <1>1, <1>2, OneRestoreNext, RestoreTyped, PTL DEF RestoreSpec

-----------------------------------------------------------------------------
(* Several restores of the same archive. *)

Before(b, c) == Position(b) < Position(c)

Inserts(w, c) == req[w].phase = "insert" /\ First(req[w].left) = c

WillInsert(w, c, id) == Inserts(w, c) /\ id \in DOMAIN req[w].todo

\* The collections that a request has yet to empty.
Ahead(w) ==
    {c \in Kept : \/ req[w].phase = "snapshot"
                  \/ req[w].phase \in {"replace", "insert"} /\ c \in req[w].left /\ ~Inserts(w, c)}

\* A request has inserted the document, or come by it.
Past(w, c, id) ==
    \/ Inserts(w, c) /\ id \notin DOMAIN req[w].todo
    \/ req[w].phase \in {"replace", "insert"} /\ c \notin req[w].left

\* A collection holds nothing but the archive's; what is missing will be inserted, also
\* by somebody who is past any lesser document that is there.
Done(data, c) ==
    /\ DOMAIN Docs(c) \subseteq DOMAIN data[c]
    /\ \A id \in DOMAIN Docs(c) : Docs(c)[id] = data[c][id]
    /\ \A j \in DOMAIN data[c] \ DOMAIN Docs(c) :
          /\ \E w \in Process : WillInsert(w, c, j)
          /\ \A i \in DOMAIN Docs(c) : i < j =>
                \E w \in Process : WillInsert(w, c, j) /\ ~WillInsert(w, c, i)

\* Whoever meets the document, and fails, leaves the later collections to another.
Followed(data, b) ==
    \A id \in DOMAIN Docs(b), c \in Kept : Before(b, c) =>
        Done(data, c) \/ \E w \in Process : Past(w, b, id) /\ c \in Ahead(w)

\* Requests have their work done from below.
Upwards(r) ==
    /\ r.phase \in {"replace", "insert"} =>
          \A b \in r.left, c \in Kept : Before(b, c) => c \in r.left
    /\ r.phase = "insert" =>
          \A i \in DOMAIN r.todo, j \in DOMAIN r.data[First(r.left)] : i <= j => j \in DOMAIN r.todo

Towards(data) ==
    /\ \A w \in Process : Active(w) => req[w].data = data /\ Upwards(req[w])
    /\ \A c \in Kept : Done(data, c) \/ \E w \in Process : c \in Ahead(w)
    /\ \A w \in Process, b \in Kept : Inserts(w, b) => Done(data, b) /\ Followed(data, b)

Same(data) ==
    /\ crashes = 0 /\ errors = 0 /\ Whole(data) /\ confirmed # <<>>
    /\ \A i \in DOMAIN confirmed : confirmed[i] = data

Converging == \A data \in Archives : Same(data) => Towards(data)

\* A step in which nobody's work on the documents changes.
LEMMA Steady ==
    ASSUME NEW data, Towards(data), NEW w \in Process, UNCHANGED <<users, db>>,
           \A v \in Process \ {w} : req'[v] = req[v],
           Active(w)' => req'[w].data = data /\ Upwards(req'[w]),
           \A c \in Kept : c \in Ahead(w) =>
               /\ c \in Ahead(w)'
               /\ \A b \in Kept, id \in UserId : Past(w, b, id) => Past(w, b, id)',
           \A c \in Kept, id \in UserId : WillInsert(w, c, id)' <=> WillInsert(w, c, id),
           \A c \in Kept : Inserts(w, c)' => Inserts(w, c),
           StoresOK, \A c \in Kept : data[c] \in Documents(c)
    PROVE  Towards(data)'
  <1>1. \A c \in Kept : /\ Docs(c)' = Docs(c) /\ DOMAIN Docs(c) \subseteq UserId
                        /\ DOMAIN data[c] \subseteq UserId
    BY SameDocs, StoredTyped, DocumentsAre
  <1>2. \A v \in Process, c \in Kept, id \in UserId : WillInsert(v, c, id)' <=> WillInsert(v, c, id)
    BY DEF WillInsert, Inserts
  <1>3. \A v \in Process, c \in Kept : Inserts(v, c)' => Inserts(v, c)
    BY DEF Inserts
  <1>4. \A v \in Process, c \in Kept : c \in Ahead(v) =>
            c \in Ahead(v)' /\ \A b \in Kept, id \in UserId : Past(v, b, id) => Past(v, b, id)'
    BY DEF Ahead, Past, Inserts
  <1>5. \A c \in Kept : Done(data, c) => Done(data, c)'
    <2> SUFFICES ASSUME NEW c \in Kept, Done(data, c) PROVE Done(data, c)'
      OBVIOUS
    <2> QED
      BY <1>1, <1>2 DEF Done
  <1>6. \A b \in Kept : Followed(data, b) => Followed(data, b)'
    <2> SUFFICES ASSUME NEW b \in Kept, Followed(data, b),
                        NEW id \in DOMAIN Docs(b)', NEW c \in Kept, Before(b, c), ~Done(data, c)'
                 PROVE  \E v \in Process : Past(v, b, id)' /\ c \in Ahead(v)'
      BY DEF Followed
    <2>1. PICK v \in Process : Past(v, b, id) /\ c \in Ahead(v)
      BY <1>1, <1>5 DEF Followed
    <2> QED
      BY <1>1, <1>4, <2>1
  <1>7. \A v \in Process : Active(v)' => req'[v].data = data /\ Upwards(req'[v])
    BY DEF Towards, Active
  <1>8. \A c \in Kept : Done(data, c)' \/ \E v \in Process : c \in Ahead(v)'
    BY <1>4, <1>5 DEF Towards
  <1>9. \A v \in Process, b \in Kept : Inserts(v, b)' => Done(data, b)' /\ Followed(data, b)'
    BY <1>3, <1>5, <1>6 DEF Towards
  <1> QED
    BY <1>7, <1>8, <1>9 DEF Towards

\* What a request that inserts knows of its collection.
LEMMA Inserting0 ==
    ASSUME RestoreTypeOK, NEW w \in Process, req[w].phase = "insert"
    PROVE  /\ First(req[w].left) \in Kept /\ First(req[w].left) \in req[w].left
           /\ req[w].left \in SUBSET Kept /\ Active(w)
           /\ \A c \in req[w].left : c # First(req[w].left) => Before(First(req[w].left), c)
  <1>1. RequestOK(req[w]) /\ req[w] # NoRequest
    BY DEF RestoreTypeOK, NoRequest
  <1>2. req[w].left \in SUBSET Kept /\ req[w].left # {}
    BY <1>1 DEF RequestOK
  <1> DEFINE c0 == First(req[w].left)
  <1>3. c0 \in req[w].left /\ \A c \in req[w].left : Position(c0) <= Position(c)
    BY <1>2, FirstIs
  <1>4. ASSUME NEW c \in req[w].left, c # c0 PROVE Before(c0, c)
    <2>1. /\ Position(c) \in Nat /\ Position(c0) \in Nat /\ Position(c) # Position(c0)
          /\ Position(c0) <= Position(c)
      BY <1>2, <1>3, <1>4, PositionsDiffer
    <2> QED
      BY <2>1 DEF Before
  <1> QED
    BY <1>1, <1>2, <1>3, <1>4 DEF Active

LEMMA TowardsDelete ==
    ASSUME RestoreTypeOK, NEW data, Whole(data), Towards(data),
           NEW w \in Process, NEW c0 \in Kept, DeleteMany(w, c0)
    PROVE  Towards(data)'
  <1>1. /\ req = [v \in Process |-> req[v]] /\ req[w].left \in SUBSET Kept /\ StoresOK
        /\ req[w].phase = "replace" /\ SetCollection(c0, Filled(Nothing))
        /\ c0 = First(req[w].left) /\ req[w].left # {}
    BY DEF RestoreTypeOK, RequestOK, NoRequest, DeleteMany, AtCollection
  <1>2. req[w].data = data /\ Upwards(req[w])
    BY <1>1 DEF Towards, Active, NoRequest
  <1>3. /\ req'[w].phase = "insert" /\ req'[w].data = data
        /\ req'[w].left = req[w].left /\ req'[w].todo = data[c0]
        /\ \A v \in Process \ {w} : req'[v] = req[v]
    BY <1>1, <1>2 DEF DeleteMany, Inserting
  <1>4. DOMAIN Docs(c0)' = {} /\ \A b \in Kept \ {c0} : Docs(b)' = Docs(b)
    BY <1>1, SetToNothing, NothingIs
  <1>5. c0 \in req[w].left
    BY <1>1, FirstIs
  <1>6. /\ \A v \in Process \ {w} : \A c, id : WillInsert(v, c, id)' <=> WillInsert(v, c, id)
        /\ \A v \in Process \ {w} : \A c : Inserts(v, c)' <=> Inserts(v, c)
        /\ \A id : WillInsert(w, c0, id)' <=> id \in DOMAIN data[c0]
        /\ \A c : Inserts(w, c)' <=> c = c0
        /\ \A c, id : ~WillInsert(w, c, id)
    BY <1>1, <1>3 DEF WillInsert, Inserts
  <1>7. Done(data, c0)'
    BY <1>4, <1>6 DEF Done
  <1>8. ASSUME NEW c \in Kept, Done(data, c) PROVE Done(data, c)'
    <2>1. CASE c = c0
      BY <1>7, <2>1
    <2>2. CASE c # c0
      <3>1. Docs(c)' = Docs(c) /\ \A v \in Process : \A id : WillInsert(v, c, id)' <=> WillInsert(v, c, id)
        BY <1>1, <1>3, <1>4, <2>2 DEF WillInsert, Inserts
      <3> QED
        BY <1>8, <3>1 DEF Done
    <2> QED
      BY <2>1, <2>2
  <1>9. \A v \in Process, c \in Kept : c \in Ahead(v) /\ c # c0 =>
            c \in Ahead(v)' /\ \A b \in Kept : \A id : Past(v, b, id) => Past(v, b, id)'
    BY <1>1, <1>3 DEF Ahead, Past, Inserts
  <1>10. ASSUME NEW b \in Kept, b # c0, Followed(data, b) PROVE Followed(data, b)'
    <2> SUFFICES ASSUME NEW id \in DOMAIN Docs(b)', NEW c \in Kept, Before(b, c), ~Done(data, c)'
                 PROVE  \E v \in Process : Past(v, b, id)' /\ c \in Ahead(v)'
      BY DEF Followed
    <2>1. c # c0 /\ ~Done(data, c) /\ Docs(b)' = Docs(b)
      BY <1>4, <1>7, <1>8, <1>10
    <2>2. PICK v \in Process : Past(v, b, id) /\ c \in Ahead(v)
      BY <1>10, <2>1 DEF Followed
    <2> QED
      BY <1>9, <2>1, <2>2
  <1>11. Followed(data, c0)'
    BY <1>4 DEF Followed
  <1>12. Upwards(req'[w])
    BY <1>1, <1>2, <1>3 DEF Upwards
  <1>13. \A v \in Process : Active(v)' => req'[v].data = data /\ Upwards(req'[v])
    BY <1>3, <1>12 DEF Towards, Active
  <1>14. \A c \in Kept : Done(data, c)' \/ \E v \in Process : c \in Ahead(v)'
    BY <1>7, <1>8, <1>9 DEF Towards
  <1>15. ASSUME NEW v \in Process, NEW b \in Kept, Inserts(v, b)'
         PROVE  Done(data, b)' /\ Followed(data, b)'
    <2>1. CASE b = c0
      BY <1>7, <1>11, <2>1
    <2>2. CASE b # c0
      <3>1. Inserts(v, b)
        BY <1>6, <1>15, <2>2
      <3> QED
        BY <1>8, <1>10, <2>2, <3>1 DEF Towards
    <2> QED
      BY <2>1, <2>2
  <1> QED
    BY <1>13, <1>14, <1>15 DEF Towards

LEMMA TowardsInsert ==
    ASSUME RestoreTypeOK, NEW data, Whole(data), Towards(data),
           NEW w \in Process, req[w].phase = "insert",
           NEW id \in DOMAIN req[w].todo, \A i \in DOMAIN req[w].todo : id <= i,
           InsertsOne(w, id)
    PROVE  Towards(data)'
  <1>1. /\ First(req[w].left) \in Kept /\ First(req[w].left) \in req[w].left
        /\ req[w].left \in SUBSET Kept /\ Active(w)
    BY Inserting0
  <1>2. PICK c0 \in Kept : c0 = First(req[w].left)
    BY <1>1
  <1>3. /\ req = [v \in Process |-> req[v]] /\ RequestOK(req[w]) /\ StoresOK
        /\ DOMAIN req[w].todo \subseteq DOMAIN req[w].data[c0]
        /\ \A i \in DOMAIN req[w].todo : req[w].todo[i] = req[w].data[c0][i]
        /\ req[w].data[c0] \in Documents(c0)
    BY <1>1, <1>2 DEF RestoreTypeOK, RequestOK, Active
  <1>4. req[w].data = data /\ Upwards(req[w]) /\ Inserts(w, c0)
    BY <1>1, <1>2 DEF Towards, Inserts
  <1>5. /\ req'[w].phase = "insert" /\ req'[w].data = data
        /\ req'[w].left = req[w].left /\ req'[w].todo = Without(req[w].todo, id)
        /\ DOMAIN req'[w].todo = DOMAIN req[w].todo \ {id}
        /\ \A v \in Process \ {w} : req'[v] = req[v]
    BY <1>3, <1>4 DEF InsertsOne, Inserting, Without
  <1>6. id \in UserId /\ req[w].todo[id] \in Held(c0)
    BY <1>3, <1>2, InsertIsOK
  <1>7. /\ Docs(c0)' = With(Docs(c0), id, data[c0][id])
        /\ \A b \in Kept \ {c0} : Docs(b)' = Docs(b)
    BY <1>3, <1>4, <1>6, <1>2, SetOneMore DEF InsertsOne
  <1>8. /\ DOMAIN Docs(c0)' = DOMAIN Docs(c0) \cup {id}
        /\ \A i \in DOMAIN Docs(c0)' : Docs(c0)'[i] = IF i = id THEN data[c0][id] ELSE Docs(c0)[i]
    BY <1>7 DEF With
  <1>9. /\ \A v \in Process : \A c : Inserts(v, c)' <=> Inserts(v, c)
        /\ \A v \in Process : \A c, i : WillInsert(v, c, i)' => WillInsert(v, c, i)
        /\ \A v \in Process : \A c, i : c # c0 \/ i # id => (WillInsert(v, c, i) => WillInsert(v, c, i)')
        /\ ~WillInsert(w, c0, id)'
    BY <1>5, <1>2 DEF WillInsert, Inserts
  <1>10. \A v \in Process, c \in Kept : c \in Ahead(v) =>
            c \in Ahead(v)' /\ \A b \in Kept : \A i : Past(v, b, i) => Past(v, b, i)'
    BY <1>5, <1>9 DEF Ahead, Past
  <1>11. \A i \in DOMAIN data[c0] : i \in Nat
    BY <1>3, <1>4, DocumentsAre, BootAssumption
  <1>12. Done(data, c0) /\ Followed(data, c0)
    BY <1>4 DEF Towards
  <1>13. \A j \in DOMAIN data[c0] : id < j => WillInsert(w, c0, j)'
    <2> SUFFICES ASSUME NEW j \in DOMAIN data[c0], id < j PROVE WillInsert(w, c0, j)'
      OBVIOUS
    <2>1. id \in DOMAIN data[c0] /\ id \in Nat /\ j \in Nat /\ id <= j /\ j # id
      BY <1>3, <1>4, <1>11
    <2>2. j \in DOMAIN req[w].todo
      BY <1>4, <1>2, <2>1 DEF Upwards
    <2> QED
      BY <1>4, <1>9, <2>1, <2>2 DEF WillInsert
  <1>14. Done(data, c0)'
    <2>1. /\ DOMAIN Docs(c0)' \subseteq DOMAIN data[c0]
          /\ \A i \in DOMAIN Docs(c0)' : Docs(c0)'[i] = data[c0][i]
      BY <1>3, <1>4, <1>8, <1>12 DEF Done
    <2>2. ASSUME NEW j \in DOMAIN data[c0] \ DOMAIN Docs(c0)'
          PROVE  /\ \E v \in Process : WillInsert(v, c0, j)'
                 /\ \A i \in DOMAIN Docs(c0)' : i < j =>
                       \E v \in Process : WillInsert(v, c0, j)' /\ ~WillInsert(v, c0, i)'
      <3>1. j # id /\ j \in DOMAIN data[c0] \ DOMAIN Docs(c0)
        BY <1>8, <2>2
      <3>2. \E v \in Process : WillInsert(v, c0, j)'
        BY <1>9, <1>12, <3>1 DEF Done
      <3>3. ASSUME NEW i \in DOMAIN Docs(c0)', i < j
            PROVE  \E v \in Process : WillInsert(v, c0, j)' /\ ~WillInsert(v, c0, i)'
        <4>1. CASE i = id
          BY <1>9, <1>13, <3>3, <4>1
        <4>2. CASE i # id
          <5>1. PICK v \in Process : WillInsert(v, c0, j) /\ ~WillInsert(v, c0, i)
            BY <1>8, <1>12, <3>1, <3>3, <4>2 DEF Done
          <5> QED
            BY <1>9, <3>1, <5>1
        <4> QED
          BY <4>1, <4>2
      <3> QED
        BY <3>2, <3>3
    <2> QED
      BY <2>1, <2>2 DEF Done
  <1>15. ASSUME NEW c \in Kept, Done(data, c) PROVE Done(data, c)'
    <2>1. CASE c = c0
      BY <1>14, <2>1
    <2>2. CASE c # c0
      <3>1. Docs(c)' = Docs(c) /\ \A v \in Process : \A i : WillInsert(v, c, i)' <=> WillInsert(v, c, i)
        BY <1>7, <1>9, <2>2
      <3> QED
        BY <1>15, <3>1 DEF Done
    <2> QED
      BY <2>1, <2>2
  <1>16. ASSUME NEW b \in Kept, Followed(data, b) PROVE Followed(data, b)'
    <2> SUFFICES ASSUME NEW i \in DOMAIN Docs(b)', NEW c \in Kept, Before(b, c), ~Done(data, c)'
                 PROVE  \E v \in Process : Past(v, b, i)' /\ c \in Ahead(v)'
      BY DEF Followed
    <2>1. CASE i \in DOMAIN Docs(b)
      <3>1. PICK v \in Process : Past(v, b, i) /\ c \in Ahead(v)
        BY <1>15, <1>16, <2>1 DEF Followed
      <3> QED
        BY <1>10, <3>1
    <2>2. CASE i \notin DOMAIN Docs(b)
      <3>1. b = c0 /\ i = id
        BY <1>7, <1>8, <2>2
      <3>2. Past(w, c0, id)'
        BY <1>4, <1>5, <1>9 DEF Past
      <3>3. c \in req[w].left /\ c # c0
        <4>1. c \in req[w].left
          BY <1>1, <1>4, <1>2, <3>1 DEF Upwards, Inserts
        <4>2. Position(c0) \in Nat /\ Position(c0) < Position(c)
          BY <3>1, PositionsDiffer DEF Before
        <4> QED
          BY <4>1, <4>2
      <3>4. c \in Ahead(w)'
        BY <1>5, <1>2, <3>3 DEF Ahead, Inserts
      <3> QED
        BY <3>1, <3>2, <3>4
    <2> QED
      BY <2>1, <2>2
  <1>17. Upwards(req'[w])
    <2>1. \A i \in DOMAIN req'[w].todo, j \in DOMAIN data[c0] : i <= j => j \in DOMAIN req'[w].todo
      <3> SUFFICES ASSUME NEW i \in DOMAIN req'[w].todo, NEW j \in DOMAIN data[c0], i <= j
                   PROVE  j \in DOMAIN req'[w].todo
        OBVIOUS
      <3>1. i \in DOMAIN req[w].todo /\ i # id /\ id <= i
        BY <1>5
      <3>2. j \in DOMAIN req[w].todo
        BY <1>4, <1>2, <3>1 DEF Upwards, Inserts
      <3>3. i \in Nat /\ j \in Nat /\ id \in Nat
        BY <1>3, <1>4, <1>11, <3>1, <3>2
      <3>4. j # id
        BY <3>1, <3>3
      <3> QED
        BY <1>5, <3>2, <3>4
    <2> QED
      BY <1>4, <1>5, <1>2, <2>1 DEF Upwards, Inserts
  <1>18. \A v \in Process : Active(v)' => req'[v].data = data /\ Upwards(req'[v])
    BY <1>5, <1>17 DEF Towards, Active
  <1>19. \A c \in Kept : Done(data, c)' \/ \E v \in Process : c \in Ahead(v)'
    BY <1>10, <1>15 DEF Towards
  <1>20. \A v \in Process, b \in Kept : Inserts(v, b)' => Done(data, b)' /\ Followed(data, b)'
    BY <1>9, <1>15, <1>16 DEF Towards
  <1> QED
    BY <1>18, <1>19, <1>20 DEF Towards

\* insert_many of the archive's users meets a name only where it meets the document.
LEMMA TakenIsThere ==
    ASSUME StoresOK, NEW data, Whole(data), NEW c \in Kept, Done(data, c),
           NEW id \in DOMAIN data[c], Taken(c, id, data[c][id])
    PROVE  id \in DOMAIN Docs(c)
  <1> SUFFICES ASSUME c = "users", \E i \in LiveUsers : users[i] = data[c][id]
               PROVE  id \in DOMAIN Docs(c)
    BY DEF Taken
  <1>1. PICK i \in LiveUsers : users[i] = data["users"][id]
    OBVIOUS
  <1>2. users \in [UserId -> Held("users") \cup {Nobody}] /\ Docs("users") = Present(users)
    BY DEF StoresOK, Held, Docs, Stored
  <1>3. i \in DOMAIN Docs("users") /\ Docs("users")[i] = users[i]
    BY <1>2, PresentIs DEF LiveUsers
  <1>4. i \in DOMAIN data["users"] /\ data["users"][i] = data["users"][id]
    BY <1>1, <1>3 DEF Done
  <1> QED
    BY <1>3, <1>4 DEF Whole, NamesUnique

LEMMA TowardsFail ==
    ASSUME RestoreTypeOK, NEW data, Whole(data), Towards(data),
           NEW w \in Process, req[w].phase = "insert",
           NEW id \in DOMAIN req[w].todo, \A i \in DOMAIN req[w].todo : id <= i,
           InsertFails(w, id)
    PROVE  Towards(data)'
  <1>0. /\ First(req[w].left) \in Kept /\ First(req[w].left) \in req[w].left
        /\ req[w].left \in SUBSET Kept /\ Active(w)
        /\ \A c \in req[w].left : c # First(req[w].left) => Before(First(req[w].left), c)
    BY Inserting0
  <1>10. PICK c0 \in Kept : c0 = First(req[w].left)
    BY <1>0
  <1>1. /\ req = [v \in Process |-> req[v]] /\ StoresOK
        /\ DOMAIN req[w].todo \subseteq DOMAIN req[w].data[c0]
        /\ \A i \in DOMAIN req[w].todo : req[w].todo[i] = req[w].data[c0][i]
        /\ req[w].data[c0] \in Documents(c0)
    BY <1>0, <1>10 DEF RestoreTypeOK, RequestOK, Active
  <1>2. req[w].data = data /\ Upwards(req[w]) /\ Inserts(w, c0)
    BY <1>0, <1>10 DEF Towards, Inserts
  <1>3. /\ req'[w] = NoRequest /\ \A v \in Process \ {w} : req'[v] = req[v]
        /\ UNCHANGED <<users, db>>
    BY <1>1 DEF InsertFails, bvars
  <1>4. \A c \in Kept : Docs(c)' = Docs(c)
    BY <1>3, SameDocs
  <1>5. Done(data, c0) /\ Followed(data, c0)
    BY <1>2 DEF Towards
  <1>6. id \in DOMAIN data[c0] /\ id \in DOMAIN Docs(c0)
    BY <1>1, <1>2, <1>5, <1>10, TakenIsThere DEF InsertFails
  <1>7. \A i \in DOMAIN data[c0] : i \in Nat
    BY <1>1, <1>2, DocumentsAre, BootAssumption
  <1>8. /\ \A v \in Process \ {w} : \A c : Inserts(v, c)' <=> Inserts(v, c)
        /\ \A v \in Process \ {w} : \A c, i : WillInsert(v, c, i)' <=> WillInsert(v, c, i)
        /\ \A c : ~Inserts(w, c)'
        /\ \A c, i : ~WillInsert(w, c, i)'
        /\ \A c, i : WillInsert(w, c, i) => c = c0 /\ i \in DOMAIN req[w].todo
    BY <1>3, <1>10 DEF WillInsert, Inserts, NoRequest
  <1>9. \A v \in Process \ {w} : \A c \in Kept : c \in Ahead(v) =>
            c \in Ahead(v)' /\ \A b \in Kept : \A i : Past(v, b, i) => Past(v, b, i)'
    BY <1>3, <1>8 DEF Ahead, Past
  \* Whoever is past the document on which this request fails is another.
  <1>11. ASSUME NEW c \in Kept, c \in Ahead(w), ~Done(data, c)
         PROVE  \E v \in Process \ {w} : Past(v, c0, id) /\ c \in Ahead(v)
    <2>1. Before(c0, c)
      BY <1>0, <1>10, <1>11 DEF Ahead, Inserts
    <2>2. PICK v \in Process : Past(v, c0, id) /\ c \in Ahead(v)
      BY <1>5, <1>6, <1>11, <2>1 DEF Followed
    <2>3. ~Past(w, c0, id)
      BY <1>0, <1>10 DEF Past
    <2> QED
      BY <2>2, <2>3
  \* And it is past whatever this request is past.
  <1>12. ASSUME NEW v \in Process \ {w}, Past(v, c0, id), NEW c \in Kept, c \in Ahead(v),
                NEW b \in Kept, NEW i \in UserId, Past(w, b, i), i \in DOMAIN Docs(b),
                b = c0 => i \in DOMAIN data[c0]
         PROVE  Past(v, b, i)
    <2>1. v \in Process /\ Active(v) /\ req[v].data = data /\ Upwards(req[v])
      BY <1>12 DEF Past, Inserts, Active, NoRequest, Towards
    <2>2. CASE b = c0
      <3>1. i \in DOMAIN data[c0] /\ i \notin DOMAIN req[w].todo
        BY <1>0, <1>10, <1>12, <2>2 DEF Past
      <3>2. ~(id <= i)
        BY <1>2, <1>10, <3>1 DEF Upwards, Inserts
      <3>3. i \in Nat /\ id \in Nat /\ i <= id
        BY <1>6, <1>7, <3>1, <3>2
      <3>4. CASE Inserts(v, c0) /\ id \notin DOMAIN req[v].todo
        <4>1. i \notin DOMAIN req[v].todo
          BY <1>6, <2>1, <3>3, <3>4 DEF Upwards, Inserts
        <4> QED
          BY <2>2, <3>4, <4>1 DEF Past
      <3>5. CASE req[v].phase \in {"replace", "insert"} /\ c0 \notin req[v].left
        BY <2>2, <3>5 DEF Past
      <3> QED
        BY <1>12, <3>4, <3>5 DEF Past
    <2>3. CASE b # c0
      <3>1. b \notin req[w].left
        BY <1>2, <1>12, <2>3 DEF Past, Inserts
      <3>2. ~Before(c0, b)
        BY <1>0, <1>2, <1>10, <3>1 DEF Upwards, Inserts
      <3>3. Before(b, c0)
        <4>1. Position(b) \in Nat /\ Position(c0) \in Nat /\ Position(b) # Position(c0)
          BY <2>3, PositionsDiffer
        <4> QED
          BY <3>2, <4>1 DEF Before
      <3>4. CASE Inserts(v, c0)
        <4>1. \A a \in req[v].left : a # c0 => Before(c0, a)
          BY <2>1, <3>4, Inserting0 DEF Inserts
        <4>2. b \notin req[v].left
          BY <2>3, <3>2, <4>1
        <4> QED
          BY <3>4, <4>2 DEF Past, Inserts
      <3>5. CASE req[v].phase \in {"replace", "insert"} /\ c0 \notin req[v].left
        <4>1. b \notin req[v].left
          BY <2>1, <3>3, <3>5 DEF Upwards
        <4> QED
          BY <3>5, <4>1 DEF Past
      <3> QED
        BY <1>12, <3>4, <3>5 DEF Past
    <2> QED
      BY <2>2, <2>3
  <1>13. Done(data, c0)'
    <2>1. ASSUME NEW j \in DOMAIN data[c0] \ DOMAIN Docs(c0),
                 NEW i \in DOMAIN Docs(c0), i < j
          PROVE  \E v \in Process : WillInsert(v, c0, j)' /\ ~WillInsert(v, c0, i)'
      <3>1. PICK v \in Process : WillInsert(v, c0, j) /\ ~WillInsert(v, c0, i)
        BY <1>5, <2>1 DEF Done
      <3>2. CASE v # w
        BY <1>8, <3>1, <3>2
      <3>3. CASE v = w
        <4>1. j \in DOMAIN req[w].todo /\ i \notin DOMAIN req[w].todo /\ i \in DOMAIN data[c0]
          BY <1>2, <1>5, <3>1, <3>3 DEF WillInsert, Done
        <4>2. id <= j /\ id # j /\ id \in Nat /\ j \in Nat /\ i \in Nat /\ ~(id <= i)
          BY <1>2, <1>6, <1>7, <1>10, <4>1 DEF Upwards, Inserts
        <4>3. PICK u \in Process : WillInsert(u, c0, j) /\ ~WillInsert(u, c0, id)
          BY <1>5, <1>6, <4>2 DEF Done
        <4>4. u # w
          BY <1>2, <4>3 DEF WillInsert
        <4>5. Upwards(req[u]) /\ req[u].data = data
          BY <4>3 DEF WillInsert, Inserts, Active, NoRequest, Towards
        <4>6. ~WillInsert(u, c0, i)
          BY <1>6, <4>1, <4>2, <4>3, <4>5 DEF WillInsert, Inserts, Upwards
        <4> QED
          BY <1>8, <4>3, <4>4, <4>6
      <3> QED
        BY <3>2, <3>3
    <2>2. ASSUME NEW j \in DOMAIN data[c0] \ DOMAIN Docs(c0)
          PROVE  \E v \in Process : WillInsert(v, c0, j)'
      <3>1. PICK v \in Process : WillInsert(v, c0, j)
        BY <1>5 DEF Done
      <3>2. CASE v # w
        BY <1>8, <3>1, <3>2
      <3>3. CASE v = w
        <4>1. id <= j /\ id # j /\ id \in Nat /\ j \in Nat
          BY <1>6, <1>7, <1>8, <3>1, <3>3
        <4> QED
          BY <1>6, <2>1, <4>1
      <3> QED
        BY <3>2, <3>3
    <2> QED
      BY <1>4, <1>5, <2>1, <2>2 DEF Done
  <1>14. ASSUME NEW c \in Kept, Done(data, c) PROVE Done(data, c)'
    <2>1. CASE c = c0
      BY <1>13, <2>1
    <2>2. CASE c # c0
      <3>1. Docs(c)' = Docs(c) /\ \A v \in Process : \A i : WillInsert(v, c, i)' <=> WillInsert(v, c, i)
        BY <1>4, <1>8, <2>2
      <3> QED
        BY <1>14, <3>1 DEF Done
    <2> QED
      BY <2>1, <2>2
  <1>15. ASSUME NEW v \in Process, NEW b \in Kept, Inserts(v, b)'
         PROVE  Done(data, b)' /\ Followed(data, b)'
    <2>1. v # w /\ Inserts(v, b) /\ Done(data, b) /\ Followed(data, b)
      BY <1>8, <1>15 DEF Towards
    <2>2. ASSUME NEW i \in DOMAIN Docs(b)', NEW c \in Kept, Before(b, c), ~Done(data, c)'
          PROVE  \E u \in Process : Past(u, b, i)' /\ c \in Ahead(u)'
      <3>1. i \in DOMAIN Docs(b) /\ i \in UserId /\ ~Done(data, c)
        BY <1>1, <1>4, <1>14, <2>2, StoredTyped, DocumentsAre
      <3>2. PICK u \in Process : Past(u, b, i) /\ c \in Ahead(u)
        BY <2>1, <2>2, <3>1 DEF Followed
      <3>3. CASE u # w
        BY <1>9, <3>2, <3>3
      <3>4. CASE u = w
        <4>1. PICK x \in Process \ {w} : Past(x, c0, id) /\ c \in Ahead(x)
          BY <1>11, <3>1, <3>2, <3>4
        <4>2. b = c0 => i \in DOMAIN data[c0]
          BY <1>5, <3>1 DEF Done
        <4>3. Past(x, b, i)
          BY <1>12, <3>1, <3>2, <3>4, <4>1, <4>2
        <4> QED
          BY <1>9, <4>1, <4>3
      <3> QED
        BY <3>3, <3>4
    <2> QED
      BY <1>14, <2>1, <2>2 DEF Followed
  <1>16. ASSUME NEW c \in Kept PROVE Done(data, c)' \/ \E v \in Process : c \in Ahead(v)'
    <2> SUFFICES ASSUME ~Done(data, c)' PROVE \E v \in Process : c \in Ahead(v)'
      OBVIOUS
    <2>1. PICK v \in Process : c \in Ahead(v)
      BY <1>14 DEF Towards
    <2>2. CASE v # w
      BY <1>9, <2>1, <2>2
    <2>3. CASE v = w
      BY <1>9, <1>11, <1>14, <2>1, <2>3
    <2> QED
      BY <2>2, <2>3
  <1>17. \A v \in Process : Active(v)' => req'[v].data = data /\ Upwards(req'[v])
    BY <1>3 DEF Towards, Active
  <1> QED
    BY <1>15, <1>16, <1>17 DEF Towards

AllUp == crashes = 0 => \A w \in Process : pc[w] = "up"

LEMMA AllUpNext ==
    ASSUME RestoreTypeOK, AllUp, [RestoreNext]_rvars
    PROVE  /\ AllUp'
           /\ crashes' = 0 => crashes = 0
           /\ crashes' = 0 => \A w \in Process : ~BootWorker(w) /\ ~KillWorker(w)
           /\ errors' = 0 => errors = 0 /\ \A w \in Process : ~DatabaseFails(w)
  <1>1. crashes \in Nat /\ errors \in Nat
    BY DEF RestoreTypeOK
  <1>2. ASSUME NEW w \in Process, BootWorker(w), crashes = 0 PROVE FALSE
    BY <1>2 DEF AllUp, BootWorker, Boot, Start, Aggregate, DeleteSurplus, CreateIndex,
                Count, InsertAdmin
  <1>3. ASSUME NEW w \in Process, KillWorker(w) PROVE crashes' # 0
    BY <1>1, <1>3 DEF KillWorker, Crash
  <1>4. ASSUME NEW w \in Process, BootWorker(w) PROVE UNCHANGED crashes
    BY <1>4 DEF BootWorker, Boot, Start, Aggregate, DeleteSurplus, CreateIndex, Count, InsertAdmin
  <1>5. ASSUME NEW w \in Process, BootWorker(w) \/ KillWorker(w) PROVE UNCHANGED errors
    BY <1>5 DEF BootWorker, KillWorker, rhistory
  <1>6. ASSUME NEW w \in Process, RestoreStep(w) PROVE UNCHANGED <<pc, crashes, errors>>
    BY <1>6, OwnRequest
  <1>7. ASSUME NEW w \in Process, Confirm(w) PROVE UNCHANGED <<pc, crashes, errors>>
    BY <1>7 DEF Confirm, bvars
  <1>8. ASSUME NEW archive \in Archive, Upload(archive) PROVE UNCHANGED <<pc, crashes, errors>>
    BY <1>8 DEF Upload, bvars, rhistory
  <1>9. ASSUME NEW w \in Process, DatabaseFails(w)
         PROVE  UNCHANGED <<pc, crashes>> /\ errors' # 0
    BY <1>1, <1>9 DEF DatabaseFails, bvars
  <1>10. CASE UNCHANGED rvars
    <2>1. UNCHANGED <<pc, crashes, errors>>
      BY <1>10 DEF rvars, bvars, rhistory
    <2>2. \A w \in Process : crashes' = 0 => ~BootWorker(w) /\ ~KillWorker(w)
      BY <1>2, <1>3, <2>1
    <2>3. \A w \in Process : errors' = 0 => ~DatabaseFails(w)
      BY <1>9
    <2> QED
      BY <2>1, <2>2, <2>3 DEF AllUp
  <1>11. CASE RestoreNext
    <2>1. crashes' = 0 => crashes = 0
      BY <1>3, <1>4, <1>6, <1>7, <1>8, <1>11, <1>9 DEF RestoreNext
    <2>2. \A w \in Process : crashes' = 0 => ~BootWorker(w) /\ ~KillWorker(w)
      BY <1>2, <1>3, <2>1
    <2>3. crashes' = 0 => UNCHANGED <<pc, crashes>>
      BY <1>6, <1>7, <1>8, <1>11, <1>9, <2>2 DEF RestoreNext
    <2>4. errors' = 0 => errors = 0 /\ \A w \in Process : ~DatabaseFails(w)
      BY <1>6, <1>7, <1>8, <1>11, <1>5, <1>9 DEF RestoreNext
    <2> QED
      BY <2>1, <2>2, <2>3, <2>4 DEF AllUp
  <1> QED
    BY <1>10, <1>11

\* Reading, the safety snapshot and the ends are no work on the documents.
LEMMA TowardsElse ==
    ASSUME RestoreTypeOK, NEW data, Whole(data), Towards(data),
           \A c \in Kept : data[c] \in Documents(c), NEW w \in Process,
           \/ ReadCollection(w) \/ WriteSafetySnapshot(w) \/ Complete(w)
           \/ req[w].phase = "insert" /\ InsertEnds(w)
    PROVE  Towards(data)'
  <1>1. /\ req = [v \in Process |-> req[v]] /\ StoresOK /\ Active(w) /\ RequestOK(req[w])
    BY DEF RestoreTypeOK, ReadCollection, WriteSafetySnapshot, Complete, Active, NoRequest
  <1>2. UNCHANGED <<users, db>> /\ \A v \in Process \ {w} : req'[v] = req[v]
    BY <1>1 DEF ReadCollection, WriteSafetySnapshot, Complete, InsertEnds, Finish, bvars
  <1>3. req[w].data = data /\ Upwards(req[w])
    BY <1>1 DEF Towards
  <1>4. CASE ReadCollection(w)
    <2>1. req[w].phase = "snapshot" /\ req'[w].phase = "snapshot" /\ req'[w].data = data
      BY <1>1, <1>3, <1>4 DEF ReadCollection, Snapshotting
    <2>2. Upwards(req'[w])
      BY <2>1 DEF Upwards
    <2> QED
      BY <1>1, <1>2, <2>1, <2>2, Steady DEF Ahead, Past, WillInsert, Inserts
  <1>5. CASE WriteSafetySnapshot(w)
    <2>1. /\ req[w].phase = "snapshot" /\ req'[w].phase = "replace" /\ req'[w].data = data
          /\ req'[w].left = Kept
      BY <1>1, <1>3, <1>5 DEF WriteSafetySnapshot, Replacing
    <2>2. Upwards(req'[w])
      BY <2>1 DEF Upwards
    <2> QED
      BY <1>1, <1>2, <2>1, <2>2, Steady DEF Ahead, Past, WillInsert, Inserts
  <1>6. CASE Complete(w)
    <2>1. req[w].phase = "replace" /\ req[w].left = {} /\ ~Active(w)' /\ req'[w].phase = "none"
      BY <1>1, <1>6 DEF Complete, Finish, Active, NoRequest
    <2> QED
      BY <1>1, <1>2, <2>1, Steady DEF Ahead, Past, WillInsert, Inserts
  <1>7. CASE req[w].phase = "insert" /\ InsertEnds(w)
    <2>1. /\ req[w].phase = "insert" /\ req'[w].phase = "replace" /\ req'[w].data = data
          /\ req'[w].left = req[w].left \ {First(req[w].left)} /\ DOMAIN req[w].todo = {}
      BY <1>1, <1>3, <1>7 DEF InsertEnds, Replacing
    <2>2. /\ First(req[w].left) \in Kept /\ First(req[w].left) \in req[w].left
          /\ req[w].left \in SUBSET Kept
          /\ \A c \in req[w].left : c # First(req[w].left) => Before(First(req[w].left), c)
      BY <1>7, Inserting0
    <2>3. Upwards(req'[w])
      <3> SUFFICES ASSUME NEW b \in req'[w].left, NEW c \in Kept, Before(b, c)
                   PROVE  c \in req'[w].left
        BY <2>1 DEF Upwards
      <3>1. c \in req[w].left
        BY <1>3, <2>1 DEF Upwards
      <3>2. c # First(req[w].left)
        <4>1. Before(First(req[w].left), b) /\ b \in Kept
          BY <2>1, <2>2
        <4>2. Position(b) \in Nat /\ Position(c) \in Nat /\ Position(First(req[w].left)) \in Nat
          BY <2>2, <4>1, PositionsDiffer
        <4> QED
          BY <4>1, <4>2 DEF Before
      <3> QED
        BY <2>1, <3>1, <3>2
    <2>4. \A c \in Kept : c \in Ahead(w) =>
              /\ c \in Ahead(w)'
              /\ \A b \in Kept, id \in UserId : Past(w, b, id) => Past(w, b, id)'
      BY <2>1 DEF Ahead, Past, Inserts
    <2>5. /\ \A c \in Kept, id \in UserId : WillInsert(w, c, id)' <=> WillInsert(w, c, id)
          /\ \A c \in Kept : Inserts(w, c)' => Inserts(w, c)
      BY <2>1 DEF WillInsert, Inserts
    <2> QED
      BY <1>1, <1>2, <2>1, <2>3, <2>4, <2>5, Steady
  <1> QED
    BY <1>4, <1>5, <1>6, <1>7

LEMMA ConvergingNext ==
    ASSUME RestoreTypeOK, AllUp, NoneSoFar, Converging, [RestoreNext]_rvars
    PROVE  Converging'
  <1> SUFFICES ASSUME NEW data \in Archives, Same(data)' PROVE Towards(data)'
    BY DEF Converging
  <1>1. /\ req = [v \in Process |-> req[v]] /\ StoresOK /\ confirmed \in Seq(Archives)
    BY DEF RestoreTypeOK
  <1>2. /\ crashes = 0 /\ errors = 0 /\ Whole(data)
        /\ \A w \in Process : ~BootWorker(w) /\ ~KillWorker(w) /\ ~DatabaseFails(w)
    BY AllUpNext DEF Same
  <1>3. \A c \in Kept : data[c] \in Documents(c)
    BY <1>2, ArchivesAre DEF Whole
  <1>4. UNCHANGED confirmed => Same(data) /\ Towards(data)
    BY <1>2 DEF Same, Converging
  <1>5. ASSUME UNCHANGED <<users, db, req, confirmed>> PROVE Towards(data)'
    <2>1. \A c \in Kept : Docs(c)' = Docs(c)
      BY <1>5, SameDocs
    <2>2. \A w \in Process : /\ Ahead(w)' = Ahead(w) /\ (Active(w)' <=> Active(w))
                             /\ \A c : Inserts(w, c)' <=> Inserts(w, c)
      BY <1>5 DEF Ahead, Inserts, Active
    <2>3. \A w \in Process : \A c, id : /\ WillInsert(w, c, id)' <=> WillInsert(w, c, id)
                                        /\ Past(w, c, id)' <=> Past(w, c, id)
      BY <1>5, <2>2 DEF WillInsert, Past
    <2>4. \A c \in Kept : Done(data, c)' <=> Done(data, c)
      BY <2>1, <2>3 DEF Done
    <2>5. \A b \in Kept : Followed(data, b)' <=> Followed(data, b)
      BY <2>1, <2>2, <2>3, <2>4 DEF Followed
    <2>6. Towards(data)
      BY <1>4, <1>5
    <2> QED
      BY <1>5, <2>2, <2>4, <2>5, <2>6 DEF Towards
  <1>6. CASE UNCHANGED rvars
    BY <1>5, <1>6 DEF rvars, bvars, rhistory
  <1>7. ASSUME NEW archive \in Archive, Upload(archive) PROVE Towards(data)'
    BY <1>5, <1>7 DEF Upload, bvars, rhistory
  <1>8. ASSUME NEW w \in Process, Confirm(w) PROVE Towards(data)'
    <2>1. PICK d \in Archives, fromStage \in BOOLEAN :
              /\ req' = [req EXCEPT ![w] = Started(d, fromStage)]
              /\ confirmed' = Append(confirmed, d)
      BY <1>8, ConfirmIs
    <2>2. req[w] = NoRequest /\ UNCHANGED <<users, db>>
      BY <1>8, ConfirmIs DEF bvars
    <2>3. d = data
      <3>1. Len(confirmed) + 1 \in DOMAIN confirmed' /\ confirmed'[Len(confirmed) + 1] = d
        BY <1>1, <2>1
      <3> QED
        BY <3>1 DEF Same
    <2>4. /\ req'[w].phase = "snapshot" /\ req'[w].data = data /\ req[w].phase = "none"
          /\ \A v \in Process \ {w} : req'[v] = req[v]
      BY <1>1, <2>1, <2>2, <2>3 DEF Started, Snapshotting, NoRequest
    <2>5. Upwards(req'[w])
      BY <2>4 DEF Upwards
    <2>6. CASE confirmed = <<>>
      <3>1. Quiet
        BY <2>6 DEF NoneSoFar
      <3>2. \A v \in Process \ {w} : ~Active(v)' /\ req'[v].phase = "none"
        BY <2>4, <3>1 DEF Quiet, Active, NoRequest
      <3>3. \A c \in Kept : c \in Ahead(w)' /\ \A v \in Process : ~Inserts(v, c)'
        BY <2>4, <3>2 DEF Ahead, Inserts
      <3> QED
        BY <2>4, <2>5, <3>2, <3>3 DEF Towards
    <2>7. CASE confirmed # <<>>
      <3>1. \A i \in DOMAIN confirmed : i \in DOMAIN confirmed' /\ confirmed'[i] = confirmed[i]
        BY <1>1, <2>1
      <3>2. Same(data)
        BY <1>2, <2>7, <3>1 DEF Same
      <3>3. Towards(data)
        BY <3>2 DEF Converging
      <3> QED
        BY <1>1, <1>3, <2>2, <2>4, <2>5, <3>3, Steady DEF Ahead, Past, WillInsert, Inserts
    <2> QED
      BY <2>6, <2>7
  <1>9. ASSUME NEW w \in Process, RestoreStep(w) PROVE Towards(data)'
    <2>1. Towards(data) /\ Active(w)
      BY <1>4, <1>9, OwnRequest
    <2>2. req[w].data = data
      BY <2>1 DEF Towards
    <2>3. ASSUME NEW c \in Kept PROVE /\ ~SkipCollection(w, c) /\ ~FailOnEntry(w, c)
                                       /\ ~FailOnDocuments(w, c)
      BY <1>2, <2>2 DEF Whole, SkipCollection, FailOnEntry, FailOnDocuments, Damage
    <2>4. ASSUME InsertMany(w) PROVE Towards(data)'
      BY <1>2, <1>3, <2>1, <2>4, InsertCases, TowardsElse, TowardsFail, TowardsInsert
    <2> QED
      BY <1>2, <1>3, <1>9, <2>1, <2>3, <2>4, TowardsElse, TowardsDelete DEF RestoreStep
  <1> QED
    BY <1>2, <1>6, <1>7, <1>8, <1>9 DEF RestoreNext

\* However many restores of one archive overlap, when all are through everything is as
\* the archive has it, although all but one of them may have failed.
THEOREM SameArchiveAlwaysConverges == RestoreSpec => []SameArchiveConverges
  <1> DEFINE ConvInv == RestoreTypeOK /\ NoneSoFar /\ OneRestore /\ AllUp /\ Converging
  <1>1. RestoreInit => ConvInv
    <2> SUFFICES ASSUME RestoreInit PROVE ConvInv
      OBVIOUS
    <2>1. AllUp /\ Converging
      BY DEF RestoreInit, AllUp, Converging, Same
    <2>2. Len(confirmed) = 0
      BY DEF RestoreInit
    <2>3. NoneSoFar /\ OneRestore
      BY <2>2, RestoreInitTyped, CalmInit DEF NoneSoFar, OneRestore
    <2> QED
      BY <2>1, <2>3, RestoreInitTyped
  <1>2. ConvInv /\ [RestoreNext]_rvars => ConvInv'
    BY RestoreNextTyped, OneRestoreNext, AllUpNext, ConvergingNext
  <1>3. ConvInv => SameArchiveConverges
    <2> SUFFICES ASSUME ConvInv, Quiet, crashes = 0, errors = 0, confirmed # <<>>, Whole(confirmed[1]),
                        \A i \in DOMAIN confirmed : confirmed[i] = confirmed[1]
                 PROVE  Contents = confirmed[1]
      BY DEF SameArchiveConverges
    <2>1. PICK data \in Archives : data = confirmed[1]
      <3>1. confirmed \in Seq(Archives) /\ confirmed # <<>>
        BY DEF RestoreTypeOK
      <3> QED
        BY <3>1
    <2>2. Same(data) /\ Towards(data)
      BY <2>1 DEF Same, Converging
    <2>3. ASSUME NEW c \in Kept PROVE Docs(c) = data[c]
      <3>1. \A w \in Process : c \notin Ahead(w) /\ \A id : ~WillInsert(w, c, id)
        BY DEF Quiet, NoRequest, Ahead, WillInsert, Inserts
      <3>2. Done(data, c)
        BY <2>2, <3>1 DEF Towards
      <3>3. data[c] \in Documents(c) /\ Docs(c) \in Documents(c)
        BY <2>2, StoredTyped, ArchivesAre DEF Same, Whole, RestoreTypeOK
      <3>4. DOMAIN Docs(c) = DOMAIN data[c] /\ \A id \in DOMAIN Docs(c) : Docs(c)[id] = data[c][id]
        BY <3>1, <3>2 DEF Done
      <3> QED
        BY <3>3, <3>4, DocumentsAre
    <2>4. data = [c \in Kept |-> data[c]]
      BY <2>2, ArchivesAre DEF Same, Whole
    <2> QED
      BY <2>1, <2>3, <2>4 DEF Contents
  <1> HIDE DEF ConvInv
  <1> QED
    BY <1>1, <1>2, <1>3, PTL DEF RestoreSpec
=============================================================================
