------------------------------- MODULE Restore -------------------------------
(***************************************************************************)
(* Restoring a backup: the upload that is staged, the confirmation that    *)
(* reads it, the safety snapshot, and the replacement of one collection    *)
(* after the other, by gunicorn workers that may do so at the same time    *)
(* and may be killed in the middle.  A killed worker boots again as in     *)
(* Bootstrap, which may seed users while a restore replaces them.          *)
(*                                                                         *)
(* A worker serves one request here; that two threads of one worker die    *)
(* together is left out.  So are the handlers that edit the inventory      *)
(* meanwhile, snapshots that are deleted (see Snapshots), and archives that *)
(* read_manifest refuses, whose restore ends before it replaces anything.  *)
(***************************************************************************)
EXTENDS Bootstrap, Sequences, SequencesExt

CONSTANTS
    Kept,         \* the collections an instance has
    Version,      \* what the documents outside users hold
    Archive,      \* the archives that may be uploaded: collection -> _id -> document
    Corrupt,      \* an entry of an archive that does not parse
    Odd,          \* an entry that parses, but is no list of documents
    Original,     \* the database before anything is restored, as an archive
    MaxConfirms,  \* bound on the restores of a behaviour
    MaxErrors,    \* bound on the errors of MongoDB during restores
    DiskMayFail   \* whether /backups may refuse a file, or its removal

VARIABLES
    db,           \* collection other than users -> _id -> document, or Nobody
    staged,       \* the staged upload, or Nobody; there is one administrator
    files,        \* the snapshots in /backups
    req,          \* the restore each worker is at
    confirmed,    \* every archive a restore has read so far, in order
    unsaved,      \* some restore went on without its safety snapshot
    errors,       \* restores that an error of MongoDB ended
    halfDone      \* collections a restore cleared, and ended by an error before it had
                  \* filled them

rhistory == <<confirmed, unsaved, errors, halfDone>>
rvars == <<bvars, db, staged, files, req, rhistory>>

COLLECTIONS_UsersFirst ==
    <<"users", "hosts", "clients", "networks", "keys", "dns_servers", "allowed_ips">>

COLLECTIONS ==
    <<"hosts", "clients", "networks", "keys", "dns_servers", "allowed_ips", "users">>

\* Restores go through what is left of COLLECTIONS in its order.
Position(c) == CHOOSE i \in DOMAIN COLLECTIONS : COLLECTIONS[i] = c

First(left) == CHOOSE c \in left : \A d \in left : Position(c) <= Position(d)

\* What the documents of a collection hold, and a set of them by _id.
Held(c) == IF c = "users" THEN Username ELSE Version

Documents(c) == UNION {[ids -> Held(c)] : ids \in SUBSET UserId}

Damage == {Corrupt, Odd}

Entries == Damage \cup UNION {Documents(c) : c \in Kept}

Archives ==
    {data \in UNION {[cs -> Entries] : cs \in SUBSET Kept} :
        \A c \in DOMAIN data : data[c] \in Documents(c) \cup Damage}

NamesUnique(docs) == \A i, j \in DOMAIN docs : docs[i] = docs[j] => i = j

\* Original is a whole database with somebody in it, of an installation that is up.
ASSUME RestoreAssumption ==
    /\ Kept \subseteq ToSet(COLLECTIONS) /\ "users" \in Kept
    /\ MaxConfirms \in Nat /\ MaxErrors \in Nat /\ DiskMayFail \in BOOLEAN
    /\ Nobody \notin Version
    /\ Archive \subseteq Archives /\ Original \in Archives
    /\ DOMAIN Original = Kept /\ \A c \in Kept : Original[c] \in Documents(c)
    /\ DOMAIN Original["users"] # {} /\ NamesUnique(Original["users"])

Stored(c) == IF c = "users" THEN users ELSE db[c]

\* The documents of a collection, as an archive holds them.
Present(f) == [id \in {i \in UserId : f[i] # Nobody} |-> f[id]]

Docs(c) == Present(Stored(c))

Filled(docs) == [id \in UserId |-> IF id \in DOMAIN docs THEN docs[id] ELSE Nobody]

Contents == [c \in Kept |-> Docs(c)]

Nothing == [c \in {} |-> Nobody]

With(f, x, v) == [y \in DOMAIN f \cup {x} |-> IF y = x THEN v ELSE f[y]]

Without(f, x) == [y \in DOMAIN f \ {x} |-> f[y]]

\* The stages of a restore: the collections left to read or to replace, those read,
\* and the documents left to insert.
NoRequest == [phase |-> "none"]

Snapshotting(data, fromStage, left, taken) ==
    [phase |-> "snapshot", data |-> data, fromStage |-> fromStage, left |-> left, taken |-> taken]

Replacing(data, fromStage, left) ==
    [phase |-> "replace", data |-> data, fromStage |-> fromStage, left |-> left]

Inserting(data, fromStage, left, todo) ==
    [phase |-> "insert", data |-> data, fromStage |-> fromStage, left |-> left, todo |-> todo]

-----------------------------------------------------------------------------
\* A running installation: the index is there, every process is up.
RestoreInit ==
    /\ users = Filled(Original["users"]) /\ usedIds = LiveUsers /\ index = TRUE
    /\ pc = [w \in Process |-> "up"]
    /\ surplus = [w \in Process |-> {}] /\ crashes = 0
    /\ db = [c \in Kept \ {"users"} |-> Filled(Original[c])]
    /\ staged = Nobody /\ files = {}
    /\ req = [w \in Process |-> NoRequest]
    /\ confirmed = <<>> /\ unsaved = FALSE /\ errors = 0 /\ halfDone = {}

\* login_required looks the user of the session up in users.
LoggedIn == LiveUsers # {}

\* restore_upload: a second upload takes the place of the first.
Upload(archive) ==
    /\ LoggedIn /\ \E w \in Process : pc[w] = "up"
    /\ Len(confirmed) < MaxConfirms
    /\ staged' = archive
    /\ UNCHANGED <<bvars, db, files, req, rhistory>>

Started_OneSnapshot(data, fromStage) ==
    IF \A v \in Process : req[v] = NoRequest
    THEN Snapshotting(data, fromStage, Kept, Nothing)
    ELSE Replacing(data, fromStage, Kept)

\* A restore that has read its archive and is about to take the safety snapshot.
Started(data, fromStage) == Snapshotting(data, fromStage, Kept, Nothing)

\* restore_confirm up to the safety snapshot; the archive is read now, whichever was
\* shown on the page.
Confirm(w) ==
    /\ LoggedIn /\ pc[w] = "up" /\ req[w] = NoRequest /\ Len(confirmed) < MaxConfirms
    /\ \E fromStage \in BOOLEAN :
       \E data \in IF fromStage THEN {staged} \ {Nobody} ELSE files :
          /\ req' = [req EXCEPT ![w] = Started(data, fromStage)]
          /\ confirmed' = Append(confirmed, data)
    /\ UNCHANGED <<bvars, db, staged, files, unsaved, errors, halfDone>>

\* create_backup_bytes reads one collection after the other.
ReadCollection(w) ==
    /\ req[w].phase = "snapshot" /\ req[w].left # {}
    /\ LET r == req[w]  c == First(r.left) IN
          req' = [req EXCEPT ![w] =
              Snapshotting(r.data, r.fromStage, r.left \ {c}, With(r.taken, c, Docs(c)))]
    /\ UNCHANGED <<bvars, db, staged, files, rhistory>>

\* safety_snapshot passes over an OSError, and the restore goes on.
WriteSafetySnapshot(w) ==
    /\ req[w].phase = "snapshot" /\ req[w].left = {}
    /\ \/ files' = files \cup {req[w].taken} /\ UNCHANGED unsaved
       \/ DiskMayFail /\ unsaved' = TRUE /\ UNCHANGED files
    /\ req' = [req EXCEPT ![w] = Replacing(@.data, @.fromStage, Kept)]
    /\ UNCHANGED <<bvars, db, staged, confirmed, errors, halfDone>>

SetCollection(c, f) ==
    /\ IF c = "users" THEN users' = f /\ UNCHANGED db
                      ELSE db' = [db EXCEPT ![c] = f] /\ UNCHANGED users
    /\ usedIds' = IF c = "users" THEN usedIds \cup {id \in UserId : f[id] # Nobody} ELSE usedIds
    /\ UNCHANGED <<index, pc, surplus, crashes>>

\* The end of restore_confirm, in order or by an exception: the finally removes the
\* staged file, whichever upload it now is, unless the disk refuses.
Finish(w) ==
    /\ req' = [req EXCEPT ![w] = NoRequest]
    /\ \/ staged' = IF req[w].fromStage THEN Nobody ELSE staged
       \/ DiskMayFail /\ UNCHANGED staged

AtCollection(w, c) ==
    req[w].phase = "replace" /\ req[w].left # {} /\ c = First(req[w].left)

SkipCollection(w, c) ==
    /\ AtCollection(w, c) /\ c \notin DOMAIN req[w].data
    /\ req' = [req EXCEPT ![w] = Replacing(@.data, @.fromStage, @.left \ {c})]
    /\ UNCHANGED <<bvars, db, staged, files, rhistory>>

FailOnEntry_AfterDelete(w, c) ==
    /\ AtCollection(w, c) /\ c \in DOMAIN req[w].data /\ req[w].data[c] = Corrupt
    /\ Finish(w)
    /\ SetCollection(c, Filled(Nothing))
    /\ UNCHANGED <<files, rhistory>>

\* json_util.loads comes before delete_many.
FailOnEntry(w, c) ==
    /\ AtCollection(w, c) /\ c \in DOMAIN req[w].data /\ req[w].data[c] = Corrupt
    /\ Finish(w)
    /\ UNCHANGED <<bvars, db, files, rhistory>>

\* Whether the entry is a list of documents, insert_many or len finds out after
\* delete_many, with a TypeError before anything is inserted.
FailOnDocuments(w, c) ==
    /\ AtCollection(w, c) /\ c \in DOMAIN req[w].data /\ req[w].data[c] = Odd
    /\ Finish(w)
    /\ SetCollection(c, Filled(Nothing))
    /\ halfDone' = halfDone \cup {c}
    /\ UNCHANGED <<files, confirmed, unsaved, errors>>

DeleteMany(w, c) ==
    /\ AtCollection(w, c) /\ c \in DOMAIN req[w].data /\ req[w].data[c] \notin Damage
    /\ SetCollection(c, Filled(Nothing))
    /\ req' = [req EXCEPT ![w] = Inserting(@.data, @.fromStage, @.left, @.data[c])]
    /\ UNCHANGED <<staged, files, rhistory>>

\* The _id, and in users the name, of the document is taken.
Taken(c, id, doc) ==
    \/ id \in DOMAIN Docs(c)
    \/ c = "users" /\ index /\ \E i \in LiveUsers : users[i] = doc

AfterDuplicate_RollsBack(w, c) == SetCollection(c, Filled(Nothing)) /\ Finish(w)

\* insert_many ends with BulkWriteError, and restore_confirm with it.
AfterDuplicate(w, c) == UNCHANGED <<bvars, db>> /\ Finish(w)

\* insert_many goes through its documents in order and stops at the first that is
\* taken.
InsertMany(w) ==
    /\ req[w].phase = "insert"
    /\ LET r == req[w]  c == First(r.left) IN
          \/ /\ DOMAIN r.todo = {}
             /\ req' = [req EXCEPT ![w] = Replacing(r.data, r.fromStage, r.left \ {c})]
             /\ UNCHANGED <<bvars, db, staged>>
          \/ \E id \in DOMAIN r.todo :
                /\ \A i \in DOMAIN r.todo : id <= i
                /\ IF Taken(c, id, r.todo[id])
                   THEN AfterDuplicate(w, c)
                   ELSE /\ SetCollection(c, [Stored(c) EXCEPT ![id] = r.todo[id]])
                        /\ req' = [req EXCEPT ![w] =
                              Inserting(r.data, r.fromStage, r.left, Without(r.todo, id))]
                        /\ UNCHANGED staged
    /\ UNCHANGED <<files, rhistory>>

\* Restore complete, and the administrator is logged out.
Complete(w) ==
    /\ req[w].phase = "replace" /\ req[w].left = {}
    /\ Finish(w)
    /\ UNCHANGED <<bvars, db, files, rhistory>>

\* Where find, delete_many or insert_many has something to ask of MongoDB: what is
\* left of the restore has not been done by then, or it has and its answer is lost.
AsksMongo(r) ==
    \/ r.phase = "snapshot" /\ r.left # {}
    \/ r.phase = "replace" /\ \E c \in r.left : /\ c = First(r.left) /\ c \in DOMAIN r.data
                                               /\ r.data[c] # Corrupt
    \/ r.phase = "insert"

\* AutoReconnect, a WriteError, ...: nothing in the restore catches it, and the worker
\* goes on to its next request.
DatabaseFails(w) ==
    /\ AsksMongo(req[w]) /\ errors < MaxErrors
    /\ Finish(w)
    /\ errors' = errors + 1
    /\ halfDone' = IF req[w].phase = "insert" THEN halfDone \cup {First(req[w].left)}
                                              ELSE halfDone
    /\ UNCHANGED <<bvars, db, files, confirmed, unsaved>>

\* The staged file of a killed worker stays.
KillWorker(w) ==
    /\ Crash(w)
    /\ req' = [req EXCEPT ![w] = NoRequest]
    /\ UNCHANGED <<db, staged, files, rhistory>>

BootWorker(w) == Boot(w) /\ UNCHANGED <<db, staged, files, req, rhistory>>

RestoreStep(w) ==
    \/ ReadCollection(w) \/ WriteSafetySnapshot(w)
    \/ \E c \in Kept : \/ SkipCollection(w, c) \/ FailOnEntry(w, c)
                       \/ FailOnDocuments(w, c) \/ DeleteMany(w, c)
    \/ InsertMany(w) \/ Complete(w)

RestoreNext ==
    \/ \E archive \in Archive : Upload(archive)
    \/ \E w \in Process : \/ Confirm(w) \/ RestoreStep(w) \/ DatabaseFails(w)
                          \/ BootWorker(w) \/ KillWorker(w)

\* A request that is not killed goes on; nobody has to upload or confirm anything.
RestoreSpec ==
    /\ RestoreInit /\ [][RestoreNext]_rvars
    /\ \A w \in Process : WF_rvars(RestoreStep(w)) /\ WF_rvars(BootWorker(w))

-----------------------------------------------------------------------------
(* Properties. *)

\* An archive of all collections, without damage; its users suit their unique index,
\* which those of a release that had none may not.
Whole(data) ==
    /\ DOMAIN data = Kept /\ \A c \in Kept : data[c] \notin Damage
    /\ NamesUnique(data["users"])

Quiet == \A w \in Process : req[w] = NoRequest

\* The same archive confirmed twice, by a double click or in two tabs, is restored
\* as if once: each of the two clears what the other has filled and may fail on a
\* document the other was faster to insert, but one of them gets everything in, if
\* no worker is killed and MongoDB answers.
SameArchiveConverges ==
    /\ Quiet /\ crashes = 0 /\ errors = 0 /\ confirmed # <<>> /\ Whole(confirmed[1])
    /\ \A i \in DOMAIN confirmed : confirmed[i] = confirmed[1]
    => Contents = confirmed[1]

\* While only one restore has run, and however it ended, the users are touched last: new
\* credentials mean that all other data is the archive's, too.
CredentialsLast ==
    Len(confirmed) = 1 /\ Docs("users") # Original["users"] =>
        \A c \in Kept \ {"users"} :
            Docs(c) = IF c \in DOMAIN confirmed[1] THEN confirmed[1][c] ELSE Original[c]

\* README: a safety snapshot is written before every restore.  However restores
\* overlap, the database as it was before the first is in /backups once anything is
\* replaced, although their snapshots may catch each other's work half done.
OriginalKept == Contents # Original => Original \in files \/ unsaved

\* If every archive restored has a user, then there is always an account again:
\* whoever empties users fills it, fails because somebody else has, or is killed and
\* seeds the administrator when it is up again.  Not so once the error of a restore has
\* left users cleared: no worker died of it, and nothing seeds an account before one
\* boots.
HasUser(data) == "users" \in DOMAIN data => data["users"] # Nothing

NoLockout ==
    ( /\ LiveUsers = {} /\ "users" \notin halfDone
      /\ \A i \in DOMAIN confirmed : HasUser(confirmed[i]) )
    ~>
    ( \/ LiveUsers # {} \/ "users" \in halfDone
      \/ \E i \in DOMAIN confirmed : ~HasUser(confirmed[i]) )
=============================================================================
