# A TLA+ model of the WireGuard Network Manager

The WireGuard Network Manager is a Flask application over MongoDB that keeps an
inventory of hosts, clients and networks, draws it, and renders WireGuard
configuration files from it. This directory holds TLA+ modules for its parts, the
TLC configurations that check them on small instances, and proofs checked by TLAPS.

## What the program is made of

| Component | State | Operations | What makes it correct |
|---|---|---|---|
| hosts (`app/hosts`) | `hosts`: interfaces (`network_memberships`) and `peer_connections`, embedded arrays | create, delete; add, edit, remove interface; rotate, assign its key; add, remove peer connection | one interface per network; links two-sided, unique and over live interfaces |
| clients (`app/clients`) | `clients`: `active_key_id`, `dns_server_id`, memberships, connections | create (new or existing key), edit, delete, rotate, assign key, memberships, connections | connections over live interfaces; a client always has a key |
| networks (`app/networks`) | `networks`: CIDR, type, managing host | create, edit, delete | no membership of a network that is gone; no address given out twice |
| keys (`app/keys`) | `keys` | create, assign, delete if unused | a key in use is stored |
| DNS servers, Allowed IPs sets | `dns_servers`, `allowed_ips` | create, edit, delete if unused | a preset in use is stored |
| gunicorn (`docker/supervisord.conf`) | requests under way | 2 processes of 4 threads, killed after 60 s | what the handlers promise survives interleaving and a kill |
| address pages (`utils/ipam.py`, `view_network`) | none | proposed address, address table | the proposal is accepted; the table is true |
| administrator seeding (`bootstrap.py`) | `users`, its unique index | deduplicate, index, count, insert, from three processes at boot | an account is left, no name loses its oldest document, no second administrator |
| backups (`services/backup.py`, `backup/routes.py`) | snapshot files, staged upload | write, list, prune, delete; stage, confirm, restore | the newest snapshots are kept; a restore can be undone, and leaves an account unless an error stops it at `users` |
| scheduler (`backup_daemon.py`) | next run | sleep, snapshot, prune | one snapshot a week |
| topology (`services/graph.py`) | none | dashboard, host and client graph | no edge leads nowhere, each link drawn once, blocks stand above what they hold |
| tunnel files (`services/tunnel.py`) | none | configuration of an interface | the two ends of a tunnel agree |
| login, crypto, dashboard, templates, configuration, image | – | – | not modelled, see below |

The components interact through the database alone. A handler reads documents,
checks them in Python, and sends one to three writes. MongoDB makes a write to
one document atomic and nothing else: no transactions are used, and no unique
index exists outside `users`. References are plain strings, so every reference
is kept by the checks of the handlers that delete or move its target. Only
peer connections are stored twice. Web workers and the backup daemon share a
directory of snapshots, also without a lock, and all of them run the same
seeding code at boot.

What is hard, in this code:

- *Cross-collection integrity*: a check in one module (`remove_interface`) has
  to know of everything that other modules store (`connections` of clients).
  Some look at one side of a two-sided link only and rely on the other.
- *Check, then write*: eight threads may come between the two.
- *Several writes per request*: `add_peer_connection`, `remove_peer_connection`,
  `create_client` and the key rotations may be cut short.
- *Refusals*: each delete handler refuses while its document is referred to;
  they must not wait on each other.
- *Boot*: three processes deduplicate, index, count and insert at once, and may
  die and start again at any point.
- *Restore*: one collection after the other is emptied and filled, while another
  request restores, a worker dies, or one boots and finds no users.
- *Snapshots*: names of the same second, two prunes over one directory, failing
  disks, a daemon that is down when its moment comes.
- *Two views of one link*: tunnel files and graphs are computed from both ends.

## Modules

| Module | What it is |
|---|---|
| `Store` | the collections, the queries and checks of the handlers, the documents they build and the single-document writes they send |
| `Integrity` | what it means for the collections to fit together: one named predicate per promise |
| `Inventory` | the specification: every POST handler as one atomic action |
| `Teardown` | `Inventory` and an administrator who at some point only removes |
| `Requests` | the handlers taken apart into checks and writes, in threads that interleave and die; implements `Inventory` |
| `Tunnel` | the configuration files, as operators over `Store` |
| `Topology` | nodes, edges and levels of the three graphs, as operators over `Store` |
| `Addresses` | the proposed address and the address table, as operators over `Store` |
| `Bootstrap` | `ensure_admin_user`, one database round trip per step, in processes that crash |
| `Restore` | staging, confirmation, safety snapshot and replacement, over `Bootstrap` |
| `Snapshots` | writing, pruning and deleting snapshots by a web worker and the daemon, with the calendar of `next_run` |
| `MCInventory`, `MCRequests`, `MCPages`, `MCRestore` | instances for TLC: symmetry sets, archives, and the bounds named below |
| `InventoryProofs` | what each handler does to hosts and clients, and type correctness |
| `IntegrityProofs` | keys and presets in use are stored; clients have keys; unused keys go alone; interfaces and memberships: their networks, one per network, no address twice; interfaces keep their keys |
| `LinksProofs` | the four theorems about peer connections and client connections |
| `PagesProofs` | what is computed from the inventory: tunnel files, edges and levels of the graphs, address table, proposed address |
| `RequestsProofs` | requests in threads: types, what a killed worker leaves behind, and the refinement |
| `BootstrapProofs` | the safety of the boot |
| `SnapshotsProofs` | all the safety of the snapshots, and the arithmetic of `next_run` |
| `RestoreProofs` | all the safety of restores |

`Tunnel`, `Topology` and `Addresses` are pure: each reads the variables of `Store`.
`MCInventory` and `MCPages` put them next to `Inventory`, so that their
properties are invariants over every inventory the handlers can make.

`Store` keeps a document as a record or `None`, and an embedded array as a set:
the code searches its arrays by field and never by position, except for the
index of `remove_connection`, for which the model picks any element. Names,
ports, hostnames, MTU, endpoint overrides and keepalives are left out, as no
check reads them; with them go `edit_host`, `edit_key`, `edit_dns_server` and
`edit_allowed_ips_set`, which change nothing else. A CIDR block is the set of its
addresses. `issued` is the set of ObjectIds handed out, as the driver never makes
the same one twice.

A definition `X_SomeFault` beside `X` is `X` with the slip its name tells of. No
specification uses it; it is there so that one can see that a property notices.

### Correspondence

An action of `Inventory` has the name of its route function in CamelCase:
`AddPeerConnection` is `add_peer_connection`. `CreateClient` and
`CreateClientWithKey` are the two `key_source` branches of `create_client`;
`AssignKeyToInterface` and `AssignKeyToClient` those of `assign_key`. A request
whose check fails flashes a message and changes nothing, so it is no step. The
arguments are what a form can post: the choices of a select field are validated
against the collection in the same request, so `d \in DnsChoice` is a guard.
`OverlapsNone` is `_overlaps_existing`; the blocks of an instance are given as
sets, and real CIDR blocks either nest or are disjoint, so this guard never bites
with them; the proofs allow any sets, and there it matters (`NetworksNest`).

`Requests` uses the same `Can...` checks and the same writes. A request of a
thread is a handler up to its first write and leaves its writes pending; each
`Send` is one write; `Kill` drops what is left, as gunicorn's timeout or a stopped
container does. Between them anything may happen. The reads of one handler are
one step: interleavings between two reads are not in the model. A handler that
updates a document deleted meanwhile writes nothing, as `update_one` does.

`Bootstrap` has one action per call of `ensure_admin_user`: the aggregation of
duplicates, `delete_many` (document by document, the way the server performs it),
`create_index`, `count_documents`, `insert_one`. `Start` is supervisord or gunicorn.
The initial `users` are any, with duplicates if the index is not there yet.

`Restore` extends `Bootstrap`: a killed worker boots as any other and may seed a
user into the collection that a restore is replacing. `Upload` and `Confirm` are the
routes, `ReadCollection` and `WriteSafetySnapshot` the safety snapshot,
`DeleteMany` (one step), `InsertMany` (a document per step, as ordered inserts are),
`SkipCollection`, `FailOnEntry` and `FailOnDocuments` the loop of `restore_from_bytes`.
`COLLECTIONS` has the order of the source; what a loop has left of it is a set, of which it
takes the `First`. An archive is the collections it has, each a function from ids to
documents, or `Corrupt` if the entry does not parse, which fails before `delete_many`, or
`Odd` if it parses and is no list of documents, which fails after it. `DatabaseFails` is
any error of MongoDB wherever a restore asks it for something; the restore ends there, with what has been
inserted so far, and the worker goes on. `halfDone` remembers the collections that were
cleared by a restore and not filled because of either of the two.

`Snapshots` follows `write_snapshot` and `prune_snapshots` call by call: dump,
exclusive create (with the next counter if the name is there), write, listdir, stat,
remove. A name is a pair of a second and a counter, and `Newer` is the order in which
`list_snapshots` sorts the strings: "." after "-", so the first snapshot of a
second sorts above `-2`, `-3`, which is the newest of that second in name only. The
counters too are compared digit by digit (`CounterKey`): `-2` comes before `-20`, and
that before `-3`. `MaxCounter` bounds them, at most 99. `list_snapshots` does one stat per name; the
model does them in one step, in which a name gone since the listing is dropped, and any
set of others whose stat fails. Three kinds of `OSError` leave a prune going on: a failing listdir
makes the list empty (`List`), a name whose stat fails is passed over (`Stat`), and so is one that cannot
be removed (`Remove`). `DiskFails` is one that ends the snapshot: of makedirs, of creating
the file, of writing it. `lapses` counts what may leave surplus behind: snapshots made
without a prune, prunes cut short, and errors a prune passed over.
`NextRun` is `next_run` on a calendar of `DaysPerWeek` days of `TicksPerDay` ticks.

## What is checked

Passing runs:

| Run | Bounds | Shows |
|---|---|---|
| `peers` | 2 hosts, 2 networks, 2 addresses, 2 Allowed IPs sets | `TypeOK`, `PeersReciprocal`, `PeersOverInterfaces`, `OneLinkPerPair`, `FilesMatch`, `PeersDrawnOnce` |
| `clients` | 1 host, 2 clients, 2 networks, 3 addresses, 1 key, 1 set | `ConnectionsOverInterfaces`, `NoOrphanMembership`, `OneInterfacePerNetwork`, `AddressesUnique`, `FilesMatch` |
| `presets` | 1 host, 1 client, 1 network, 2 keys, 1 DNS server, 1 set, 2 nested blocks | `KeysLive`, `ClientsHaveKeys`, `PresetsLive`, and the action properties `InterfaceKeepsKey` and `UnusedKeysStay` |
| `teardown` | 2 hosts, 1 client, 1 network, 1 of each preset, 2 nested blocks | `EverythingCanGo` |
| `requests` | 1 thread, 2 hosts, or 1 host with 1 client, 1 key and 1 DNS server (`OneOrTheOther`); 1 network, 1 set | `ImplementsInventory` |
| `killed` | 1 thread that may be killed, 2 hosts, 1 client, 1 network, 1 key, 1 set | `KeysLive`, `PeerSidesHold` |
| `pages` | 1 host, 1 client, 3 networks on blocks of 4, 2 and 1 addresses, nested or twice the same; at most 3 memberships, on the addresses 0 and 2 | `ProposalIsFree`, `TableTellsTruth`, `EdgesHaveEnds`, `TreeReachesHosts` |
| `bootstrap` | 3 processes, 3 ids, 2 names, 2 crashes | `BootTypeOK`, `IndexNeverFails`, `UpWithAccounts`, and the temporal `OldestStays`, `SeedOnlyWhenEmpty`, `AllComeUp` |
| `restore` | 2 workers, 2 collections, 3 ids, 3 archives (one whole, two that fail), 2 confirmations, 1 killed worker, 1 error of MongoDB, a disk that may refuse | `SameArchiveConverges`, `CredentialsLast`, `OriginalKept`, `NoLockout` |
| `snapshots` | a clock of 6 ticks over a week of 4; retention 0, 1 or 2; 1 request, 1 fault (a kill or an error, in a prune or not), 1 delete | `SnapTypeOK`, `NextRunRight`, `WholeOneStays`, `RetentionReached`, `PrunesOldest`, `EveryWeek` |

*Inventory.* The promises are about pairs: two ends of a link, two owners of an
address, two networks an interface moves between. Two hosts or clients and two
networks let each end be served by another document than the one a handler looks
at, and three addresses leave one free. Every ObjectId can be used once, so a set of
two keys is a run of two creations; that is what keeps the state spaces finite, and
it means that an instance sees each host created and deleted once.

*Files and graphs.* `FilesMatch` compares the two rendered files of a tunnel: each
names the other's owner once, with the public key of the private key the other
file holds, for the address the other file has; or neither names the other.
`PeersDrawnOnce` and `EdgesHaveEnds` are about the sets of edges and nodes the
graph routines return. `TreeReachesHosts` is about levels and parents where blocks
nest or have the same CIDR; of two IPAM networks with the same CIDR only one
joins the tree, as in the code. Three networks are a block, one inside it, and one that is inside that or
a twin of either. The bound of `pages` creates networks last and deletes nothing,
because these properties are about single states and deletion reaches no new ones.

*Address table.* It is true with exceptions that the property spells out, and
that come from `_resolve_ip` and the rows built around it: an assigned network or
broadcast address shows as reserved; an address of a nested network that lies in
a still narrower one shows as part of that subnet, whoever has it; of two nested networks of the same CIDR only the first is looked into. README.md:41
says more than that.

*Requests.* `ImplementsInventory` maps a state of `Requests` to the database it will
be when all pending writes are sent. With one thread every request then takes
effect as a whole when it begins, and the writes are stuttering steps; that is, the
writes of a handler, in their order, add up to the atomic action, `create_client`
with its three writes included.
The run has no kills and no second thread, so it is silent on requests that overlap or
die; `killed` and `race_keys` are about those.

*Teardown.* `EverythingCanGo` needs fairness: the administrator keeps removing as
long as some removal is accepted and changes something, `WF(closing /\ Removal)`. It
is a statement about the handlers (no set of documents refuses each other's
removal), not about the schedule of the program, and no choice among the removals
is assumed. `DeleteClient` has no check in the code; in `Removal` it waits until
the client has no memberships, so that the refusals which a client's memberships
and connections cause are all met.

*Bootstrap.* Three processes are the two gunicorn workers and the daemon. Three
ids allow a name with three documents, or a duplicate and a seeded administrator; a
process that dies after somebody's count and before his insert is among the two
crashes. Fairness is weak for each process, `WF(Boot(p))`: supervisord and gunicorn
start what died, and a running process goes on. Crashes need not happen and are
bounded, without which `AllComeUp` could not hold.

*Restore.* A restore replaces `hosts` and `users` here, in the order of the source; the
other collections are treated as `hosts` is, and the proofs are about any number of them. The
archives are a later state of the installation with another administrator, one whose `users`
do not parse, and one that has `users` alone, which are no list. Fairness: a request that
is not killed goes on, and a killed worker boots. Nobody has to upload or confirm, and
nothing has to fail. What holds is weaker than "replaces all data":

- Two *different* archives confirmed at once may mix.
- A boot between the emptying of `users` and its refill inserts an administrator, on which
  the insert may fail if the archive holds one of that name. (`SeedOnlyWhenEmpty` is
  about boots alone and says nothing of this.)
- An error after `delete_many` leaves the collection empty or half filled, and nothing puts it
  right. If it is `users` that is empty then, nobody can log in until some process
  boots and seeds one: no worker has died of the error, so none boots because of it. `NoLockout`
  excepts just this (`"users" \in halfDone`), and an archive with an empty `users`, which does the same. It holds
  of duplicates, of entries that do not parse, of kills and of overlapping restores.
- Confirming restores whatever is staged by then, and the `finally` of a restore may
  remove a newer upload. No property is about which upload it should be.
- README.md:211 promises a safety snapshot before every restore: `safety_snapshot` passes
  over an `OSError`, and `OriginalKept` says so.
- An archive is `Whole` only if no two of its users have one name: a release without the
  unique index may have written one that has, and a restore of it always fails at `users`.

*Snapshots.* Fairness is weak for the clock, for `WakeUp` and `Restart`, and for the
steps of each process; nobody has to ask for a snapshot or delete one, and nothing has
to fail. The clock passes one full week with a scheduled moment in it and reaches the next; a second
clock tick may or may not come between any two steps, so names of one second
and of several both occur. The same properties hold with two requests and no delete. "The
oldest are pruned" (README.md:188) is true per second only, since the first file of a
second sorts above its suffixes; `PrunesOldest` states what is true. A prune that is
killed leaves its surplus to the next one, as does one that passes over an error, and
`RetentionReached` allows one file for each. One is enough, however many names the error
hid: only the snapshot of that prune is in excess of what was there before.
Negative retentions, with which the newest would be deleted, are excluded.

All other runs are about safety and assume no fairness.

Runs that TLC must find violated, each a place where the program does not do what
its documents say:

| Run | Document | Program |
|---|---|---|
| `non_wireguard` | keys/routes.py:68, non-WireGuard interfaces never have a key | `edit_interface` leaves the key of an interface that becomes non-WireGuard |
| `race_keys` | README.md:100, a key cannot be deleted while anything references it | with two threads it can |

The second says what the atomic specification hides: `Inventory` is what the
program does while requests do not overlap and no worker dies. `race_keys` stands
for all check-then-write handlers: with its two threads `PresetsLive`,
`AddressesUnique` and the other invariants are violated in the same way (a preset
deleted after another request chose it, one address found free by two requests).
Three more differences have no run: `edit_network` changes the type under attached
interfaces, which ARCHITECTURE.md:273 says constrains them; a worker killed between
the two writes of a peer connection leaves one side, against ARCHITECTURE.md:280
(`killed` shows that this side still holds its host and interface); a killed
`create_client` leaves a client without a key.

## What is proved

*Inventory.* For every number of hosts, clients, networks, keys, presets and addresses, from
the assumptions that a block is a set of addresses (`CidrAssumption`) and that
`None` is neither an id, an address nor a document (`NoneAssumption`), all the invariants of
`Integrity` that are meant to hold of `Inventory`:

- `TypeCorrect`: `Spec => []TypeOK`. `TypeOK` is inductive. It includes that every
  live document has an id in `issued`, without which a create action could
  overwrite a document; the other proofs use this too.
- `KeysStayLive`, `ClientsKeepKeys` and `PresetsStayLive`: inductive relative to `TypeOK`.
- `MembershipsKeepNetworks`, `OneInterfaceStays`, `AddressesStayUnique`: the same, over
  one classification of the steps (`PlaceSteps`): documents come without places and
  networks go that have none; or one host's interfaces change; or one client's
  memberships. A place that is new was free, but for the host itself.
- `PeersStayReciprocal`: the interesting step is `RemovePeerConnection`, which pulls
  from both hosts by two different patterns that must agree.
- `PeersStayOverInterfaces`: `PeersOverInterfaces` is not inductive. Removing an
  interface of one host checks the peer connections of that host alone; the links
  that name it are found on the other hosts. The proof adds `PeersReciprocal`.
- `LinksStayUnique`: likewise `OneLinkPerPair` needs `PeersReciprocal`, as
  `add_peer_connection` looks at one host only and writes two.
- `ConnectionsStayOverInterfaces`: by its own check each of `RemoveInterface`,
  `EditInterface`, `RemoveNetworkMembership` and `DeleteHost` leaves
  it alone.
- `UnusedKeysAreKept`, an action property: no step repoints an owner and deletes
  a key, so a deleted key had no user before the step.
- `InterfacesKeepKeys`, an action property: it compares the interface of a network before and after,
  and rests on there being one (`OneInterfacePerNetwork`).

`InventoryProofs` states for each handler that writes hosts or clients which
document it changes and to what (`...Effect`); the later proofs use these facts
and do not open the writes again. `LinksProofs` first sorts the steps
(`HostSteps`, `ClientSteps`) into those that spare links and those that do not,
and each invariant is proved over these few kinds.

*Pages.* What the program computes from the inventory, from the same assumptions, from
`OwnersAssumption` (an ObjectId is of a host, a client or a network) and `AddressesAssumption`
(blocks are finite):

- `FilesAlwaysMatch`: each file is written from its owner's own documents, so that the
  two agree only because links are two-sided, over live places and unique: it follows from
  the theorems about links, case by case of who the two owners are.
- `PeersAlwaysDrawnOnce`: of the two documents of a link the code draws the one with
  the lesser id, which has to be there (`PeersReciprocal`) and to be the only one of its
  network (`OneLinkPerPair`).
- `EdgesAlwaysHaveEnds`: every edge has both nodes, but for edges of the dashboard at an
  IPAM network it leaves out: `edit_network` may retype a network that has peer connections,
  and these are still drawn.
- `TableAlwaysTellsTruth`: a row names an owner who has the address, and no two
  owners can claim it (`AddressesUnique`).
- `TreeAlwaysReachesHosts`: levels fall along containment, as whatever contains a parent
  contains its child and stored networks are finitely many. That the parents of a
  network go through every block that contains it needs that stored blocks nest or are
  apart. Nothing is assumed of blocks here: `NetworksNest` is an invariant that
  `OverlapsNone`, the check of both network forms, keeps up.
- `ProposalAlwaysFree`: the least free address exists whenever one is free, by the
  well-foundedness of `<` on the natural numbers; it is usable and nobody's.

*Requests.* `RequestsProofs` splits a request into the step that begins it and its writes:

- `RequestsTypeCorrect`, for any number of threads and with or without kills: a pending
  write never makes a document of another shape or one without an id in `issued`. Its
  invariant speaks of the writes that wait (`PendingOK`: their documents, and ids already issued).
- `KilledSidesHold` and `KilledKeysStayLive`, for one thread that may be killed before any
  of its writes. With one thread everything a check saw is still true when the
  writes are sent, but for what the request's own earlier writes have done: that is the
  invariant (`OneThreadInv`, `Checked`), given for each handler by the writes still pending.
- `RequestsImplementInventory`, for one thread that is not killed: the initial states map
  to initial states, the step that begins a request to the action of `Inventory` of that
  name, and each write to a stutter. With two threads neither this nor the two above
  hold (`race_keys`).

*Boot.* For any number of processes, documents, names and crashes, from `BootAssumption`
(ObjectIds are ordered, the administrator's name is a name, `Nobody` is none):
`BootTypeCorrect`, `BootIndexNeverFails`, `BootUpWithAccounts`, `BootOldestStays` and
`BootSeedOnlyWhenEmpty`. Their inductive invariant is `BootInv`. None of the
properties is inductive: they rest on what a process knows from having made the index
itself (`PastIndex`, `IndexUnique`), on the duplicates a process holds being all
there are while it deletes (`KnowsDuplicates`: nobody inserts a duplicate before an
index exists), on an older document of the name still being there (`OlderThere`), and on an
old count of zero being harmful only to an administrator's insert, which the index
refuses (`CountedEmpty`).

*Snapshots.* For any clock, calendar, retentions and bounds, from `SnapshotAssumption`:

- `SnapshotsTypeCorrect`: with it go that no process holds a name that was not begun and
  that no process writes to another's file (`SnapInv`). Names are a finite set with a strict total
  order (`NewerOrder`), which all the theorems on pruning use.
- `PrunesOnlyOldest`, the action property `PrunesOldest`. What a process removes was chosen from a listing
  that others have changed since. The invariant `PruneInv` remembers that every name chosen
  is superseded by files that were *begun* (which nothing undoes), although they may be
  gone by now; later files can only add to them (`StaysSuperseded`).
- `LastWholeStays`: the invariant (`WholeInv`) is that every completed file is
  there and whole, or was deleted by hand, or is superseded by as many as are kept;
  of these the newest is the one the property speaks of.
- `RetentionAlwaysReached`: at rest the files are no more than the retention and `lapses`, for any
  number of errors, in whichever call. Its invariant (`RetentionInv`) has to hold in the
  middle of prunes that may each still give up or pass over an error: for every set of prunes in
  progress taken to fail, the files that the others will leave are no more than the retention
  and one for each failure. An error that a prune passes over makes it one of those
  failures, whatever it still removes (`GivesUp`).
- `NextRunAlwaysRight`: `next_run` is the one scheduled moment of the week after now, from
  the laws of division and remainder, which are proved along the way.

*Restore.* For any number of workers, collections, documents, archives, restores, errors and kills,
from `RestoreAssumption` (the collections are those of the source, archives are such
documents or damaged (`Damage`), and the installation starts whole, with somebody in `users` and
no name twice). A boot in the middle of a restore is part of all three.

- `OriginalAlwaysKept`: until the first safety snapshot is written or refused, the
  database is the original one and every request under way has read just that
  (`Pristine`). Boots are harmless only then, because the original users have their
  index and no duplicates (`Calm`).
- `CredentialsAlwaysLast`: the invariant (`OneRestore`) follows the one restore there has been
  through its collections (`Progress`): what is replaced, half inserted, or still original;
  and either the users are as they were, or all the others are done.
- `SameArchiveAlwaysConverges`: several restores of one archive empty each other's work and
  fail on each other's documents, so that no single one can be followed. The invariant
  (`Converging`) is about collections: each still has somebody ahead who will empty it, or it
  holds nothing but the archive's, and for each document that is missing there is
  a request that will insert it without meeting one that is there (`Done`). And where
  somebody inserts, for each document there to fail on, every later collection is done or is
  ahead of a request that is past that document (`Followed`), so a failure never costs the
  last request a collection needs. It is for restores without kills and errors of MongoDB, as the property is.

Every safety property of a passing run is stated by a theorem. Only model-checked is
liveness under fairness, which is out of reach of the prover: `EverythingCanGo`,
`AllComeUp`, `EveryWeek`, `NoLockout`.

## Plan

1. *Done*: all modules above; proofs of the invariants of `Integrity`, of what pages and files
   show, of requests in one thread, of the boot, of the snapshots and of restores.
2. An ordered `connections` array and a page's stale index.
3. The reads of one handler as separate steps of `Requests`.

## Not modelled

- Login and users beyond the seeding (a session cookie around one read), key
  material and encryption (wrappers of PyNaCl and Fernet; a key is an id here),
  dashboard, templates and static assets (no state), configuration and wiring, the
  container image and build scripts.
- In tunnel files: endpoints, ports, MTU and keepalive, which are copied, and the
  override of Allowed IPs for a full tunnel. In graphs: labels and colours.
- IPv6, which keeps no broadcast address, and the shortened table of a network of
  more than 1024 addresses.
- The index of `remove_connection` on a stale page, and `managing_host_id` of a host that was
  deleted: no document says what should happen.
- Backups taken while handlers write: an archive can name a host that it
  does not hold, since hosts are read before clients.
- A disabled or unreadable schedule, which makes the daemon sleep for good; the
  zip format and the manifest; downloads, which change nothing.

MongoDB itself is assumed: single-document atomicity, ObjectIds that never repeat, no
lost acknowledged write.
