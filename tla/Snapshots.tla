------------------------------ MODULE Snapshots ------------------------------
(***************************************************************************)
(* The snapshots in /backups: the web worker that makes one on demand, or  *)
(* as the safety snapshot of a restore, and the backup daemon that makes   *)
(* one a week.  Both prune what is beyond retention afterwards, on the same *)
(* directory and without a lock; either may fail or be killed anywhere.    *)
(*                                                                         *)
(* The calendar is cut down to DaysPerWeek days of TicksPerDay ticks, and a *)
(* tick is the second of a file name, so several files can have the same.  *)
(***************************************************************************)
EXTENDS Naturals, FiniteSets

CONSTANTS
    Web, Daemon,               \* the two processes
    Retentions,                \* the values BACKUP_RETENTION may have
    DaysPerWeek, TicksPerDay,
    ScheduleDay, ScheduleTick, \* BACKUP_SCHEDULE
    MaxNow,                    \* bound on the clock
    MaxCounter,                \* bound on the snapshots of one second
    MaxRequests,               \* bound on the snapshots the web worker is asked for
    MaxFaults,                 \* bound on errors of the disk and kills
    MaxDeletes                 \* bound on delete_snapshot

Process == {Web, Daemon}

ASSUME SnapshotAssumption ==
    /\ Web # Daemon /\ Retentions \subseteq Nat
    /\ DaysPerWeek \in Nat \ {0} /\ TicksPerDay \in Nat \ {0}
    /\ ScheduleDay \in 0 .. DaysPerWeek - 1 /\ ScheduleTick \in 0 .. TicksPerDay - 1
    /\ MaxNow \in Nat /\ MaxCounter \in 1 .. 99
    /\ MaxRequests \in Nat /\ MaxFaults \in Nat /\ MaxDeletes \in Nat

VARIABLES
    now,          \* the clock
    retention,    \* BACKUP_RETENTION, the same for both processes
    files,        \* file name -> who writes or wrote it, and whether it is whole
    pc,           \* where each process is
    kind,         \* whether the web worker makes a "backup" or a "safety" snapshot
    name,         \* the file name each process is trying or writing
    left,         \* names a process has listed, and then those of them it has to remove
    target,       \* the moment the daemon sleeps until
    requests, faults,
    begun,        \* history: names under which a file was created
    completed,    \*          names of files that became whole
    dropped,      \*          names delete_snapshot removed
    lapses,       \*          snapshots made without a prune or whose prune was cut
                  \*          short, and errors that prunes met
    ran, missed   \*          moments the daemon started a snapshot for, and could not

disk == <<files, begun, completed, dropped>>
procs == <<pc, kind, name, left, target>>
svars == <<now, retention, disk, procs, requests, faults, lapses, ran, missed>>

-----------------------------------------------------------------------------
(* next_run, in ticks since the midnight that starts a week. *)

Week == DaysPerWeek * TicksPerDay

NextRun_NotStrict(t, day, tick) ==
    LET today == t \div TicksPerDay
        ahead == (day + DaysPerWeek - (today % DaysPerWeek)) % DaysPerWeek
        candidate == (today + ahead) * TicksPerDay + tick
    IN  IF candidate < t THEN candidate + Week ELSE candidate

NextRun_SkipsAWeek(t, day, tick) ==
    LET today == t \div TicksPerDay
        ahead == (day + DaysPerWeek - (today % DaysPerWeek)) % DaysPerWeek
    IN  (today + ahead) * TicksPerDay + tick + Week

NextRun(t, day, tick) ==
    LET today == t \div TicksPerDay
        ahead == (day + DaysPerWeek - (today % DaysPerWeek)) % DaysPerWeek
        candidate == (today + ahead) * TicksPerDay + tick
    IN  IF candidate <= t THEN candidate + Week ELSE candidate

Scheduled(t) == t % Week = ScheduleDay * TicksPerDay + ScheduleTick

-----------------------------------------------------------------------------
(* A file name is a second and a counter; the first of a second has no suffix. *)

\* Counters are compared digit by digit: 2 before 20, and 20 before 3.
CounterKey(k) == IF k < 10 THEN 20 * k ELSE 2 * k + 1

\* sorted(.., reverse=True): "." sorts after "-", so the first name of a second counts
\* as newer than those with a suffix.
Newer_OldestFirst(m, n) ==
    \/ m[1] < n[1]
    \/ m[1] = n[1] /\ m[2] < n[2]

Newer(m, n) ==
    \/ m[1] > n[1]
    \/ m[1] = n[1] /\ m # n /\ (m[2] = 1 \/ (n[2] # 1 /\ CounterKey(m[2]) > CounterKey(n[2])))

Surplus_OneLess(names) ==
    {n \in names : Cardinality({m \in names : Newer(m, n)}) > retention}

\* snapshots[retention:]
Surplus(names) == {n \in names : Cardinality({m \in names : Newer(m, n)}) >= retention}

Exists(n) == n \in DOMAIN files

WithFile(n, file) == [m \in DOMAIN files \cup {n} |-> IF m = n THEN file ELSE files[m]]

WithoutFile(n) == [m \in DOMAIN files \ {n} |-> files[m]]

-----------------------------------------------------------------------------
NoName == <<0, 0>>

SnapInit ==
    /\ now = 0 /\ retention \in Retentions
    /\ files = [n \in {} |-> FALSE]
    /\ pc = [p \in Process |-> "idle"] /\ kind = "backup"
    /\ name = [p \in Process |-> NoName]
    /\ left = [p \in Process |-> {}]
    /\ target = NextRun(0, ScheduleDay, ScheduleTick)
    /\ requests = 0 /\ faults = 0
    /\ begun = {} /\ completed = {} /\ dropped = {} /\ lapses = 0
    /\ ran = {} /\ missed = {}

Goto(p, where) == pc' = [pc EXCEPT ![p] = where]

\* p has created a file and not come to the end of its prune.
Pruning(p) == pc[p] \in {"write", "list", "stat", "remove"}

\* An OSError that list_snapshots or prune_snapshots catches: the prune goes on.
PruneErr == faults < MaxFaults /\ faults' = faults + 1 /\ lapses' = lapses + 1

\* Whatever p was doing comes to nothing.
GiveUp(p) ==
    /\ faults < MaxFaults /\ faults' = faults + 1
    /\ lapses' = IF Pruning(p) THEN lapses + 1 ELSE lapses

\* The request is answered; the daemon works out its next moment.
Done(p) ==
    /\ pc' = [pc EXCEPT ![p] = "idle"]
    /\ name' = [name EXCEPT ![p] = NoName]
    /\ left' = [left EXCEPT ![p] = {}]
    /\ target' = IF p = Daemon THEN NextRun(now, ScheduleDay, ScheduleTick) ELSE target
    /\ UNCHANGED kind

\* create, or the safety_snapshot of restore_confirm.
AskForSnapshot ==
    /\ pc[Web] = "idle" /\ requests < MaxRequests
    /\ kind' \in {"backup", "safety"}
    /\ Goto(Web, "dump")
    /\ requests' = requests + 1
    /\ UNCHANGED <<now, retention, disk, name, left, target, faults, lapses, ran, missed>>

\* The sleeping daemon looks at the clock every few seconds.
WakeUp ==
    /\ pc[Daemon] = "idle" /\ now >= target
    /\ Goto(Daemon, "dump")
    /\ ran' = ran \cup {target}
    /\ UNCHANGED <<now, retention, disk, kind, name, left, target, requests, faults,
                   lapses, missed>>

Dump_CountsFromZero(p) ==
    /\ pc[p] = "dump"
    /\ Goto(p, "open")
    /\ name' = [name EXCEPT ![p] = <<now, 0>>]
    /\ UNCHANGED <<now, retention, disk, kind, left, target, requests, faults, lapses, ran,
                   missed>>

\* create_backup_bytes, and then backup_filename.
Dump(p) ==
    /\ pc[p] = "dump"
    /\ Goto(p, "open")
    /\ name' = [name EXCEPT ![p] = <<now, 1>>]
    /\ UNCHANGED <<now, retention, disk, kind, left, target, requests, faults, lapses,
                   ran, missed>>

Open_Overwrites(p) ==
    /\ pc[p] = "open"
    /\ files' = WithFile(name[p], [by |-> p, whole |-> FALSE])
    /\ begun' = begun \cup {name[p]}
    /\ Goto(p, "write")
    /\ UNCHANGED <<now, retention, completed, dropped, kind, name, left, target, requests,
                   faults, lapses, ran, missed>>

\* open(path, "xb") creates the file or fails because it is there.
Open(p) ==
    /\ pc[p] = "open"
    /\ IF Exists(name[p])
       THEN /\ name[p][2] < MaxCounter
            /\ name' = [name EXCEPT ![p][2] = @ + 1]
            /\ UNCHANGED <<files, begun, pc>>
       ELSE /\ files' = WithFile(name[p], [by |-> p, whole |-> FALSE])
            /\ begun' = begun \cup {name[p]}
            /\ Goto(p, "write")
            /\ UNCHANGED name
    /\ UNCHANGED <<now, retention, completed, dropped, kind, left, target, requests,
                   faults, lapses, ran, missed>>

\* What is written goes to the file that was opened, even if its name is gone by now,
\* or another's.
Write(p) ==
    /\ pc[p] = "write"
    /\ IF Exists(name[p]) /\ files[name[p]].by = p
       THEN /\ files' = [files EXCEPT ![name[p]].whole = TRUE]
            /\ completed' = completed \cup {name[p]}
       ELSE UNCHANGED <<files, completed>>
    /\ IF p = Web /\ kind = "safety"
       THEN Done(p) /\ lapses' = lapses + 1
       ELSE Goto(p, "list") /\ UNCHANGED <<kind, name, left, target, lapses>>
    /\ UNCHANGED <<now, retention, begun, dropped, requests, faults, ran, missed>>

\* os.listdir; if it fails, no snapshot is listed and none is removed.
List(p) ==
    /\ pc[p] = "list"
    /\ \/ /\ left' = [left EXCEPT ![p] = DOMAIN files]
          /\ Goto(p, "stat") /\ UNCHANGED <<faults, lapses>>
       \/ /\ left' = [left EXCEPT ![p] = {}]
          /\ Goto(p, "remove") /\ PruneErr
    /\ UNCHANGED <<now, retention, disk, kind, name, target, requests, ran, missed>>

\* os.stat passes over the names that are gone by now, and over those it fails for.
Stat(p) ==
    /\ pc[p] = "stat"
    /\ \E unread \in SUBSET (left[p] \cap DOMAIN files) :
          /\ left' = [left EXCEPT ![p] = Surplus((@ \cap DOMAIN files) \ unread)]
          /\ IF unread = {} THEN UNCHANGED <<faults, lapses>> ELSE PruneErr
    /\ Goto(p, "remove")
    /\ UNCHANGED <<now, retention, disk, kind, name, target, requests, ran, missed>>

\* os.remove of one name after the other, the newest first; another may have been faster,
\* or it fails and the file is passed over.
Remove(p) ==
    /\ pc[p] = "remove"
    /\ \/ left[p] = {} /\ Done(p) /\ UNCHANGED <<files, faults, lapses>>
       \/ \E n \in left[p] :
             /\ \A m \in left[p] \ {n} : Newer(n, m)
             /\ \/ files' = WithoutFile(n) /\ UNCHANGED <<faults, lapses>>
                \/ Exists(n) /\ UNCHANGED files /\ PruneErr
             /\ left' = [left EXCEPT ![p] = @ \ {n}]
             /\ UNCHANGED <<pc, kind, name, target>>
    /\ UNCHANGED <<now, retention, begun, completed, dropped, requests, ran, missed>>

DeleteSnapshot ==
    /\ Cardinality(dropped) < MaxDeletes
    /\ \E n \in DOMAIN files : files' = WithoutFile(n) /\ dropped' = dropped \cup {n}
    /\ UNCHANGED <<now, retention, begun, completed, procs, requests, faults, lapses, ran,
                   missed>>

\* An OSError of makedirs, or while the file is created or written, which leaves what was
\* written; the handlers and the daemon go on without pruning.
DiskFails(p) ==
    /\ pc[p] \in {"dump", "open", "write"}
    /\ GiveUp(p) /\ Done(p)
    /\ UNCHANGED <<now, retention, disk, requests, ran, missed>>

\* A killed process, or, in the daemon and while it dumps the database, an error of
\* MongoDB, which it does not catch.
Kill(p) ==
    /\ pc[p] \notin {"idle", "down"} \/ (p = Daemon /\ pc[p] = "idle")
    /\ GiveUp(p)
    /\ Goto(p, IF p = Daemon THEN "down" ELSE "idle")
    /\ name' = [name EXCEPT ![p] = NoName]
    /\ left' = [left EXCEPT ![p] = {}]
    /\ missed' = IF p = Daemon /\ pc[p] = "idle" /\ now >= target
                 THEN missed \cup {target} ELSE missed
    /\ UNCHANGED <<now, retention, disk, kind, target, requests, ran>>

\* autorestart: main works out the next moment from the clock alone.
Restart ==
    /\ pc[Daemon] = "down"
    /\ Done(Daemon)
    /\ UNCHANGED <<now, retention, disk, requests, faults, lapses, ran, missed>>

\* A snapshot takes less than a week: a moment does not come while the daemon is late
\* for the one before.
Tick ==
    /\ now < MaxNow
    /\ Scheduled(now + 1) =>
          pc[Daemon] = "down" \/ (pc[Daemon] = "idle" /\ now < target)
    /\ now' = now + 1
    /\ missed' = IF Scheduled(now') /\ pc[Daemon] = "down" THEN missed \cup {now'} ELSE missed
    /\ UNCHANGED <<retention, disk, procs, requests, faults, lapses, ran>>

Step(p) == Dump(p) \/ Open(p) \/ Write(p) \/ List(p) \/ Stat(p) \/ Remove(p)

SnapNext ==
    \/ AskForSnapshot \/ WakeUp \/ DeleteSnapshot \/ Restart \/ Tick
    \/ \E p \in Process : Step(p) \/ DiskFails(p) \/ Kill(p)

\* Nobody has to ask for a snapshot or delete one; the rest goes on by itself.
SnapFairness ==
    /\ WF_svars(WakeUp) /\ WF_svars(Restart) /\ WF_svars(Tick)
    /\ \A p \in Process : WF_svars(Step(p))

SnapSpec == SnapInit /\ [][SnapNext]_svars /\ SnapFairness

-----------------------------------------------------------------------------
(* Properties. *)

Names == (0 .. MaxNow) \X (1 .. MaxCounter)

Quiet == \A p \in Process : pc[p] \in {"idle", "down"}

SnapTypeOK ==
    /\ now \in 0 .. MaxNow /\ retention \in Retentions
    /\ DOMAIN files \subseteq begun /\ begun \subseteq Names
    /\ \A n \in DOMAIN files : files[n] \in [by : Process, whole : BOOLEAN]
    /\ pc \in [Process -> {"idle", "down", "dump", "open", "write", "list", "stat", "remove"}]
    /\ kind \in {"backup", "safety"}
    /\ name \in [Process -> Names \cup {NoName}]
    /\ left \in [Process -> SUBSET begun]
    /\ target \in Nat /\ requests \in 0 .. MaxRequests /\ faults \in 0 .. MaxFaults
    /\ completed \subseteq begun /\ dropped \subseteq begun
    /\ ran \subseteq 1 .. MaxNow /\ missed \subseteq 1 .. MaxNow

\* Whenever it is called, next_run is the first scheduled moment after now, and the
\* only one within a week, for every day and time of the schedule.
NextRunRight ==
    \A day \in 0 .. DaysPerWeek - 1, tick \in 0 .. TicksPerDay - 1 :
        {m \in now + 1 .. now + Week : m % Week = day * TicksPerDay + tick}
            = {NextRun(now, day, tick)}

\* README: the oldest are pruned.  However the prunes of both processes and the user's
\* deletes overlap, a snapshot is pruned only once as many others as are to be kept
\* were begun in the same second or later.
PrunesOldest ==
    [][\A n \in DOMAIN files \ DOMAIN files' :
          n \in dropped' \/
          Cardinality({m \in begun \ {n} : m[1] >= n[1]}) >= retention]_svars

\* Archives a failure left truncated count as snapshots, but only as many of them as
\* there are snapshots to keep can push out the last whole one.
WholeOneStays ==
    completed # {} /\ dropped = {} =>
        \/ \E n \in DOMAIN files : files[n].whole
        \/ Cardinality(begun \ completed) >= retention

\* At rest there are no more snapshots than BACKUP_RETENTION, but for one for each that
\* was made without a prune or whose prune was cut short, and one for each error that a
\* prune logged or passed over: an error is not made worse by the prunes beside it or
\* after it, however many names it hid.
RetentionReached == Quiet => Cardinality(DOMAIN files) <= retention + lapses

\* The daemon starts a snapshot at every scheduled moment, whatever failed before, unless
\* it is down then, or is killed between the moment and its next look at the clock.
EveryWeek == \A t \in 1 .. MaxNow : Scheduled(t) => <>(t \in ran \cup missed)
=============================================================================
