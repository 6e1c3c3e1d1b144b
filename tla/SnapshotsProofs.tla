--------------------------- MODULE SnapshotsProofs ---------------------------
(***************************************************************************)
(* What holds of the snapshots for every calendar, every bound on requests, *)
(* faults and deletes, and every number of snapshots to keep.  What a      *)
(* process is about to remove was chosen from a listing that others have   *)
(* changed since; the argument is that the files that made a name surplus  *)
(* were begun, that nothing is ever unbegun, and that a file begun later   *)
(* never takes a name away from the newest.                                *)
(***************************************************************************)
EXTENDS Snapshots, FiniteSetTheorems, WellFoundedInduction, TLAPS

-----------------------------------------------------------------------------
(* The order of the names. *)

LEMMA NameFields ==
    ASSUME NEW n \in Names
    PROVE  n = <<n[1], n[2]>> /\ n[1] \in 0 .. MaxNow /\ n[2] \in 1 .. MaxCounter
  BY DEF Names

\* No two counters sort alike.
LEMMA CounterKeys ==
    ASSUME NEW i \in 1 .. MaxCounter, NEW j \in 1 .. MaxCounter, i # j
    PROVE  CounterKey(i) \in Nat /\ CounterKey(j) \in Nat /\ CounterKey(i) # CounterKey(j)
  BY SnapshotAssumption DEF CounterKey

LEMMA CounterKeyType ==
    ASSUME NEW i \in 1 .. MaxCounter
    PROVE  CounterKey(i) \in Nat
  BY SnapshotAssumption DEF CounterKey

\* Of two names one is newer.
LEMMA NewerOrder ==
    /\ \A m \in Names : ~Newer(m, m)
    /\ \A m, n \in Names : m # n => Newer(m, n) \/ Newer(n, m)
    /\ \A l, m, n \in Names : Newer(l, m) /\ Newer(m, n) => Newer(l, n)
  <1>0. /\ \A n \in Names : n[1] \in Nat /\ n[2] \in Nat /\ CounterKey(n[2]) \in Nat
        /\ \A m, n \in Names : m # n <=> m[1] # n[1] \/ m[2] # n[2]
        /\ \A m, n \in Names : m[2] # n[2] => CounterKey(m[2]) # CounterKey(n[2])
    BY NameFields, CounterKeys, CounterKeyType, SnapshotAssumption
  <1>1. ASSUME NEW m \in Names
        PROVE  ~Newer(m, m)
    BY <1>0 DEF Newer
  <1>2. ASSUME NEW m \in Names, NEW n \in Names, m # n
        PROVE  Newer(m, n) \/ Newer(n, m)
    BY <1>0, <1>2 DEF Newer
  <1>3. ASSUME NEW l \in Names, NEW m \in Names, NEW n \in Names, Newer(l, m), Newer(m, n)
        PROVE  Newer(l, n)
    BY <1>0, <1>3 DEF Newer
  <1> QED
    BY <1>1, <1>2, <1>3

LEMMA Minimum ==
    ASSUME NEW S \in SUBSET Nat, S # {}
    PROVE  \E x \in S : \A y \in S : x <= y
  <1>1. PICK x \in S : \A y \in S : ~(<<y, x>> \in OpToRel(<, Nat))
    BY NatLessThanWellFounded, WFMin
  <1>2. \A y \in S : <<y, x>> \in OpToRel(<, Nat) <=> y < x
    BY DEF OpToRel
  <1>3. \A y \in S : ~(y < x)
    BY <1>1, <1>2
  <1>4. \A y \in S : x \in Nat /\ y \in Nat
    OBVIOUS
  <1> QED
    BY <1>3, <1>4, SMT

\* The names newer than n, and how many there are.
NewerThan(names, n) == {m \in names : Newer(m, n)}

LEMMA NewerCount ==
    ASSUME NEW names, IsFiniteSet(names), NEW n
    PROVE  IsFiniteSet(NewerThan(names, n)) /\ Cardinality(NewerThan(names, n)) \in Nat
  BY FS_Subset, FS_CardinalityType DEF NewerThan

\* What a prune leaves of the names it has seen.
LEMMA KeptAtMost ==
    ASSUME NEW names \in SUBSET Names, IsFiniteSet(names), retention \in Nat
    PROVE  Cardinality(names \ Surplus(names)) <= retention
  <1> DEFINE kept == names \ Surplus(names)
             count(n) == Cardinality(NewerThan(names, n))
  <1>1. \A n \in names : count(n) \in Nat /\ IsFiniteSet(NewerThan(names, n))
    BY NewerCount
  <1>2. kept \subseteq names /\ \A n \in kept : count(n) < retention
    BY <1>1 DEF Surplus, NewerThan
  <1>3. IsFiniteSet(kept) /\ Cardinality(kept) \in Nat
    BY <1>2, FS_Subset, FS_CardinalityType
  <1>4. CASE kept = {}
    BY <1>4, FS_EmptySet
  <1>5. CASE kept # {}
    <2> DEFINE room == {retention - count(n) : n \in kept}
    <2>1. room \in SUBSET Nat /\ room # {}
      BY <1>1, <1>2, <1>5
    <2>2. PICK n \in kept : \A m \in kept : retention - count(n) <= retention - count(m)
      <3> HIDE DEF room, kept, count
      <3>1. PICK i \in room : \A j \in room : i <= j
        BY <2>1, Minimum
      <3> QED
        BY <3>1 DEF room
    <2>3. ASSUME NEW m \in kept, m # n
          PROVE  Newer(m, n)
      <3> SUFFICES ASSUME Newer(n, m)
                   PROVE  FALSE
        BY <1>2, <2>3, NewerOrder
      <3>1. /\ NewerThan(names, n) \cup {n} \subseteq NewerThan(names, m)
            /\ n \notin NewerThan(names, n)
        BY <1>2, NewerOrder DEF NewerThan
      <3>2. Cardinality(NewerThan(names, n) \cup {n}) = count(n) + 1
        BY <1>1, <1>2, <3>1, FS_AddElement
      <3>3. Cardinality(NewerThan(names, n) \cup {n}) <= count(m)
        BY <1>1, <1>2, <3>1, FS_Subset
      <3>4. retention - count(n) <= retention - count(m)
        BY <2>2
      <3>5. count(n) \in Nat /\ count(m) \in Nat
        BY <1>1, <1>2
      <3> HIDE DEF count
      <3> QED
        BY <3>2, <3>3, <3>4, <3>5
    <2>4. kept \ {n} \subseteq NewerThan(names, n)
      BY <1>2, <2>3 DEF NewerThan
    <2>5. Cardinality(kept \ {n}) <= count(n)
      BY <1>1, <1>2, <2>4, FS_Subset
    <2>6. Cardinality(kept \ {n}) = Cardinality(kept) - 1
      BY <1>3, FS_RemoveElement
    <2>7. count(n) \in Nat /\ count(n) < retention
      BY <1>1, <1>2
    <2> HIDE DEF kept, count
    <2> QED
      BY <1>3, <2>5, <2>6, <2>7 DEF kept
  <1> QED
    BY <1>4, <1>5

-----------------------------------------------------------------------------
(* The arithmetic of next_run. *)

LEMMA Division ==
    ASSUME NEW a \in Nat, NEW b \in Nat \ {0}
    PROVE  /\ a \div b \in Nat /\ a % b \in 0 .. b - 1
           /\ a = b * (a \div b) + (a % b)
  <1>1. a \div b \in Nat /\ a % b \in 0 .. b - 1
    BY Z3
  <1>2. a = b * (a \div b) + (a % b)
    BY Z3
  <1> QED
    BY <1>1, <1>2

LEMMA Remainder ==
    ASSUME NEW q \in Nat, NEW b \in Nat \ {0}, NEW r \in 0 .. b - 1
    PROVE  (b * q + r) % b = r
  BY SMTT(30)

LEMMA Multiples ==
    ASSUME NEW p \in Nat, NEW q \in Nat, NEW b \in Nat \ {0}, p < q
    PROVE  b * p + b <= b * q
  BY SMTT(30)

\* Numbers less than b apart with the same remainder are equal.
LEMMA SameRemainder ==
    ASSUME NEW m \in Nat, NEW n \in Nat, NEW b \in Nat \ {0}, m % b = n % b,
           m < n + b, n < m + b
    PROVE  m = n
  <1> DEFINE p == m \div b  q == n \div b  r == m % b
  <1>1. p \in Nat /\ q \in Nat /\ r \in 0 .. b - 1
    BY Division
  <1>2. m = b * p + r
    BY Division
  <1>3. n = b * q + r
    BY Division
  <1> HIDE DEF p, q, r
  <1>4. CASE p < q
    <2>1. b * p + b <= b * q /\ b * p \in Nat /\ b * q \in Nat
      BY <1>1, <1>4, Multiples
    <2> QED
      BY <1>1, <1>2, <1>3, <2>1
  <1>5. CASE q < p
    <2>1. b * q + b <= b * p /\ b * p \in Nat /\ b * q \in Nat
      BY <1>1, <1>5, Multiples
    <2> QED
      BY <1>1, <1>2, <1>3, <2>1
  <1> QED
    BY <1>1, <1>2, <1>3, <1>4, <1>5

\* The days from one day of the week to another.
LEMMA DaysAhead ==
    ASSUME NEW d \in Nat \ {0}, NEW today \in Nat, NEW day \in 0 .. d - 1
    PROVE  LET ahead == (day + d - (today % d)) % d
           IN  /\ ahead \in 0 .. d - 1
               /\ \E k \in Nat : today + ahead = d * k + day
  <1> DEFINE w == today \div d  wd == today % d  ahead == (day + d - wd) % d
  <1>1. w \in Nat /\ wd \in 0 .. d - 1 /\ today = d * w + wd
    BY Division
  <1> HIDE DEF w, wd
  <1>2. CASE wd <= day
    <2>1. day - wd \in 0 .. d - 1 /\ day + d - wd = d * 1 + (day - wd)
      BY <1>1, <1>2
    <2>2. (d * 1 + (day - wd)) % d = day - wd
      BY <2>1, Remainder
    <2>3. ahead = day - wd
      BY <2>1, <2>2
    <2>4. today + ahead = d * w + day /\ ahead \in 0 .. d - 1
      <3> HIDE DEF ahead
      <3>1. d * w \in Nat
        BY <1>1
      <3> QED
        BY <1>1, <2>1, <2>3, <3>1
    <2> QED
      BY <1>1, <2>4 DEF wd
  <1>3. CASE day < wd
    <2>1. day + d - wd \in 0 .. d - 1 /\ day + d - wd = d * 0 + (day + d - wd)
      BY <1>1, <1>3
    <2>2. (d * 0 + (day + d - wd)) % d = day + d - wd
      BY <2>1, Remainder
    <2>3. ahead = day + d - wd
      BY <2>1, <2>2
    <2>4. today + ahead = d * (w + 1) + day /\ ahead \in 0 .. d - 1
      <3> HIDE DEF ahead
      <3>1. d * w \in Nat /\ d * (w + 1) = d * w + d
        BY <1>1
      <3> QED
        BY <1>1, <2>1, <2>3, <3>1
    <2> DEFINE k == w + 1
    <2>5. k \in Nat /\ today + ahead = d * k + day
      BY <1>1, <2>4
    <2> HIDE DEF k
    <2> QED
      BY <2>4, <2>5 DEF wd
  <1> QED
    BY <1>1, <1>2, <1>3

\* next_run is after now, within a week of it, and on the day and at the time asked for.
LEMMA NextRunIs ==
    ASSUME NEW t \in Nat, NEW day \in 0 .. DaysPerWeek - 1, NEW tick \in 0 .. TicksPerDay - 1
    PROVE  /\ NextRun(t, day, tick) \in t + 1 .. t + Week
           /\ NextRun(t, day, tick) % Week = day * TicksPerDay + tick
           /\ Week \in Nat \ {0}
  <1> DEFINE D == DaysPerWeek  T == TicksPerDay
             today == t \div T  s == t % T
             ahead == (day + D - (today % D)) % D
             candidate == (today + ahead) * T + tick
  <1>0. D \in Nat \ {0} /\ T \in Nat \ {0}
    BY SnapshotAssumption
  <1>1. Week = D * T /\ Week \in Nat \ {0} /\ T <= Week
    <2>1. D * T \in Nat /\ 1 * T <= D * T
      BY <1>0, SMTT(30)
    <2> QED
      BY <1>0, <2>1 DEF Week
  <1>2. today \in Nat /\ s \in 0 .. T - 1 /\ t = T * today + s
    BY <1>0, Division
  <1>3. NextRun(t, day, tick) = IF candidate <= t THEN candidate + Week ELSE candidate
    BY DEF NextRun
  <1> HIDE DEF today, s
  <1>4. ahead \in 0 .. D - 1 /\ \E k \in Nat : today + ahead = D * k + day
    BY <1>0, <1>2, DaysAhead
  <1> HIDE DEF ahead
  <1>5. PICK k \in Nat : today + ahead = D * k + day
    BY <1>4
  <1> HIDE DEF D, T
  <1>6. day \in 0 .. D - 1 /\ tick \in 0 .. T - 1
    BY DEF D, T
  <1>7. /\ T * today \in Nat /\ T * ahead \in Nat /\ T * ahead + T <= Week
        /\ candidate = T * today + T * ahead + tick
    <2>1. T * today \in Nat /\ T * ahead \in Nat
      BY <1>0, <1>2, <1>4
    <2>2. T * ahead + T <= T * D
      BY <1>0, <1>4, Multiples
    <2>3. T * D = D * T
      BY <1>0
    <2>4. (today + ahead) * T = T * today + T * ahead
      BY <1>0, <1>2, <1>4
    <2> QED
      BY <1>1, <2>1, <2>2, <2>3, <2>4
  <1>8. /\ candidate \in Nat /\ candidate <= t + Week
        /\ candidate + Week > t
    <2> HIDE DEF candidate
    <2> QED
      BY <1>0, <1>1, <1>2, <1>6, <1>7
  <1>9. /\ day * T + tick \in 0 .. Week - 1
        /\ candidate = Week * k + (day * T + tick)
    <2>1. day * T \in Nat /\ day * T + T <= Week
      <3>1. T * day + T <= T * D
        BY <1>0, <1>6, Multiples
      <3>2. T * day = day * T /\ T * D = D * T
        BY <1>0, <1>6
      <3>3. day * T \in Nat
        BY <1>0, <1>6
      <3> QED
        BY <1>1, <3>1, <3>2, <3>3
    <2>2. (D * k + day) * T = (D * T) * k + day * T
      BY <1>0, <1>6, SMTT(30)
    <2>3. candidate = (D * k + day) * T + tick
      BY <1>5
    <2>4. (D * T) * k \in Nat
      BY <1>0, <1>1
    <2> HIDE DEF candidate
    <2> QED
      BY <1>0, <1>1, <1>6, <2>1, <2>2, <2>3, <2>4
  <1> HIDE DEF candidate
  <1>10. candidate % Week = day * T + tick
    BY <1>1, <1>9, Remainder
  <1>11. (candidate + Week) % Week = day * T + tick
    <2>1. candidate + Week = Week * (k + 1) + (day * T + tick)
      <3>1. Week * (k + 1) = Week * k + Week /\ Week * k \in Nat
        BY <1>1
      <3> QED
        BY <1>1, <1>9, <3>1
    <2> DEFINE next == k + 1  r == day * T + tick
    <2>2. next \in Nat /\ r \in 0 .. Week - 1 /\ candidate + Week = Week * next + r
      BY <1>9, <2>1
    <2> HIDE DEF next, r
    <2>3. (Week * next + r) % Week = r
      BY <1>1, <2>2, Remainder
    <2> QED
      BY <2>2, <2>3 DEF r
  <1>12. /\ NextRun(t, day, tick) \in t + 1 .. t + Week
         /\ NextRun(t, day, tick) % Week = day * T + tick
    BY <1>1, <1>3, <1>8, <1>10, <1>11
  <1> QED
    BY <1>1, <1>12 DEF T

\* And it is the only moment that is.
LEMMA NextRunOnly ==
    ASSUME NEW t \in Nat, NEW day \in 0 .. DaysPerWeek - 1, NEW tick \in 0 .. TicksPerDay - 1
    PROVE  {m \in t + 1 .. t + Week : m % Week = day * TicksPerDay + tick}
              = {NextRun(t, day, tick)}
  <1> DEFINE n == NextRun(t, day, tick)
  <1>1. n \in t + 1 .. t + Week /\ n % Week = day * TicksPerDay + tick /\ Week \in Nat \ {0}
    BY NextRunIs
  <1> HIDE DEF n
  <1>2. ASSUME NEW m \in t + 1 .. t + Week, m % Week = day * TicksPerDay + tick
        PROVE  m = n
    <2>1. m \in Nat /\ n \in Nat /\ m < n + Week /\ n < m + Week
      BY <1>1
    <2> QED
      BY <1>1, <1>2, <2>1, SameRemainder
  <1>3. {m \in t + 1 .. t + Week : m % Week = day * TicksPerDay + tick} = {n}
    BY <1>1, <1>2
  <1> QED
    BY <1>3 DEF n

-----------------------------------------------------------------------------
(* Types. *)

NameInv == \A p \in Process : pc[p] = "open" => name[p] \in Names

SnapInv == SnapTypeOK /\ NameInv /\ target # 0

LEMMA NamesFinite == IsFiniteSet(Names) /\ \A S \in SUBSET Names : IsFiniteSet(S)
  <1>1. IsFiniteSet(0 .. MaxNow)
    <2>1. 0 \in Int /\ MaxNow \in Int
      BY SnapshotAssumption
    <2> QED
      BY <2>1, FS_Interval
  <1>2. IsFiniteSet(1 .. MaxCounter)
    <2>1. 1 \in Int /\ MaxCounter \in Int
      BY SnapshotAssumption
    <2> QED
      BY <2>1, FS_Interval
  <1>3. IsFiniteSet(Names)
    BY <1>1, <1>2, FS_Product DEF Names
  <1> QED
    BY <1>3, FS_Subset

LEMMA ProcessesFinite ==
    \A S \in SUBSET Process : IsFiniteSet(S) /\ Cardinality(S) \in Nat
  <1>1. IsFiniteSet({Web} \cup {Daemon})
    BY FS_Singleton, FS_AddElement
  <1>2. IsFiniteSet(Process)
    BY <1>1 DEF Process
  <1> QED
    BY <1>2, FS_Subset, FS_CardinalityType

\* What is compared when snapshots are counted.
LEMMA Counts ==
    ASSUME SnapTypeOK
    PROVE  /\ IsFiniteSet(begun) /\ Cardinality(begun) \in Nat
           /\ IsFiniteSet(DOMAIN files) /\ Cardinality(DOMAIN files) \in Nat
  <1>1. begun \in SUBSET Names /\ DOMAIN files \in SUBSET begun
    BY DEF SnapTypeOK
  <1>2. IsFiniteSet(begun) /\ Cardinality(begun) \in Nat
    BY <1>1, NamesFinite, FS_CardinalityType
  <1> QED
    BY <1>1, <1>2, FS_Subset, FS_CardinalityType

LEMMA DoneTypes ==
    ASSUME SnapInv, NEW p \in Process, Done(p), UNCHANGED <<now, begun>>
    PROVE  /\ pc' \in [Process -> {"idle", "down", "dump", "open", "write", "list", "stat",
                                    "remove"}]
           /\ kind' \in {"backup", "safety"}
           /\ name' \in [Process -> Names \cup {NoName}]
           /\ left' \in [Process -> SUBSET begun]
           /\ target' \in Nat /\ target' # 0
           /\ NameInv'
  <1>1. NextRun(now, ScheduleDay, ScheduleTick) \in Nat \ {0}
    <2>1. now \in Nat
      BY SnapshotAssumption DEF SnapInv, SnapTypeOK
    <2>2. /\ NextRun(now, ScheduleDay, ScheduleTick) \in now + 1 .. now + Week
          /\ Week \in Nat
      BY <2>1, NextRunIs, SnapshotAssumption
    <2> QED
      BY <2>1, <2>2
  <1>2. /\ pc' = [pc EXCEPT ![p] = "idle"] /\ name' = [name EXCEPT ![p] = NoName]
        /\ left' = [left EXCEPT ![p] = {}] /\ kind' = kind
        /\ target' = IF p = Daemon THEN NextRun(now, ScheduleDay, ScheduleTick) ELSE target
    BY DEF Done
  <1>3. /\ pc' \in [Process -> {"idle", "down", "dump", "open", "write", "list", "stat",
                                 "remove"}]
        /\ kind' \in {"backup", "safety"}
        /\ name' \in [Process -> Names \cup {NoName}]
        /\ left' \in [Process -> SUBSET begun]
        /\ target' \in Nat /\ target' # 0
    BY <1>1, <1>2 DEF SnapInv, SnapTypeOK
  <1>4. NameInv'
    BY <1>2 DEF NameInv, SnapInv, SnapTypeOK
  <1> QED
    BY <1>3, <1>4

LEMMA InitSnapInv == SnapInit => SnapInv
  <1> SUFFICES ASSUME SnapInit PROVE SnapInv
    OBVIOUS
  <1>1. NextRun(0, ScheduleDay, ScheduleTick) \in Nat \ {0}
    BY NextRunIs, SnapshotAssumption
  <1>2. SnapTypeOK
    BY <1>1, SnapshotAssumption DEF SnapInit, SnapTypeOK
  <1>3. NameInv /\ target # 0
    BY <1>1 DEF SnapInit, NameInv
  <1> QED
    BY <1>2, <1>3 DEF SnapInv

LEMMA OpenSnapInv ==
    ASSUME SnapInv, NEW p \in Process, Open(p)
    PROVE  SnapInv'
  <1>1. /\ UNCHANGED <<now, retention, completed, dropped, kind, left, target, requests,
                        faults, lapses, ran, missed>>
        /\ name[p] \in Names
    BY DEF Open, SnapInv, NameInv
  <1>2. /\ name[p] = <<name[p][1], name[p][2]>>
        /\ name[p][1] \in 0 .. MaxNow /\ name[p][2] \in 1 .. MaxCounter
    BY <1>1, NameFields
  <1>3. CASE Exists(name[p])
    <2>1. /\ name' = [name EXCEPT ![p][2] = @ + 1] /\ name[p][2] < MaxCounter
          /\ UNCHANGED <<files, begun, pc>>
      BY <1>3 DEF Open
    <2>2. name'[p] = <<name[p][1], name[p][2] + 1>>
      BY <1>2, <2>1 DEF SnapInv, SnapTypeOK
    <2>3. name'[p] \in Names
      <3>1. name[p][2] + 1 \in 1 .. MaxCounter
        BY <1>2, <2>1, SnapshotAssumption
      <3> QED
        BY <1>2, <2>2, <3>1 DEF Names
    <2>4. /\ \A q \in Process : q # p => name'[q] = name[q]
          /\ name' \in [Process -> Names \cup {NoName}]
      <3>1. name' = [name EXCEPT ![p] = name'[p]]
        BY <2>1 DEF SnapInv, SnapTypeOK
      <3> QED
        BY <2>3, <3>1 DEF SnapInv, SnapTypeOK
    <2>5. SnapTypeOK'
      BY <1>1, <2>1, <2>4 DEF SnapInv, SnapTypeOK
    <2>6. NameInv'
      BY <2>1, <2>3, <2>4 DEF SnapInv, NameInv
    <2> QED
      BY <1>1, <2>5, <2>6 DEF SnapInv
  <1>4. CASE ~Exists(name[p])
    <2>1. /\ files' = WithFile(name[p], [by |-> p, whole |-> FALSE])
          /\ begun' = begun \cup {name[p]} /\ pc' = [pc EXCEPT ![p] = "write"]
          /\ name' = name
      BY <1>4 DEF Open, Goto
    <2>2. SnapTypeOK'
      BY <1>1, <2>1 DEF SnapInv, SnapTypeOK, WithFile
    <2>3. NameInv' /\ target' # 0
      BY <1>1, <2>1 DEF SnapInv, SnapTypeOK, NameInv
    <2> QED
      BY <2>2, <2>3 DEF SnapInv
  <1> QED
    BY <1>3, <1>4

LEMMA PruneErrCounts ==
    ASSUME SnapInv
    PROVE  /\ PruneErr => faults' \in 0 .. MaxFaults
           /\ \A p \in Process : GiveUp(p) => faults' \in 0 .. MaxFaults
  BY SnapshotAssumption DEF PruneErr, GiveUp, SnapInv, SnapTypeOK

\* The other steps of a process.
LEMMA StepSnapInv ==
    ASSUME SnapInv, NEW p \in Process, Step(p)
    PROVE  SnapInv'
  <1>1. CASE Dump(p)
    <2>1. /\ pc[p] = "dump" /\ pc' = [pc EXCEPT ![p] = "open"]
          /\ name' = [name EXCEPT ![p] = <<now, 1>>]
          /\ UNCHANGED <<now, retention, disk, kind, left, target, requests, faults, lapses,
                          ran, missed>>
      BY <1>1 DEF Dump, Goto
    <2>2. <<now, 1>> \in Names
      BY SnapshotAssumption DEF SnapInv, SnapTypeOK, Names
    <2>3. SnapTypeOK'
      BY <2>1, <2>2 DEF SnapInv, SnapTypeOK, disk
    <2>4. NameInv' /\ target' # 0
      BY <2>1, <2>2 DEF SnapInv, SnapTypeOK, NameInv
    <2> QED
      BY <2>3, <2>4 DEF SnapInv
  <1>2. ASSUME Write(p)
        PROVE  SnapInv'
    <2>1. begun' = begun /\ UNCHANGED <<now, retention, dropped, requests, faults, ran, missed>>
      BY <1>2 DEF Write
    <2>2. /\ DOMAIN files' = DOMAIN files /\ completed' \subseteq begun
          /\ \A n \in DOMAIN files : files'[n] \in [by : Process, whole : BOOLEAN]
      <3>1. CASE /\ Exists(name[p]) /\ files' = [files EXCEPT ![name[p]].whole = TRUE]
                 /\ completed' = completed \cup {name[p]}
        BY <3>1 DEF Exists, SnapInv, SnapTypeOK
      <3>2. CASE UNCHANGED <<files, completed>>
        BY <3>2 DEF SnapInv, SnapTypeOK
      <3> QED
        BY <1>2, <3>1, <3>2 DEF Write
    <2>3. CASE Done(p)
      BY <2>1, <2>2, <2>3, DoneTypes DEF SnapInv, SnapTypeOK
    <2>4. CASE Goto(p, "list") /\ UNCHANGED <<kind, name, left, target>>
      <3>1. NameInv' /\ target' # 0
        BY <2>1, <2>4 DEF Goto, SnapInv, SnapTypeOK, NameInv
      <3> QED
        BY <2>1, <2>2, <2>4, <3>1 DEF Goto, SnapInv, SnapTypeOK
    <2> QED
      BY <1>2, <2>3, <2>4 DEF Write
  <1>3. ASSUME List(p) \/ Stat(p)
        PROVE  SnapInv'
    <2>1. /\ \E where \in {"stat", "remove"} : pc' = [pc EXCEPT ![p] = where]
          /\ \E names \in SUBSET begun : left' = [left EXCEPT ![p] = names]
          /\ UNCHANGED <<now, retention, disk, kind, name, target, requests, ran, missed>>
          /\ UNCHANGED faults \/ PruneErr
      <3>1. CASE List(p)
        BY <3>1 DEF List, Goto, SnapInv, SnapTypeOK
      <3>2. CASE Stat(p)
        <4>1. PICK unread \in SUBSET (left[p] \cap DOMAIN files) :
                 /\ left' = [left EXCEPT ![p] = Surplus((@ \cap DOMAIN files) \ unread)]
                 /\ IF unread = {} THEN UNCHANGED <<faults, lapses>> ELSE PruneErr
          BY <3>2 DEF Stat
        <4>2. Surplus((left[p] \cap DOMAIN files) \ unread) \in SUBSET begun
          BY DEF Surplus, SnapInv, SnapTypeOK
        <4>3. left' = [left EXCEPT ![p] = Surplus((left[p] \cap DOMAIN files) \ unread)]
          BY <4>1
        <4> QED
          BY <3>2, <4>1, <4>2, <4>3 DEF Stat, Goto
      <3> QED
        BY <1>3, <3>1, <3>2
    <2>2. NameInv' /\ target' # 0
      BY <2>1 DEF SnapInv, SnapTypeOK, NameInv
    <2>3. faults' \in 0 .. MaxFaults
      BY <2>1, PruneErrCounts DEF SnapInv, SnapTypeOK
    <2>4. SnapTypeOK'
      BY <2>1, <2>3 DEF SnapInv, SnapTypeOK, disk
    <2> QED
      BY <2>2, <2>4 DEF SnapInv
  <1>4. ASSUME Remove(p)
        PROVE  SnapInv'
    <2>0. UNCHANGED faults \/ PruneErr
      BY <1>4 DEF Remove
    <2>1. /\ UNCHANGED <<now, retention, begun, completed, dropped, requests, ran, missed>>
          /\ faults' \in 0 .. MaxFaults
      BY <1>4, <2>0, PruneErrCounts DEF Remove, SnapInv, SnapTypeOK
    <2>2. CASE Done(p) /\ UNCHANGED files
      BY <2>1, <2>2, DoneTypes DEF SnapInv, SnapTypeOK
    <2>3. ASSUME NEW n, files' = WithoutFile(n) \/ UNCHANGED files,
                 left' = [left EXCEPT ![p] = @ \ {n}], UNCHANGED <<pc, kind, name, target>>
          PROVE  SnapInv'
      <3>1. SnapTypeOK'
        BY <2>1, <2>3 DEF SnapInv, SnapTypeOK, WithoutFile
      <3>2. NameInv' /\ target' # 0
        BY <2>3 DEF SnapInv, NameInv
      <3> QED
        BY <3>1, <3>2 DEF SnapInv
    <2> QED
      BY <1>4, <2>2, <2>3 DEF Remove
  <1> QED
    BY <1>1, <1>2, <1>3, <1>4, OpenSnapInv DEF Step

LEMMA NextSnapInv ==
    ASSUME SnapInv, [SnapNext]_svars
    PROVE  SnapInv'
  <1>0. Web \in Process /\ Daemon \in Process
    BY DEF Process
  <1>1. ASSUME AskForSnapshot
        PROVE  SnapInv'
    <2>1. /\ requests < MaxRequests /\ kind' \in {"backup", "safety"}
          /\ pc' = [pc EXCEPT ![Web] = "dump"] /\ requests' = requests + 1
          /\ UNCHANGED <<now, retention, disk, name, left, target, faults, lapses, ran,
                          missed>>
      BY <1>1 DEF AskForSnapshot, Goto
    <2>2. requests' \in 0 .. MaxRequests
      BY <2>1, SnapshotAssumption DEF SnapInv, SnapTypeOK
    <2>3. SnapTypeOK'
      BY <2>1, <2>2 DEF SnapInv, SnapTypeOK, disk
    <2>4. NameInv' /\ target' # 0
      BY <1>0, <2>1 DEF SnapInv, SnapTypeOK, NameInv
    <2> QED
      BY <2>3, <2>4 DEF SnapInv
  <1>2. ASSUME WakeUp
        PROVE  SnapInv'
    <2>1. /\ now >= target /\ pc' = [pc EXCEPT ![Daemon] = "dump"]
          /\ ran' = ran \cup {target}
          /\ UNCHANGED <<now, retention, disk, kind, name, left, target, requests, faults,
                          lapses, missed>>
      BY <1>2 DEF WakeUp, Goto
    <2>2. target \in 1 .. MaxNow
      BY <2>1, SnapshotAssumption DEF SnapInv, SnapTypeOK
    <2>3. SnapTypeOK'
      BY <2>1, <2>2 DEF SnapInv, SnapTypeOK, disk
    <2>4. NameInv' /\ target' # 0
      BY <1>0, <2>1 DEF SnapInv, SnapTypeOK, NameInv
    <2> QED
      BY <2>3, <2>4 DEF SnapInv
  <1>3. ASSUME DeleteSnapshot
        PROVE  SnapInv'
    <2>1. PICK n \in DOMAIN files : files' = WithoutFile(n) /\ dropped' = dropped \cup {n}
      BY <1>3 DEF DeleteSnapshot
    <2>2. UNCHANGED <<now, retention, begun, completed, procs, requests, faults, lapses, ran,
                      missed>>
      BY <1>3 DEF DeleteSnapshot
    <2>3. SnapTypeOK'
      BY <2>1, <2>2 DEF SnapInv, SnapTypeOK, WithoutFile, procs
    <2>4. NameInv' /\ target' # 0
      BY <2>2 DEF SnapInv, NameInv, procs
    <2> QED
      BY <2>3, <2>4 DEF SnapInv
  <1>4. ASSUME NEW p \in Process, Done(p), faults' \in 0 .. MaxFaults,
               UNCHANGED <<now, retention, disk, requests, ran, missed>>
        PROVE  SnapInv'
    <2>1. SnapTypeOK'
      BY <1>4, DoneTypes DEF SnapInv, SnapTypeOK, disk
    <2>2. NameInv' /\ target' # 0
      BY <1>4, DoneTypes DEF disk
    <2> QED
      BY <2>1, <2>2 DEF SnapInv
  <1>5. CASE Restart
    <2>1. faults' \in 0 .. MaxFaults
      BY <1>5 DEF Restart, SnapInv, SnapTypeOK
    <2> QED
      BY <1>0, <1>4, <1>5, <2>1 DEF Restart
  <1>6. ASSUME NEW p \in Process, DiskFails(p)
        PROVE  SnapInv'
    <2>1. faults' \in 0 .. MaxFaults
      BY <1>6, PruneErrCounts DEF DiskFails
    <2> QED
      BY <1>4, <1>6, <2>1 DEF DiskFails
  <1>7. ASSUME Tick
        PROVE  SnapInv'
    <2>1. /\ now < MaxNow /\ now' = now + 1
          /\ UNCHANGED <<retention, disk, procs, requests, faults, lapses, ran>>
          /\ missed' \subseteq missed \cup {now'}
      BY <1>7 DEF Tick
    <2>2. now' \in 1 .. MaxNow
      BY <2>1, SnapshotAssumption DEF SnapInv, SnapTypeOK
    <2>3. SnapTypeOK'
      BY <2>1, <2>2 DEF SnapInv, SnapTypeOK, disk, procs
    <2>4. NameInv' /\ target' # 0
      BY <2>1 DEF SnapInv, NameInv, procs
    <2> QED
      BY <2>3, <2>4 DEF SnapInv
  <1>8. ASSUME NEW p \in Process, Kill(p)
        PROVE  SnapInv'
    <2>1. /\ \E where \in {"idle", "down"} : pc' = [pc EXCEPT ![p] = where]
          /\ name' = [name EXCEPT ![p] = NoName] /\ left' = [left EXCEPT ![p] = {}]
          /\ UNCHANGED <<now, retention, disk, kind, target, requests, ran>>
          /\ faults' \in 0 .. MaxFaults
          /\ missed' = missed \/ (missed' = missed \cup {target} /\ now >= target)
      BY <1>8, PruneErrCounts DEF Kill, Goto
    <2>2. missed' \subseteq 1 .. MaxNow
      <3>1. now >= target => target \in 1 .. MaxNow
        BY SnapshotAssumption DEF SnapInv, SnapTypeOK
      <3> QED
        BY <2>1, <3>1 DEF SnapInv, SnapTypeOK
    <2>3. SnapTypeOK'
      BY <2>1, <2>2, SnapshotAssumption DEF SnapInv, SnapTypeOK, disk
    <2>4. NameInv' /\ target' # 0
      BY <2>1 DEF SnapInv, SnapTypeOK, NameInv
    <2> QED
      BY <2>3, <2>4 DEF SnapInv
  <1>9. CASE UNCHANGED svars
    BY <1>9 DEF svars, disk, procs, SnapInv, SnapTypeOK, NameInv
  <1> QED
    BY <1>1, <1>2, <1>3, <1>5, <1>6, <1>7, <1>8, <1>9, StepSnapInv DEF SnapNext

\* However often snapshots are asked for, due, failing and killed, every variable keeps its
\* type: a process removes only names it has seen begun, and what is written is a name of
\* its own making.
THEOREM SnapshotsTypeCorrect == SnapSpec => []SnapTypeOK
  <1>1. SnapSpec => []SnapInv
    BY InitSnapInv, NextSnapInv, PTL DEF SnapSpec
  <1>2. SnapInv => SnapTypeOK
    BY DEF SnapInv
  <1> QED
    BY <1>1, <1>2, PTL

-----------------------------------------------------------------------------
(* What is about to be removed stays superseded. *)

\* As many names as are to be kept are newer and were begun.
Superseded(n) == Cardinality(NewerThan(begun, n)) >= retention

PruneInv == \A p \in Process : pc[p] = "remove" => \A n \in left[p] : Superseded(n)

LEMMA HistoryGrows ==
    ASSUME SnapInv, [SnapNext]_svars
    PROVE  /\ retention' = retention /\ begun \subseteq begun'
           /\ completed \subseteq completed' /\ dropped \subseteq dropped'
  <1>1. ASSUME NEW p \in Process, Step(p)
        PROVE  /\ retention' = retention /\ begun \subseteq begun'
               /\ completed \subseteq completed' /\ dropped \subseteq dropped'
    BY <1>1 DEF Step, Dump, Open, Write, List, Stat, Remove, disk
  <1> QED
    BY <1>1 DEF SnapNext, svars, disk, AskForSnapshot, WakeUp, DeleteSnapshot, Restart, Tick,
                DiskFails, Kill

\* Nothing makes a superseded name one to keep again.
LEMMA StaysSuperseded ==
    ASSUME SnapInv, SnapInv', retention' = retention, begun \subseteq begun',
           NEW n, Superseded(n)
    PROVE  Superseded(n)'
  <1>1. NewerThan(begun, n) \subseteq NewerThan(begun', n)
    BY DEF NewerThan
  <1>2. IsFiniteSet(begun) /\ IsFiniteSet(begun') /\ retention \in Nat
    <2>1. begun \in SUBSET Names /\ begun' \in SUBSET Names
      BY DEF SnapInv, SnapTypeOK
    <2>2. retention \in Nat
      BY SnapshotAssumption DEF SnapInv, SnapTypeOK
    <2> QED
      BY <2>1, <2>2, NamesFinite
  <1>3. /\ IsFiniteSet(NewerThan(begun', n)) /\ Cardinality(NewerThan(begun', n)) \in Nat
        /\ Cardinality(NewerThan(begun, n)) \in Nat
    BY <1>2, NewerCount
  <1>4. Cardinality(NewerThan(begun, n)) <= Cardinality(NewerThan(begun', n))
    BY <1>1, <1>3, FS_Subset
  <1> QED
    BY <1>2, <1>3, <1>4 DEF Superseded

\* The files that make a name surplus in a listing supersede it.
LEMMA SurplusSuperseded ==
    ASSUME SnapInv, NEW names \in SUBSET begun, NEW n \in Surplus(names)
    PROVE  Superseded(n)
  <1>1. Cardinality(NewerThan(names, n)) >= retention
    BY DEF Surplus, NewerThan
  <1>2. NewerThan(names, n) \subseteq NewerThan(begun, n)
    BY DEF NewerThan
  <1>3. IsFiniteSet(begun) /\ retention \in Nat
    BY Counts, SnapshotAssumption DEF SnapInv, SnapTypeOK
  <1>4. IsFiniteSet(NewerThan(begun, n)) /\ Cardinality(NewerThan(begun, n)) \in Nat
    BY <1>3, NewerCount
  <1>5. /\ Cardinality(NewerThan(names, n)) <= Cardinality(NewerThan(begun, n))
        /\ Cardinality(NewerThan(names, n)) \in Nat
    BY <1>2, <1>4, FS_Subset, FS_CardinalityType
  <1> QED
    BY <1>1, <1>3, <1>4, <1>5 DEF Superseded

LEMMA SupersededOutdated ==
    ASSUME SnapInv, NEW n \in begun, Superseded(n)
    PROVE  Cardinality({m \in begun \ {n} : m[1] >= n[1]}) >= retention
  <1> DEFINE later == {m \in begun \ {n} : m[1] >= n[1]}
  <1>1. begun \subseteq Names /\ IsFiniteSet(begun) /\ retention \in Nat
    BY Counts, SnapshotAssumption DEF SnapInv, SnapTypeOK
  <1>2. NewerThan(begun, n) \subseteq later
    <2>1. \A m \in begun : m[1] \in Nat
      BY <1>1, NameFields, SnapshotAssumption
    <2>2. \A m \in begun : Newer(m, n) => m[1] >= n[1]
      BY <2>1 DEF Newer
    <2>3. ~Newer(n, n)
      BY <1>1, NewerOrder
    <2> QED
      BY <2>2, <2>3 DEF NewerThan
  <1>3. IsFiniteSet(later) /\ Cardinality(later) \in Nat
    BY <1>1, FS_Subset, FS_CardinalityType
  <1>4. Cardinality(NewerThan(begun, n)) <= Cardinality(later)
    BY <1>2, <1>3, FS_Subset
  <1>5. Cardinality(NewerThan(begun, n)) \in Nat
    BY <1>1, NewerCount
  <1> QED
    BY <1>1, <1>3, <1>4, <1>5 DEF Superseded

\* A name is chosen for removal by Stat alone.
LEMMA StatChooses ==
    ASSUME SnapInv, [SnapNext]_svars, NEW p \in Process, pc'[p] = "remove"
    PROVE  Stat(p) \/ left'[p] = {} \/ (pc[p] = "remove" /\ left'[p] \subseteq left[p])
  <1> SUFFICES ASSUME ~Stat(p), left'[p] # {}
               PROVE  pc[p] = "remove" /\ left'[p] \subseteq left[p]
    OBVIOUS
  <1>0. DOMAIN pc = Process /\ DOMAIN left = Process
    BY DEF SnapInv, SnapTypeOK
  <1>1. ASSUME NEW q \in Process, Done(q)
        PROVE  pc[p] = "remove" /\ left'[p] \subseteq left[p]
    BY <1>0, <1>1 DEF Done
  <1>2. ASSUME NEW q \in Process, Step(q)
        PROVE  pc[p] = "remove" /\ left'[p] \subseteq left[p]
    <2>1. CASE Dump(q)
      BY <1>0, <2>1 DEF Dump, Goto
    <2>2. CASE List(q)
      <3>1. \/ pc' = [pc EXCEPT ![q] = "stat"]
            \/ pc' = [pc EXCEPT ![q] = "remove"] /\ left'[q] = {}
        BY <1>0, <2>2 DEF List, Goto
      <3>2. \A r \in Process \ {q} : left'[r] = left[r]
        BY <1>0, <2>2 DEF List
      <3> QED
        BY <1>0, <3>1, <3>2
    <2>3. CASE Open(q)
      BY <1>0, <2>3 DEF Open, Goto
    <2>4. CASE Write(q)
      BY <1>0, <1>1, <2>4 DEF Write, Goto
    <2>5. CASE Remove(q)
      BY <1>0, <1>1, <2>5 DEF Remove
    <2>6. CASE Stat(q)
      BY <1>0, <2>6 DEF Stat, Goto
    <2> QED
      BY <1>2, <2>1, <2>2, <2>3, <2>4, <2>5, <2>6 DEF Step
  <1>3. ASSUME NEW q \in Process, DiskFails(q) \/ Kill(q)
        PROVE  pc[p] = "remove" /\ left'[p] \subseteq left[p]
    BY <1>0, <1>1, <1>3 DEF DiskFails, Kill, Goto
  <1>4. CASE AskForSnapshot \/ WakeUp \/ DeleteSnapshot \/ Tick \/ UNCHANGED svars
    BY <1>0, <1>4 DEF AskForSnapshot, WakeUp, DeleteSnapshot, Tick, svars, procs, Goto
  <1>5. CASE Restart
    <2>1. Daemon \in Process
      BY DEF Process
    <2> QED
      BY <1>1, <1>5, <2>1 DEF Restart
  <1> QED
    BY <1>2, <1>3, <1>4, <1>5 DEF SnapNext

LEMMA NextPruneInv ==
    ASSUME SnapInv, SnapInv', PruneInv, [SnapNext]_svars
    PROVE  PruneInv'
  <1> SUFFICES ASSUME NEW p \in Process, pc'[p] = "remove", NEW n \in left'[p]
               PROVE  Superseded(n)'
    BY DEF PruneInv
  <1>1. retention' = retention /\ begun \subseteq begun'
    BY HistoryGrows
  <1>2. Superseded(n)
    <2>1. CASE Stat(p)
      <3>1. PICK unread : left' = [left EXCEPT ![p] =
                                      Surplus((@ \cap DOMAIN files) \ unread)]
        BY <2>1 DEF Stat
      <3> DEFINE names == (left[p] \cap DOMAIN files) \ unread
      <3>2. left'[p] = Surplus(names) /\ names \in SUBSET begun
        BY <3>1 DEF SnapInv, SnapTypeOK
      <3> HIDE DEF names
      <3> QED
        BY <3>2, SurplusSuperseded
    <2>2. CASE pc[p] = "remove" /\ left'[p] \subseteq left[p]
      BY <2>2 DEF PruneInv
    <2> QED
      BY <2>1, <2>2, StatChooses
  <1> QED
    BY <1>1, <1>2, StaysSuperseded

\* A file goes when it is pruned or deleted, and else stays as whole as it was.
LEMMA FilesStay ==
    ASSUME SnapInv, [SnapNext]_svars, NEW n \in DOMAIN files
    PROVE  \/ n \in DOMAIN files' /\ (files[n].whole => files'[n].whole)
           \/ n \in dropped'
           \/ \E p \in Process : pc[p] = "remove" /\ n \in left[p]
  <1>1. ASSUME NEW p \in Process, Step(p)
        PROVE  \/ n \in DOMAIN files' /\ (files[n].whole => files'[n].whole)
               \/ \E q \in Process : pc[q] = "remove" /\ n \in left[q]
    <2>1. CASE Open(p)
      BY <2>1 DEF Open, WithFile, Exists
    <2>2. CASE Write(p)
      BY <2>2 DEF Write, Exists, SnapInv, SnapTypeOK
    <2>3. CASE Remove(p)
      BY <2>3 DEF Remove, WithoutFile
    <2> QED
      BY <1>1, <2>1, <2>2, <2>3 DEF Step, Dump, List, Stat, disk
  <1>2. CASE DeleteSnapshot
    BY <1>2 DEF DeleteSnapshot, WithoutFile
  <1> QED
    BY <1>1, <1>2 DEF SnapNext, svars, disk, AskForSnapshot, WakeUp, Restart, Tick, DiskFails,
                Kill

\* A name becomes complete when its file does.
LEMMA CompletesWhole ==
    ASSUME SnapInv, [SnapNext]_svars, NEW n \in completed' \ completed
    PROVE  /\ n \in DOMAIN files' /\ files'[n].whole
           /\ completed' = completed \cup {n}
  <1>1. ASSUME NEW p \in Process, Step(p)
        PROVE  /\ n \in DOMAIN files' /\ files'[n].whole
               /\ completed' = completed \cup {n}
    <2>1. CASE Write(p)
      BY <2>1 DEF Write, Exists, SnapInv, SnapTypeOK
    <2> QED
      BY <1>1, <2>1 DEF Step, Dump, List, Stat, Open, Remove, disk
  <1> QED
    BY <1>1 DEF SnapNext, svars, disk, AskForSnapshot, WakeUp, Restart, Tick, DiskFails, Kill,
                DeleteSnapshot

WholeInv ==
    /\ \A n \in completed : \/ n \in DOMAIN files /\ files[n].whole
                            \/ n \in dropped
                            \/ Superseded(n)
    /\ completed # {} => \E c \in completed : \A n \in completed \ {c} : Newer(c, n)

LEMMA NextWholeInv ==
    ASSUME SnapInv, SnapInv', PruneInv, WholeInv, [SnapNext]_svars
    PROVE  WholeInv'
  <1>1. /\ retention' = retention /\ begun \subseteq begun'
        /\ completed \subseteq completed' /\ dropped \subseteq dropped'
    BY HistoryGrows
  <1>2. ASSUME NEW n \in completed'
        PROVE  (n \in DOMAIN files' /\ files'[n].whole) \/ n \in dropped' \/ Superseded(n)'
    <2>1. CASE n \notin completed
      BY <2>1, CompletesWhole
    <2>2. CASE n \in completed /\ n \in DOMAIN files /\ files[n].whole
      <3>1. \/ n \in DOMAIN files' /\ files'[n].whole
            \/ n \in dropped'
            \/ \E p \in Process : pc[p] = "remove" /\ n \in left[p]
        BY <2>2, FilesStay
      <3>2. ASSUME NEW p \in Process, pc[p] = "remove", n \in left[p]
            PROVE  Superseded(n)'
        BY <1>1, <3>2, StaysSuperseded DEF PruneInv
      <3> QED
        BY <3>1, <3>2
    <2>3. CASE n \in completed /\ Superseded(n)
      BY <1>1, <2>3, StaysSuperseded
    <2> QED
      BY <1>1, <2>1, <2>2, <2>3 DEF WholeInv
  <1>3. completed' # {} => \E c \in completed' : \A n \in completed' \ {c} : Newer(c, n)
    <2>1. CASE completed' = completed
      BY <2>1 DEF WholeInv
    <2>2. CASE completed' # completed
      <3>1. PICK n \in completed' \ completed : completed' = completed \cup {n}
        BY <1>1, <2>2, CompletesWhole
      <3>2. CASE completed = {}
        BY <3>1, <3>2
      <3>3. CASE completed # {}
        <4>1. PICK c \in completed : \A m \in completed \ {c} : Newer(c, m)
          BY <3>3 DEF WholeInv
        <4>2. completed' \subseteq Names
          BY DEF SnapInv, SnapTypeOK
        <4>3. CASE Newer(c, n)
          BY <3>1, <4>1, <4>3
        <4>4. CASE Newer(n, c)
          <5>1. \A m \in completed' \ {n} : Newer(n, m)
            BY <3>1, <4>1, <4>2, <4>4, NewerOrder
          <5> QED
            BY <5>1
        <4> QED
          BY <3>1, <4>2, <4>3, <4>4, NewerOrder
      <3> QED
        BY <3>2, <3>3
    <2> QED
      BY <2>1, <2>2
  <1> QED
    BY <1>2, <1>3 DEF WholeInv

LEMMA PruningInv == SnapSpec => [](SnapInv /\ PruneInv /\ WholeInv)
  <1>1. SnapInit => SnapInv /\ PruneInv /\ WholeInv
    <2>1. SnapInit => PruneInv /\ WholeInv
      BY DEF SnapInit, PruneInv, WholeInv
    <2> QED
      BY <2>1, InitSnapInv
  <1>2. SnapInv /\ PruneInv /\ WholeInv /\ [SnapNext]_svars
           => (SnapInv /\ PruneInv /\ WholeInv)'
    BY NextSnapInv, NextPruneInv, NextWholeInv
  <1> QED
    BY <1>1, <1>2, PTL DEF SnapSpec

-----------------------------------------------------------------------------
\* Whatever two prunes, deletes, failures and kills overlap, a snapshot that is
\* pruned was outdated: os.remove never takes one of the newest.
THEOREM PrunesOnlyOldest == SnapSpec => PrunesOldest
  <1> DEFINE A == \A n \in DOMAIN files \ DOMAIN files' :
                     n \in dropped' \/
                     Cardinality({m \in begun \ {n} : m[1] >= n[1]}) >= retention
  <1>1. ASSUME SnapInv, PruneInv, [SnapNext]_svars
        PROVE  A
    <2> SUFFICES ASSUME NEW n \in DOMAIN files \ DOMAIN files', n \notin dropped'
                 PROVE  Cardinality({m \in begun \ {n} : m[1] >= n[1]}) >= retention
      OBVIOUS
    <2>1. n \in begun
      BY <1>1 DEF SnapInv, SnapTypeOK
    <2>2. Superseded(n)
      BY <1>1, FilesStay DEF PruneInv
    <2> QED
      BY <1>1, <2>1, <2>2, SupersededOutdated
  <1>2. SnapInv /\ PruneInv /\ [SnapNext]_svars => [A]_svars
    BY <1>1
  <1> QED
    BY <1>2, PruningInv, PTL DEF SnapSpec, PrunesOldest

\* Truncated archives push out the last whole one only when there are as many of them as
\* snapshots to keep, for every order of writes, failures and prunes.
THEOREM LastWholeStays == SnapSpec => []WholeOneStays
  <1>1. ASSUME SnapInv, WholeInv
        PROVE  WholeOneStays
    <2> SUFFICES ASSUME completed # {}, dropped = {},
                        ~\E n \in DOMAIN files : files[n].whole
                 PROVE  Cardinality(begun \ completed) >= retention
      BY DEF WholeOneStays
    <2>1. PICK c \in completed : \A n \in completed \ {c} : Newer(c, n)
      BY <1>1 DEF WholeInv
    <2>2. Superseded(c)
      BY <1>1 DEF WholeInv
    <2>3. begun \subseteq Names /\ completed \subseteq begun /\ retention \in Nat
      BY <1>1, SnapshotAssumption DEF SnapInv, SnapTypeOK
    <2>4. NewerThan(begun, c) \subseteq begun \ completed
      <3>1. \A n \in Names : ~Newer(n, n)
        BY NewerOrder
      <3>2. \A n \in completed \ {c} : ~Newer(n, c)
        BY <2>1, <2>3, <3>1, NewerOrder
      <3> QED
        BY <2>3, <3>1, <3>2 DEF NewerThan
    <2>5. IsFiniteSet(begun \ completed) /\ Cardinality(begun \ completed) \in Nat
      BY <1>1, Counts, FS_Subset, FS_CardinalityType DEF SnapInv
    <2>6. /\ Cardinality(NewerThan(begun, c)) <= Cardinality(begun \ completed)
          /\ Cardinality(NewerThan(begun, c)) \in Nat
      BY <2>4, <2>5, FS_Subset, FS_CardinalityType
    <2> QED
      BY <2>2, <2>3, <2>5, <2>6 DEF Superseded
  <1> QED
    BY <1>1, PruningInv, PTL

\* Whatever the calendar and the schedule are, next_run never names a moment that has
\* passed, never skips one and never names another day.
THEOREM NextRunAlwaysRight == SnapSpec => []NextRunRight
  <1>1. ASSUME SnapInv
        PROVE  NextRunRight
    <2>1. now \in Nat
      BY <1>1, SnapshotAssumption DEF SnapInv, SnapTypeOK
    <2> QED
      BY <2>1, NextRunOnly DEF NextRunRight
  <1> QED
    BY <1>1, PruningInv, PTL

-----------------------------------------------------------------------------
(* The number of snapshots.  A process between creating its file and the    *)
(* end of its prune will bring them down to retention, and those that gave  *)
(* up or met an error are counted.  Each of them owes for one file at most, *)
(* however many it leaves, which is why the bound has to hold for whatever  *)
(* set of them fails as well.                                               *)

Pruners == {p \in Process : pc[p] \in {"write", "list", "stat", "remove"}}

\* The files that a process will not remove.
Spared(p) == Cardinality(DOMAIN files \ left[p])

\* The prune of p, if it runs to its end, leaves no more than u too many.
WillTrim(p, u) ==
    \/ pc[p] \in {"write", "list"}
    \/ pc[p] = "stat" /\ Spared(p) <= u
    \/ pc[p] = "remove" /\ Spared(p) <= retention + u

Trimmed(S, u) == Cardinality(DOMAIN files) <= retention + u \/ \E p \in S : WillTrim(p, u)

RetentionInv ==
    /\ lapses \in Nat
    /\ \A K \in SUBSET Pruners : Trimmed(Pruners \ K, lapses + Cardinality(K))

LEMMA SparedIs ==
    ASSUME SnapInv, NEW p \in Process
    PROVE  Spared(p) \in Nat /\ Spared(p) <= Cardinality(DOMAIN files)
  <1>1. IsFiniteSet(DOMAIN files) /\ (DOMAIN files \ left[p]) \in SUBSET DOMAIN files
    BY Counts DEF SnapInv
  <1> QED
    BY <1>1, FS_Subset, FS_CardinalityType DEF Spared

LEMMA FilesNext ==
    ASSUME SnapInv'
    PROVE  /\ IsFiniteSet(DOMAIN files') /\ Cardinality(DOMAIN files') \in Nat
           /\ \A p \in Process : Spared(p)' \in Nat
  <1>1. DOMAIN files' \subseteq begun' /\ begun' \in SUBSET Names
    BY DEF SnapInv, SnapTypeOK
  <1>2. IsFiniteSet(DOMAIN files') /\ Cardinality(DOMAIN files') \in Nat
    BY <1>1, NamesFinite, FS_CardinalityType
  <1>3. ASSUME NEW p \in Process
        PROVE  Spared(p)' \in Nat
    BY <1>2, FS_Subset, FS_CardinalityType DEF Spared
  <1> QED
    BY <1>2, <1>3

\* Fewer files or more to remove, and fewer are spared.
LEMMA SparesLess ==
    ASSUME SnapInv, SnapInv', NEW p \in Process,
           DOMAIN files' \ left'[p] \subseteq DOMAIN files \ left[p]
    PROVE  Spared(p)' <= Spared(p) /\ Spared(p) \in Nat /\ Spared(p)' \in Nat
  <1>1. IsFiniteSet(DOMAIN files \ left[p])
    BY Counts, FS_Subset DEF SnapInv
  <1> QED
    BY <1>1, FS_Subset, FS_CardinalityType DEF Spared

LEMMA FewerFiles ==
    ASSUME SnapInv, DOMAIN files' \subseteq DOMAIN files
    PROVE  Cardinality(DOMAIN files') <= Cardinality(DOMAIN files)
  BY Counts, FS_Subset DEF SnapInv

\* Others than the process that steps.
LEMMA StillTrims ==
    ASSUME SnapInv, SnapInv', retention' = retention, NEW p \in Process, NEW u \in Nat,
           WillTrim(p, u), pc'[p] = pc[p], left'[p] = left[p],
           DOMAIN files' \subseteq DOMAIN files
    PROVE  p \in Pruners' /\ WillTrim(p, u)'
  <1>1. Spared(p)' <= Spared(p) /\ Spared(p) \in Nat /\ Spared(p)' \in Nat
    BY SparesLess
  <1>2. retention \in Nat
    BY SnapshotAssumption DEF SnapInv, SnapTypeOK
  <1>3. WillTrim(p, u)'
    BY <1>1, <1>2 DEF WillTrim
  <1> QED
    BY <1>3 DEF WillTrim, Pruners

\* A step that creates no file, in which the processes of G give up, err or are let off.
LEMMA KeepsRetention ==
    ASSUME SnapInv, SnapInv', RetentionInv, retention' = retention,
           NEW G \in SUBSET Pruners, Pruners' \subseteq Pruners,
           lapses' \in Nat, lapses' >= lapses + Cardinality(G),
           DOMAIN files' \subseteq DOMAIN files,
           \A p \in Pruners \ G : \A u \in Nat : WillTrim(p, u) =>
              \/ p \in Pruners' /\ WillTrim(p, u)'
              \/ Cardinality(DOMAIN files') <= retention + u
    PROVE  RetentionInv'
  <1>0. retention \in Nat
    BY SnapshotAssumption DEF SnapInv, SnapTypeOK
  <1> SUFFICES ASSUME NEW K \in SUBSET Pruners'
               PROVE  Trimmed(Pruners \ K, lapses + Cardinality(K))'
    BY DEF RetentionInv
  <1>1. PICK u \in Nat, v \in Nat : /\ u = lapses + Cardinality(K \cup G) /\ u <= v
                                    /\ v = lapses' + Cardinality(K)
    <2>1. K \in SUBSET Process /\ G \in SUBSET Process /\ K \cap G \in SUBSET Process
      BY DEF Pruners
    <2>2. /\ IsFiniteSet(K) /\ Cardinality(K) \in Nat
          /\ IsFiniteSet(G) /\ Cardinality(G) \in Nat
          /\ Cardinality(K \cap G) \in Nat /\ Cardinality(K \cup G) \in Nat
      BY <2>1, ProcessesFinite
    <2>3. Cardinality(K \cup G)
             = Cardinality(K) + Cardinality(G) - Cardinality(K \cap G)
      BY <2>2, FS_Union
    <2> QED
      BY <2>2, <2>3 DEF RetentionInv
  <1>2. Trimmed(Pruners \ (K \cup G), u)
    BY <1>1 DEF RetentionInv
  <1>3. CASE Cardinality(DOMAIN files) <= retention + u
    <2>1. Cardinality(DOMAIN files') <= Cardinality(DOMAIN files)
      BY FewerFiles
    <2>2. Cardinality(DOMAIN files') \in Nat /\ Cardinality(DOMAIN files) \in Nat
      BY FilesNext, Counts DEF SnapInv
    <2>3. Cardinality(DOMAIN files') <= retention + v
      BY <1>0, <1>1, <1>3, <2>1, <2>2
    <2> QED
      BY <1>1, <2>3 DEF Trimmed
  <1>4. CASE \E p \in Pruners \ (K \cup G) : WillTrim(p, u)
    <2>1. PICK p \in Pruners \ (K \cup G) : WillTrim(p, u)
      BY <1>4
    <2>2. CASE p \in Pruners' /\ WillTrim(p, u)'
      <3>1. p \in Process
        BY DEF Pruners
      <3>2. Spared(p)' \in Nat
        BY <3>1, FilesNext
      <3>3. WillTrim(p, v)'
        BY <1>0, <1>1, <2>2, <3>2 DEF WillTrim
      <3> QED
        BY <1>1, <2>1, <2>2, <3>3 DEF Trimmed
    <2>3. CASE Cardinality(DOMAIN files') <= retention + u
      <3>1. Cardinality(DOMAIN files') \in Nat
        BY FilesNext
      <3>2. Cardinality(DOMAIN files') <= retention + v
        BY <1>0, <1>1, <2>3, <3>1
      <3> QED
        BY <1>1, <3>2 DEF Trimmed
    <2> QED
      BY <2>1, <2>2, <2>3
  <1> QED
    BY <1>2, <1>3, <1>4 DEF Trimmed

\* A step of one process that leaves the files alone or removes some.
LEMMA OthersStillTrim ==
    ASSUME SnapInv, SnapInv', retention' = retention, NEW p \in Process,
           \A q \in Process \ {p} : pc'[q] = pc[q] /\ left'[q] = left[q],
           DOMAIN files' \subseteq DOMAIN files
    PROVE  /\ \A q \in Pruners \ {p} : \A u \in Nat :
                 WillTrim(q, u) => q \in Pruners' /\ WillTrim(q, u)'
           /\ Pruners' \ {p} = Pruners \ {p}
  <1>1. Pruners \subseteq Process
    BY DEF Pruners
  <1>2. \A q \in Pruners \ {p} : \A u \in Nat :
           WillTrim(q, u) => q \in Pruners' /\ WillTrim(q, u)'
    BY <1>1, StillTrims
  <1>3. Pruners' \ {p} = Pruners \ {p}
    BY DEF Pruners
  <1> QED
    BY <1>2, <1>3

\* A process gives up, or meets an error in its prune: one more lapse.
LEMMA GivesUp ==
    ASSUME SnapInv, SnapInv', RetentionInv, retention' = retention, NEW p \in Process,
           p \in Pruners' => p \in Pruners,
           lapses' = IF Pruning(p) THEN lapses + 1 ELSE lapses,
           \A q \in Process \ {p} : pc'[q] = pc[q] /\ left'[q] = left[q],
           DOMAIN files' \subseteq DOMAIN files
    PROVE  RetentionInv'
  <1> DEFINE G == Pruners \cap {p}
  <1>1. lapses' \in Nat /\ lapses' >= lapses + Cardinality(G)
    <2>1. Cardinality({}) = 0 /\ Cardinality({p}) = 1
      BY FS_EmptySet, FS_Singleton
    <2>2. CASE p \in Pruners
      <3>1. G = {p} /\ lapses' = lapses + 1
        BY <2>2 DEF Pruners, Pruning
      <3>2. Cardinality(G) = 1
        BY <2>1, <3>1, Zenon
      <3> HIDE DEF G
      <3> QED
        BY <3>1, <3>2 DEF RetentionInv
    <2>3. CASE p \notin Pruners
      <3>1. G = {} /\ lapses' = lapses
        BY <2>3 DEF Pruners, Pruning
      <3>2. Cardinality(G) = 0
        BY <2>1, <3>1, Zenon
      <3> HIDE DEF G
      <3> QED
        BY <3>1, <3>2 DEF RetentionInv
    <2> QED
      BY <2>2, <2>3
  <1>2. /\ Pruners' \subseteq Pruners
        /\ \A q \in Pruners \ G : \A u \in Nat :
              WillTrim(q, u) => q \in Pruners' /\ WillTrim(q, u)'
    BY OthersStillTrim
  <1>3. G \in SUBSET Pruners
    OBVIOUS
  <1> HIDE DEF G
  <1> QED
    BY <1>1, <1>2, <1>3, KeepsRetention

\* A process goes on pruning, or ends a prune that has nothing left to remove, or does
\* something before it creates a file.
LEMMA GoesOn ==
    ASSUME SnapInv, SnapInv', RetentionInv, retention' = retention, NEW p \in Process,
           lapses' = lapses,
           \A q \in Process \ {p} : pc'[q] = pc[q] /\ left'[q] = left[q],
           DOMAIN files' \subseteq DOMAIN files,
           p \in Pruners' => p \in Pruners,
           p \in Pruners => \A u \in Nat : WillTrim(p, u) =>
              \/ p \in Pruners' /\ WillTrim(p, u)'
              \/ Cardinality(DOMAIN files') <= retention + u
    PROVE  RetentionInv'
  <1> DEFINE G == {}
  <1>1. Cardinality(G) = 0 /\ G \in SUBSET Pruners
    BY FS_EmptySet
  <1>2. lapses' \in Nat /\ lapses' >= lapses + Cardinality(G)
    BY <1>1 DEF RetentionInv
  <1>3. /\ Pruners' \subseteq Pruners
        /\ \A q \in Pruners \ G : \A u \in Nat : WillTrim(q, u) =>
              \/ q \in Pruners' /\ WillTrim(q, u)'
              \/ Cardinality(DOMAIN files') <= retention + u
    BY OthersStillTrim
  <1> HIDE DEF G
  <1> QED
    BY <1>1, <1>2, <1>3, KeepsRetention

\* A new file, for which its process will prune.
LEMMA OpensFile ==
    ASSUME SnapInv, SnapInv', RetentionInv, retention' = retention, NEW p \in Process,
           lapses' = lapses, p \notin Pruners, pc'[p] = "write",
           \A q \in Process \ {p} : pc'[q] = pc[q] /\ left'[q] = left[q],
           DOMAIN files' = DOMAIN files \cup {name[p]}
    PROVE  RetentionInv'
  <1>0. retention \in Nat
    BY SnapshotAssumption DEF SnapInv, SnapTypeOK
  <1>1. Pruners' = Pruners \cup {p}
    BY DEF Pruners
  <1>2. /\ Cardinality(DOMAIN files') <= Cardinality(DOMAIN files) + 1
        /\ Cardinality(DOMAIN files') \in Nat /\ Cardinality(DOMAIN files) \in Nat
    <2>1. IsFiniteSet(DOMAIN files) /\ Cardinality(DOMAIN files) \in Nat
      BY Counts DEF SnapInv
    <2>2. Cardinality(DOMAIN files') \in Nat
      BY FilesNext
    <2>3. Cardinality(DOMAIN files') = IF name[p] \in DOMAIN files
                                       THEN Cardinality(DOMAIN files)
                                       ELSE Cardinality(DOMAIN files) + 1
      BY <2>1, FS_AddElement
    <2> QED
      BY <2>1, <2>2, <2>3
  <1>3. ASSUME NEW K \in SUBSET Pruners'
        PROVE  Trimmed(Pruners \ K, lapses + Cardinality(K))'
    <2>1. CASE p \notin K
      BY <1>1, <2>1 DEF Trimmed, WillTrim
    <2>2. CASE p \in K
      <3>1. PICK u \in Nat : /\ u = lapses + Cardinality(K \ {p})
                              /\ u + 1 = lapses' + Cardinality(K)
        <4>1. K \in SUBSET Process
          BY DEF Pruners
        <4>2. IsFiniteSet(K) /\ Cardinality(K) \in Nat /\ Cardinality(K \ {p}) \in Nat
          BY <4>1, ProcessesFinite
        <4>3. Cardinality(K \ {p}) = Cardinality(K) - 1
          BY <2>2, <4>2, FS_RemoveElement
        <4> QED
          BY <4>2, <4>3 DEF RetentionInv
      <3>2. Trimmed(Pruners \ (K \ {p}), u)
        BY <1>1, <3>1 DEF RetentionInv
      <3>3. CASE Cardinality(DOMAIN files) <= retention + u
        <4>1. Cardinality(DOMAIN files') <= retention + (u + 1)
          BY <1>0, <1>2, <3>3
        <4> QED
          BY <3>1, <4>1 DEF Trimmed
      <3>4. ASSUME NEW q \in Pruners \ (K \ {p}), WillTrim(q, u)
            PROVE  Trimmed(Pruners \ K, lapses + Cardinality(K))'
        <4>1. q # p /\ q \in Process /\ q \notin K /\ q \in Pruners'
          BY <1>1 DEF Pruners
        <4>2. pc'[q] = pc[q] /\ left'[q] = left[q]
          BY <4>1
        <4>3. Spared(q)' <= Spared(q) + 1 /\ Spared(q) \in Nat /\ Spared(q)' \in Nat
          <5> DEFINE spared == DOMAIN files \ left[q]
          <5>1. Spared(q) \in Nat /\ Spared(q)' \in Nat
            BY <4>1, SparedIs, FilesNext
          <5>2. DOMAIN files' \ left'[q] \subseteq spared \cup {name[p]}
            BY <4>2
          <5>3. IsFiniteSet(spared) /\ Cardinality(spared) = Spared(q)
            BY Counts, FS_Subset DEF SnapInv, Spared
          <5> HIDE DEF spared
          <5>4. /\ IsFiniteSet(spared \cup {name[p]})
                /\ Cardinality(spared \cup {name[p]}) <= Cardinality(spared) + 1
                /\ Cardinality(spared \cup {name[p]}) \in Nat
            <6>1. /\ IsFiniteSet(spared \cup {name[p]})
                  /\ Cardinality(spared \cup {name[p]}) =
                        IF name[p] \in spared THEN Cardinality(spared)
                        ELSE Cardinality(spared) + 1
              BY <5>3, FS_AddElement
            <6> QED
              BY <5>1, <5>3, <6>1
          <5>5. Cardinality(DOMAIN files' \ left'[q]) <= Cardinality(spared \cup {name[p]})
            BY <5>2, <5>4, FS_Subset
          <5>6. Spared(q)' = Cardinality(DOMAIN files' \ left'[q])
            BY DEF Spared
          <5> QED
            BY <5>1, <5>3, <5>4, <5>5, <5>6
        <4>4. WillTrim(q, u + 1)'
          BY <1>0, <3>4, <4>2, <4>3 DEF WillTrim
        <4> QED
          BY <3>1, <4>1, <4>4 DEF Trimmed
      <3> QED
        BY <3>2, <3>3, <3>4 DEF Trimmed
    <2> QED
      BY <2>1, <2>2
  <1> QED
    BY <1>3 DEF RetentionInv

LEMMA StepRetentionInv ==
    ASSUME SnapInv, SnapInv', RetentionInv, NEW p \in Process, Step(p)
    PROVE  RetentionInv'
  <1>0. /\ DOMAIN pc = Process /\ DOMAIN left = Process /\ retention \in Nat
        /\ \A q \in Process : left[q] \subseteq begun
    BY SnapshotAssumption DEF SnapInv, SnapTypeOK
  <1>1. CASE Dump(p)
    <2>1. /\ pc[p] = "dump" /\ pc' = [pc EXCEPT ![p] = "open"]
          /\ UNCHANGED <<retention, files, left, lapses>>
      BY <1>1 DEF Dump, Goto, disk
    <2>2. p \notin Pruners /\ p \notin Pruners'
      BY <1>0, <2>1 DEF Pruners
    <2> QED
      BY <1>0, <2>1, <2>2, GoesOn
  <1>2. CASE Open(p)
    <2>1. pc[p] = "open" /\ UNCHANGED <<retention, left, lapses>> /\ p \notin Pruners
      BY <1>2 DEF Open, Pruners
    <2>2. CASE Exists(name[p])
      <3>1. UNCHANGED <<files, pc>>
        BY <1>2, <2>2 DEF Open
      <3>2. p \notin Pruners'
        BY <2>1, <3>1 DEF Pruners
      <3> QED
        BY <1>0, <2>1, <3>1, <3>2, GoesOn
    <2>3. CASE ~Exists(name[p])
      <3>1. pc' = [pc EXCEPT ![p] = "write"] /\ DOMAIN files' = DOMAIN files \cup {name[p]}
        BY <1>2, <2>3 DEF Open, Goto, WithFile
      <3> QED
        BY <1>0, <2>1, <3>1, OpensFile
    <2> QED
      BY <2>2, <2>3
  <1>3. CASE Write(p)
    <2>1. pc[p] = "write" /\ retention' = retention /\ DOMAIN files' = DOMAIN files
      BY <1>3 DEF Write
    <2>2. CASE Done(p) /\ lapses' = lapses + 1
      <3>1. pc' = [pc EXCEPT ![p] = "idle"] /\ left' = [left EXCEPT ![p] = {}]
        BY <2>2 DEF Done
      <3> QED
        BY <1>0, <2>1, <2>2, <3>1, GivesUp DEF Pruning, Pruners
    <2>3. CASE Goto(p, "list") /\ UNCHANGED <<left, lapses>>
      <3>1. pc' = [pc EXCEPT ![p] = "list"]
        BY <2>3 DEF Goto
      <3>2. p \in Pruners /\ p \in Pruners' /\ \A u \in Nat : WillTrim(p, u)'
        BY <1>0, <2>1, <3>1 DEF Pruners, WillTrim
      <3> QED
        BY <1>0, <2>1, <2>3, <3>1, <3>2, GoesOn
    <2> QED
      BY <1>3, <2>2, <2>3 DEF Write
  <1>4. ASSUME pc[p] \in {"list", "stat", "remove"}, PruneErr, retention' = retention,
               \A q \in Process \ {p} : pc'[q] = pc[q] /\ left'[q] = left[q],
               DOMAIN files' \subseteq DOMAIN files
        PROVE  RetentionInv'
    <2>1. p \in Pruners /\ Pruning(p)
      BY <1>4 DEF Pruners, Pruning
    <2>2. lapses' = lapses + 1
      BY <1>4 DEF PruneErr
    <2> QED
      BY <1>4, <2>1, <2>2, GivesUp
  <1>5. CASE List(p)
    <2>1. pc[p] = "list" /\ UNCHANGED <<retention, files>> /\ p \in Pruners
      BY <1>5 DEF List, disk, Pruners
    <2>2. CASE /\ left' = [left EXCEPT ![p] = DOMAIN files] /\ Goto(p, "stat")
               /\ UNCHANGED lapses
      <3>1. pc' = [pc EXCEPT ![p] = "stat"] /\ p \in Pruners'
        BY <1>0, <2>2 DEF Goto, Pruners
      <3>2. Spared(p)' = 0
        <4>1. DOMAIN files' \ left'[p] = {}
          BY <1>0, <2>1, <2>2
        <4> QED
          BY <4>1, FS_EmptySet DEF Spared
      <3>3. \A u \in Nat : WillTrim(p, u)'
        BY <1>0, <3>1, <3>2 DEF WillTrim
      <3> QED
        BY <1>0, <2>1, <2>2, <3>1, <3>3, GoesOn
    <2>3. CASE left' = [left EXCEPT ![p] = {}] /\ Goto(p, "remove") /\ PruneErr
      BY <1>0, <1>4, <2>1, <2>3 DEF Goto
    <2> QED
      BY <1>5, <2>2, <2>3 DEF List
  <1>6. CASE Stat(p)
    <2> DEFINE names == left[p] \cap DOMAIN files
    <2>1. /\ pc[p] = "stat" /\ pc' = [pc EXCEPT ![p] = "remove"]
          /\ UNCHANGED <<retention, files>>
      BY <1>6 DEF Stat, Goto, disk
    <2>2. p \in Pruners /\ p \in Pruners'
      BY <1>0, <2>1 DEF Pruners
    <2>3. PICK unread \in SUBSET names :
             /\ left' = [left EXCEPT ![p] = Surplus((@ \cap DOMAIN files) \ unread)]
             /\ IF unread = {} THEN UNCHANGED <<faults, lapses>> ELSE PruneErr
      BY <1>6 DEF Stat
    <2>4. CASE unread # {}
      <3>1. PruneErr
        BY <2>3, <2>4
      <3> QED
        BY <1>0, <1>4, <2>1, <2>3, <3>1
    <2>5. CASE unread = {}
      <3>1. left' = [left EXCEPT ![p] = Surplus(names)] /\ lapses' = lapses
        <4>1. (left[p] \cap DOMAIN files) \ unread = names
          BY <2>5
        <4> QED
          BY <2>3, <2>5, <4>1
      <3>2. names \in SUBSET Names /\ IsFiniteSet(names)
        <4>1. names \in SUBSET Names
          BY <1>0 DEF SnapInv, SnapTypeOK
        <4> QED
          BY <4>1, NamesFinite
      <3>3. DOMAIN files' \ left'[p] = (DOMAIN files \ left[p]) \cup (names \ Surplus(names))
        BY <1>0, <2>1, <3>1 DEF Surplus
      <3> HIDE DEF names
      <3>4. Spared(p)' <= Spared(p) + retention
        <4> DEFINE spared == DOMAIN files \ left[p]  kept == names \ Surplus(names)
        <4>1. Cardinality(kept) <= retention
          BY <1>0, <3>2, KeptAtMost
        <4>2. IsFiniteSet(kept) /\ Cardinality(kept) \in Nat
          BY <3>2, FS_Subset, FS_CardinalityType
        <4>3. /\ IsFiniteSet(spared) /\ Cardinality(spared) \in Nat
              /\ Cardinality(spared) = Spared(p)
          BY Counts, FS_Subset, FS_CardinalityType DEF SnapInv, Spared
        <4>4. Spared(p)' = Cardinality(spared \cup kept)
          BY <3>3 DEF Spared
        <4> HIDE DEF spared, kept
        <4>5. /\ Cardinality(spared \cup kept)
                   = Cardinality(spared) + Cardinality(kept) - Cardinality(spared \cap kept)
              /\ Cardinality(spared \cap kept) \in Nat
          BY <4>2, <4>3, FS_Union, FS_Intersection, FS_CardinalityType
        <4> QED
          BY <1>0, <4>1, <4>2, <4>3, <4>4, <4>5
      <3>5. ASSUME NEW u \in Nat, WillTrim(p, u)
            PROVE  WillTrim(p, u)'
        <4>1. Spared(p) <= u
          BY <2>1, <3>5 DEF WillTrim
        <4>2. Spared(p) \in Nat /\ Spared(p)' \in Nat
          BY SparedIs, FilesNext
        <4>3. Spared(p)' <= retention + u
          BY <1>0, <3>4, <4>1, <4>2
        <4> QED
          BY <1>0, <2>1, <4>3 DEF WillTrim
      <3> QED
        BY <1>0, <2>1, <2>2, <3>1, <3>5, GoesOn
    <2> QED
      BY <2>4, <2>5
  <1>7. CASE Remove(p)
    <2>1. pc[p] = "remove" /\ retention' = retention /\ p \in Pruners
      BY <1>7 DEF Remove, Pruners
    <2>2. CASE left[p] = {} /\ Done(p) /\ UNCHANGED <<files, lapses>>
      <3>1. /\ pc' = [pc EXCEPT ![p] = "idle"] /\ left' = [left EXCEPT ![p] = {}]
            /\ p \notin Pruners'
        BY <1>0, <2>2 DEF Done, Pruners
      <3>2. Spared(p) = Cardinality(DOMAIN files')
        <4>1. DOMAIN files \ left[p] = DOMAIN files'
          BY <2>2
        <4> QED
          BY <4>1 DEF Spared
      <3>3. \A u \in Nat : WillTrim(p, u) => Cardinality(DOMAIN files') <= retention + u
        BY <2>1, <3>2 DEF WillTrim
      <3> QED
        BY <1>0, <2>1, <2>2, <3>1, <3>3, GoesOn
    <2>3. ASSUME NEW n \in left[p], files' = WithoutFile(n), UNCHANGED lapses,
                 left' = [left EXCEPT ![p] = @ \ {n}], UNCHANGED pc
          PROVE  RetentionInv'
      <3>1. /\ DOMAIN files' \subseteq DOMAIN files
            /\ DOMAIN files' \ left'[p] \subseteq DOMAIN files \ left[p]
        BY <1>0, <2>3 DEF WithoutFile
      <3>2. Spared(p)' <= Spared(p) /\ Spared(p) \in Nat /\ Spared(p)' \in Nat
        BY <3>1, SparesLess
      <3>3. \A u \in Nat : WillTrim(p, u) => WillTrim(p, u)'
        BY <1>0, <2>1, <2>3, <3>2 DEF WillTrim
      <3>4. p \in Pruners'
        BY <2>1, <2>3 DEF Pruners
      <3> QED
        BY <1>0, <2>1, <2>3, <3>1, <3>3, <3>4, GoesOn
    <2>4. ASSUME NEW n \in left[p], UNCHANGED <<files, pc>>, PruneErr,
                 left' = [left EXCEPT ![p] = @ \ {n}]
          PROVE  RetentionInv'
      BY <1>0, <1>4, <2>1, <2>4
    <2> QED
      BY <1>7, <2>2, <2>3, <2>4 DEF Remove
  <1> QED
    BY <1>1, <1>2, <1>3, <1>5, <1>6, <1>7 DEF Step

LEMMA NextRetentionInv ==
    ASSUME SnapInv, SnapInv', RetentionInv, [SnapNext]_svars
    PROVE  RetentionInv'
  <1>0. /\ DOMAIN pc = Process /\ DOMAIN left = Process /\ retention \in Nat
        /\ Web \in Process /\ Daemon \in Process
    BY SnapshotAssumption DEF SnapInv, SnapTypeOK, Process
  <1>1. ASSUME NEW p \in Process, pc[p] \notin {"write", "list", "stat", "remove"},
               \E where \in {"idle", "dump"} : pc' = [pc EXCEPT ![p] = where],
               \A q \in Process \ {p} : left'[q] = left[q],
               UNCHANGED <<retention, files, lapses>>
        PROVE  RetentionInv'
    <2>1. p \notin Pruners /\ p \notin Pruners'
      BY <1>0, <1>1 DEF Pruners
    <2>2. \A q \in Process \ {p} : pc'[q] = pc[q]
      BY <1>0, <1>1
    <2> QED
      BY <1>1, <2>1, <2>2, GoesOn
  <1>2. CASE AskForSnapshot
    BY <1>0, <1>1, <1>2 DEF AskForSnapshot, Goto, disk
  <1>3. CASE WakeUp
    BY <1>0, <1>1, <1>3 DEF WakeUp, Goto, disk
  <1>4. CASE Restart
    BY <1>0, <1>1, <1>4 DEF Restart, Done, disk
  <1>5. ASSUME UNCHANGED <<pc, left, retention, lapses>>, DOMAIN files' \subseteq DOMAIN files
        PROVE  RetentionInv'
    <2>1. Pruners' = Pruners
      BY <1>5 DEF Pruners
    <2>2. ASSUME NEW u \in Nat, Web \in Pruners, WillTrim(Web, u)
          PROVE  Web \in Pruners' /\ WillTrim(Web, u)'
      BY <1>0, <1>5, <2>2, StillTrims
    <2> QED
      BY <1>0, <1>5, <2>1, <2>2, GoesOn
  <1>6. CASE DeleteSnapshot
    BY <1>5, <1>6 DEF DeleteSnapshot, WithoutFile, procs
  <1>7. CASE Tick \/ UNCHANGED svars
    BY <1>5, <1>7 DEF Tick, svars, disk, procs
  <1>8. ASSUME NEW p \in Process, DiskFails(p)
        PROVE  RetentionInv'
    <2>1. /\ pc' = [pc EXCEPT ![p] = "idle"] /\ left' = [left EXCEPT ![p] = {}]
          /\ lapses' = IF Pruning(p) THEN lapses + 1 ELSE lapses
          /\ UNCHANGED <<retention, files>>
      BY <1>8 DEF DiskFails, GiveUp, Done, disk
    <2>2. p \notin Pruners'
      BY <1>0, <2>1 DEF Pruners
    <2> QED
      BY <1>0, <2>1, <2>2, GivesUp
  <1>9. ASSUME NEW p \in Process, Kill(p)
        PROVE  RetentionInv'
    <2>1. /\ \E where \in {"idle", "down"} : pc' = [pc EXCEPT ![p] = where]
          /\ left' = [left EXCEPT ![p] = {}]
          /\ lapses' = IF Pruning(p) THEN lapses + 1 ELSE lapses
          /\ UNCHANGED <<retention, files>>
      BY <1>9 DEF Kill, GiveUp, Goto, disk
    <2>2. p \notin Pruners'
      BY <1>0, <2>1 DEF Pruners
    <2> QED
      BY <1>0, <2>1, <2>2, GivesUp
  <1> QED
    BY <1>2, <1>3, <1>4, <1>6, <1>7, <1>8, <1>9, StepRetentionInv DEF SnapNext

\* Both processes at rest, there are no more snapshots than are to be kept, but for one for
\* each that was made without a prune or whose prune was cut short and one for each error a
\* prune passed over (a failed listdir, stat or remove), however the prunes ran beside each
\* other and beside the files the other process was creating.
THEOREM RetentionAlwaysReached == SnapSpec => []RetentionReached
  <1>1. SnapInit => RetentionInv
    <2>1. Cardinality({}) = 0
      BY FS_EmptySet
    <2> SUFFICES ASSUME SnapInit PROVE RetentionInv
      OBVIOUS
    <2>2. Pruners = {} /\ lapses = 0 /\ retention \in Nat /\ DOMAIN files = {}
      BY SnapshotAssumption DEF SnapInit, Pruners
    <2>3. Trimmed({}, 0)
      BY <2>1, <2>2 DEF Trimmed
    <2>4. ASSUME NEW K \in SUBSET Pruners
          PROVE  Trimmed(Pruners \ K, lapses + Cardinality(K))
      <3>1. K = {} /\ Pruners \ K = {}
        BY <2>2
      <3>2. lapses + Cardinality(K) = 0
        BY <2>1, <2>2, <3>1
      <3> QED
        BY <2>3, <3>1, <3>2
    <2> QED
      BY <2>2, <2>4 DEF RetentionInv
  <1>2. SnapSpec => []RetentionInv
    BY <1>1, NextRetentionInv, PruningInv, PTL DEF SnapSpec
  <1>3. ASSUME SnapInv, RetentionInv
        PROVE  RetentionReached
    <2> SUFFICES ASSUME Quiet
                 PROVE  Cardinality(DOMAIN files) <= retention + lapses
      BY DEF RetentionReached
    <2>1. Pruners = {}
      BY DEF Quiet, Pruners
    <2>2. Trimmed({}, lapses + Cardinality({}))
      BY <1>3, <2>1 DEF RetentionInv
    <2>3. lapses + Cardinality({}) = lapses
      BY <1>3, FS_EmptySet DEF RetentionInv
    <2> QED
      BY <2>2, <2>3 DEF Trimmed
  <1> QED
    BY <1>2, <1>3, PruningInv, PTL
=============================================================================
