---------------------------- MODULE HostingProofs ----------------------------
(***************************************************************************)
(* Proofs about what the platform hosts: DataPlane and Storage, each with  *)
(* its own specification over the same kind of state, for any workloads,   *)
(* pools, volumes, requests, faults and restarts.                          *)
(*                                                                         *)
(* Their properties say that every view of the state has something.  A     *)
(* save, whatever becomes of it, brings no view but the new state, so what *)
(* is left to show is what one operation makes of one state.               *)
(***************************************************************************)
EXTENDS DataPlane, Storage, ToolHealth, FiniteSetTheorems, TLAPS

(* Whether its save succeeds or throws, a mutation brings no view but the  *)
(* new state (mutateState).                                                *)
LEMMA SaveViews ==
    ASSUME NEW next,
           Saved(next) \/ SavedTwice(next) \/ SavedOnce(next) \/ NotSaved(next)
    PROVE  Views' \subseteq Views \cup {next}
BY DEF Saved, SavedTwice, SavedOnce, NotSaved, Interrupted, Undone, Views

(* Two saves leave no view but the new state.                              *)
LEMMA TwoSaves ==
    ASSUME NEW next, SavedTwice(next)
    PROVE  Views' = {next} /\ mem' = next
BY DEF SavedTwice, Views

(* A start brings nothing that the files do not have.                      *)
LEMMA ReloadViews ==
    ASSUME Reloaded
    PROVE  Views' \subseteq Views
BY DEF Reloaded, LoadedAs, Views

-----------------------------------------------------------------------------
(* Data plane: no operation drops a unit or revives a stopped one.         *)

(* A list of units that names every container promised and has every unit  *)
(* settled stopped.                                                        *)
GoodUnits(s, known, done) ==
    /\ s \in Seq(Unit)
    /\ \A c \in known : Knows(s, c)
    /\ \A i \in done : Stopped(s, i)

DataViews == \A s \in Views : GoodUnits(s, promised, settled)

DataLocal ==
    /\ started \in Nat
    /\ live \subseteq 1..started
    /\ up \in BOOLEAN
    /\ stopping \subseteq DOMAIN mem
    /\ up \/ stopping = {}
    /\ promised \subseteq 1..started
    /\ settled \subseteq Nat \ {0}
    /\ faults \in Nat

DataInv == DataLocal /\ DataViews

-----------------------------------------------------------------------------
(* A new unit names its container and leaves the other units as they are.  *)
LEMMA AppendUnit ==
    ASSUME NEW s, NEW known, NEW done, GoodUnits(s, known, done), NEW u \in Unit
    PROVE  GoodUnits(Append(s, u), known \cup {u.container}, done)
<1> DEFINE t == Append(s, u)
<1>1. s \in Seq(Unit)
  BY DEF GoodUnits
<1>2. /\ t \in Seq(Unit)
      /\ DOMAIN s = 1..Len(s) /\ DOMAIN t = 1..(Len(s) + 1) /\ Len(s) \in Nat
      /\ \A i \in DOMAIN s : t[i] = s[i]
      /\ t[Len(s) + 1] = u
  BY <1>1
<1>3. DOMAIN s \subseteq DOMAIN t /\ Len(s) + 1 \in DOMAIN t
  BY <1>2
<1>4. \A c \in known \cup {u.container} : Knows(t, c)
  BY <1>2, <1>3 DEF GoodUnits, Knows
<1>5. \A i \in done : Stopped(t, i)
  BY <1>2, <1>3 DEF GoodUnits, Stopped
<1> QED BY <1>2, <1>4, <1>5 DEF GoodUnits

(* Fewer promises are easier to keep.                                      *)
LEMMA FewerPromises ==
    ASSUME NEW s, NEW known, NEW done, NEW fewer \in SUBSET known, GoodUnits(s, known, done)
    PROVE  GoodUnits(s, fewer, done)
BY DEF GoodUnits

(* Marking a unit stopped leaves its container and the other units.        *)
LEMMA MarkStopped ==
    ASSUME NEW s, NEW known, NEW done, GoodUnits(s, known, done), NEW i \in DOMAIN s
    PROVE  /\ GoodUnits([s EXCEPT ![i].state = "stopped"], known, done \cup {i})
           /\ GoodUnits([s EXCEPT ![i].state = "stopped"], known, done)
           /\ DOMAIN [s EXCEPT ![i].state = "stopped"] = DOMAIN s
<1> DEFINE u == [s[i] EXCEPT !.state = "stopped"]
           t == [s EXCEPT ![i] = u]
<1>1. s \in Seq(Unit) /\ s[i] \in Unit
  BY DEF GoodUnits
<1>2. u \in Unit /\ u.state = "stopped" /\ u.container = s[i].container
  BY <1>1 DEF Unit, UnitState
<1>3. t = [s EXCEPT ![i].state = "stopped"]
  OBVIOUS
<1>4. /\ t \in Seq(Unit)
      /\ DOMAIN t = DOMAIN s
      /\ t[i] = u
      /\ \A j \in DOMAIN s : j # i => t[j] = s[j]
  BY <1>1, <1>2
<1>5. \A c \in known : Knows(t, c)
  BY <1>2, <1>4 DEF GoodUnits, Knows
<1>6. \A j \in done \cup {i} : Stopped(t, j)
  BY <1>2, <1>4 DEF GoodUnits, Stopped
<1> QED BY <1>3, <1>4, <1>5, <1>6 DEF GoodUnits

-----------------------------------------------------------------------------
(* No workload has run at a first start.                                   *)
LEMMA DataInit == Init => DataInv
<1> SUFFICES ASSUME Init PROVE DataInv
  OBVIOUS
<1>1. DataLocal
  BY DEF Init, DataLocal
<1>2. GoodUnits(<< >>, {}, {})
  BY DEF GoodUnits
<1>3. Views = {<< >>} /\ promised = {} /\ settled = {}
  BY DEF Init, StartsWith, Views
<1> QED BY <1>1, <1>2, <1>3 DEF DataInv, DataViews

(* Starts, whether the container runs or not.                              *)
LEMMA RunsKeepUnits ==
    ASSUME DataInv, NEW w \in Workloads \cup Foreign, Run(w) \/ RunFails(w)
    PROVE  DataInv'
<1> USE DEF DataInv
<1>1. mem \in Views /\ GoodUnits(mem, promised, settled) /\ started \in Nat
  BY DEF DataViews, Views, DataLocal
<1>2. stopping' = {} /\ started' = started + 1 /\ settled' = settled
  BY DEF Run, RunFails, Idle
<1>3. CASE RunFails(w)
  <2> DEFINE u == [workload |-> w, state |-> "failed", container |-> NoContainer]
  <2>1. u \in Unit
    BY DEF Unit, UnitState, NoContainer
  <2>2. GoodUnits(Append(mem, u), promised, settled)
    <3>1. GoodUnits(Append(mem, u), promised \cup {u.container}, settled)
      BY <1>1, <2>1, AppendUnit
    <3> QED BY <3>1, FewerPromises
  <2>3. Views' \subseteq Views \cup {Append(mem, u)}
    BY <1>3, SaveViews DEF RunFails, UnitSaved, UnitThrows, NewUnit
  <2>4. DataViews'
    BY <1>2, <1>3, <2>2, <2>3 DEF DataViews, RunFails
  <2>5. DataLocal'
    BY <1>1, <1>2, <1>3 DEF RunFails, UnitSaved, UnitThrows, Fault, NoFault, DataLocal
  <2> QED BY <2>4, <2>5
<1>4. CASE Run(w)
  <2> DEFINE u == [workload |-> w, state |-> "running", container |-> started']
  <2>1. u \in Unit /\ u.container = started'
    BY <1>1, <1>2 DEF Unit, UnitState
  <2>2. GoodUnits(Append(mem, u), promised \cup {started'}, settled)
    BY <1>1, <2>1, AppendUnit
  <2>3. GoodUnits(Append(mem, u), promised, settled)
    BY <2>2, FewerPromises
  <2>4. ASSUME UnitSaved(Append(mem, u)), promised' = promised \cup {started'}
        PROVE  DataViews'
    BY <1>2, <2>2, <2>4, TwoSaves DEF DataViews, UnitSaved
  <2>5. ASSUME UnitThrows(Append(mem, u)), promised' = promised
        PROVE  DataViews'
    <3>1. Views' \subseteq Views \cup {Append(mem, u)}
      BY <2>5, SaveViews DEF UnitThrows
    <3> QED BY <1>2, <2>3, <2>5, <3>1 DEF DataViews
  <2>6. DataViews'
    BY <1>4, <2>4, <2>5 DEF Run, NewUnit
  <2>7. faults' \in Nat /\ promised' \subseteq promised \cup {started'}
    BY <1>4 DEF Run, UnitSaved, UnitThrows, Fault, NoFault, DataLocal
  <2>8. live' = live \cup {started'} /\ up /\ up'
    BY <1>4 DEF Run, Idle
  <2>9. DataLocal'
    BY <1>1, <1>2, <2>7, <2>8 DEF DataLocal
  <2> QED BY <2>6, <2>9
<1> QED BY <1>3, <1>4

(* The units that are picked to be stopped, and each of them.              *)
LEMMA StopsKeepUnits ==
    ASSUME DataInv, StopUnit \/ \E w \in Workloads : BeginStop(w)
    PROVE  DataInv'
<1> USE DEF DataInv
<1>1. GoodUnits(mem, promised, settled)
  BY DEF DataViews, Views
<1>2. ASSUME NEW w \in Workloads, BeginStop(w) PROVE DataInv'
  <2>1. UNCHANGED <<cell, host, up, promised, settled, faults>> /\ up
    BY <1>2 DEF BeginStop, Idle
  <2>2. stopping' \subseteq DOMAIN mem'
    BY <1>2 DEF BeginStop, cell
  <2>3. DataViews'
    BY <2>1 DEF cell, Views, DataViews
  <2>4. DataLocal'
    BY <2>1, <2>2 DEF host, DataLocal
  <2> QED BY <2>3, <2>4
<1>3. CASE StopUnit
  <2> DEFINE next(i) == [mem EXCEPT ![i].state = "stopped"]
  <2>1. PICK i \in stopping :
          \/ /\ live' = live \ {mem[i].container}
             /\ UnitSaved(next(i))
             /\ stopping' = stopping \ {i}
             /\ settled' = settled \cup {i}
          \/ /\ UNCHANGED live
             /\ SavedTwice(next(i)) /\ Fault
             /\ stopping' = stopping \ {i}
             /\ settled' = settled \cup {i}
          \/ /\ live' = live \ {mem[i].container}
             /\ UnitThrows(next(i))
             /\ stopping' = {}
             /\ UNCHANGED settled
    BY <1>3 DEF StopUnit
  <2>2. i \in DOMAIN mem /\ i \in Nat \ {0}
    BY <1>1 DEF DataLocal, GoodUnits
  <2>3. /\ GoodUnits(next(i), promised, settled \cup {i})
        /\ GoodUnits(next(i), promised, settled)
        /\ DOMAIN next(i) = DOMAIN mem
    BY <1>1, <2>2, MarkStopped
  <2>4. UNCHANGED <<started, up, promised>>
    BY <1>3 DEF StopUnit
  <2> DEFINE Goal == DataViews' /\ stopping' \subseteq DOMAIN mem' /\ settled' \subseteq Nat \ {0}
  <2>5. ASSUME SavedTwice(next(i)), stopping' = stopping \ {i}, settled' = settled \cup {i}
        PROVE  Goal
    <3>1. DataViews'
      BY <2>3, <2>4, <2>5, TwoSaves DEF DataViews
    <3>2. stopping' \subseteq DOMAIN mem' /\ settled' \subseteq Nat \ {0}
      BY <2>2, <2>3, <2>5, TwoSaves DEF DataLocal
    <3> QED BY <3>1, <3>2
  <2>6. ASSUME UnitThrows(next(i)), stopping' = {}, settled' = settled
        PROVE  Goal
    <3>1. Views' \subseteq Views \cup {next(i)}
      BY <2>6, SaveViews DEF UnitThrows
    <3> QED BY <2>3, <2>4, <2>6, <3>1 DEF DataViews, DataLocal
  <2>7. Goal
    BY <2>1, <2>5, <2>6 DEF UnitSaved
  <2>8. live' \subseteq live /\ faults' \in Nat
    BY <2>1 DEF UnitSaved, UnitThrows, Fault, NoFault, DataLocal
  <2>9. up /\ up'
    BY <1>3, <2>4 DEF StopUnit
  <2>10. DataLocal'
    BY <2>4, <2>7, <2>8, <2>9 DEF DataLocal
  <2> QED BY <2>7, <2>10
<1> QED BY <1>2, <1>3

(* Containers that end, and the end and start of the process.              *)
LEMMA OthersKeepUnits ==
    ASSUME DataInv, Exit \/ Kill \/ Start
    PROVE  DataInv'
<1> USE DEF DataInv
<1>1. Views' \subseteq Views /\ promised' = promised /\ settled' = settled
  BY DEF Exit, Kill, Start, Reloaded, LoadedAs, cell, Views
<1>2. DataViews'
  BY <1>1 DEF DataViews
<1>3. /\ started' \in Nat /\ live' \subseteq 1..started'
      /\ promised' \subseteq 1..started' /\ settled' \subseteq Nat \ {0} /\ faults' \in Nat
  BY DEF Exit, Kill, Start, host, DataLocal
<1>4. stopping' \subseteq DOMAIN mem' /\ (up' \/ stopping' = {}) /\ up' \in BOOLEAN
  <2>1. CASE Exit
    BY <2>1 DEF Exit, cell, DataLocal
  <2>2. CASE Kill
    BY <2>2 DEF Kill
  <2>3. CASE Start
    BY <2>3 DEF Start, DataLocal
  <2> QED BY <2>1, <2>2, <2>3
<1> QED BY <1>2, <1>3, <1>4 DEF DataLocal

(* Every step keeps the invariant.                                         *)
LEMMA DataNext == DataInv /\ [Next]_vars => DataInv'
<1>1. ASSUME DataInv, UNCHANGED vars PROVE DataInv'
  BY <1>1 DEF DataInv, DataLocal, DataViews, Views, vars, cell, host
<1>2. ASSUME DataInv, Next PROVE DataInv'
  BY <1>2, RunsKeepUnits, StopsKeepUnits, OthersKeepUnits DEF Next
<1> QED BY <1>1, <1>2

-----------------------------------------------------------------------------
(* The invariant holds throughout.                                         *)
LEMMA DataInvariant == Spec => []DataInv
BY DataInit, DataNext, PTL DEF Spec

(* Units, containers and requests keep their types under every start,      *)
(* stop, failure and restart.                                              *)
THEOREM DataTypeCorrect == Spec => []TypeOK
<1>1. DataInv => TypeOK
  <2> SUFFICES ASSUME DataInv PROVE TypeOK
    OBVIOUS
  <2>1. mem \in Seq(Unit) /\ Views \subseteq Seq(Unit)
    BY DEF DataInv, DataViews, GoodUnits, Views
  <2>2. DOMAIN mem \subseteq Nat \ {0}
    BY <2>1
  <2> QED BY <2>1, <2>2 DEF DataInv, DataLocal, TypeOK
<1> QED BY <1>1, DataInvariant, PTL

(* A container whose start was answered 201 is named by a unit in memory   *)
(* and in whatever a restart loads.                                        *)
THEOREM StartsAreKnown == Spec => []StartIsKnown
<1>1. DataInv => StartIsKnown
  BY DEF DataInv, DataViews, GoodUnits, StartIsKnown
<1> QED BY <1>1, DataInvariant, PTL

(* A unit that was marked stopped stays stopped through failures and       *)
(* restarts.                                                               *)
THEOREM StopsAreKept == Spec => []StopIsKept
<1>1. DataInv => StopIsKept
  BY DEF DataInv, DataViews, GoodUnits, StopIsKept
<1> QED BY <1>1, DataInvariant, PTL
-----------------------------------------------------------------------------
(* Storage: every view is sound, and while nothing raced, the one creation *)
(* that chose a pool still finds there the space it saw.                   *)

(* Registrations so far bound the numbers of pools and of payers; what a   *)
(* pool gave away covers its charges; a pool without space was raced for.  *)
Numbered(s, n) ==
    /\ \A p \in DOMAIN s.pools : s.pools[p].createdAt <= n
    /\ \A v \in DOMAIN s.volumes : s.volumes[v].paid <= n

Covers(s, p) ==
    /\ IsFiniteSet(Charges(s, p))
    /\ Cardinality(Charges(s, p)) <= s.pools[p].total - s.pools[p].available

Sound(s, n, over) ==
    /\ IsState(s)
    /\ Numbered(s, n)
    /\ \A p \in DOMAIN s.pools : Covers(s, p)
    /\ \A p \in DOMAIN s.pools : s.pools[p].available < 0 => p \in over

(* A creation has chosen one pool or none.                                 *)
OneOrNone(S) == S = {} \/ \E p \in PoolIds : S = {p}

StorageLocal ==
    /\ up \in BOOLEAN
    /\ request \in [Requests -> {NoCreation} \cup Awaiting]
    /\ \A r \in Requests : request[r].phase = "awaiting" => up /\ OneOrNone(request[r].pool)
    /\ registered \in Nat
    /\ faults \in Nat
    /\ raced \subseteq PoolIds

(* A pool that was not raced for has one chooser at most, who fits in.     *)
RoomIsKept ==
    \A p \in PoolIds \ raced : \A r \in Choosers(p) :
        /\ Choosers(p) = {r}
        /\ p \in DOMAIN mem.pools => mem.pools[p].available >= request[r].sizeGb

StorageInv ==
    /\ StorageLocal
    /\ RoomIsKept
    /\ \A s \in Views : Sound(s, registered, raced)

-----------------------------------------------------------------------------
(* What a change of the pools or of the volumes makes of a state.          *)

(* Changed pools beside the same volumes.                                  *)
LEMMA PutPools ==
    ASSUME NEW s, IsState(s), NEW q,
           DOMAIN q \subseteq PoolIds, \A p \in DOMAIN q : q[p] \in Pool
    PROVE  /\ IsState([s EXCEPT !.pools = q])
           /\ [s EXCEPT !.pools = q].pools = q
           /\ [s EXCEPT !.pools = q].volumes = s.volumes
BY DEF IsState

(* Changed volumes beside the same pools.                                  *)
LEMMA PutVolumes ==
    ASSUME NEW s, IsState(s), NEW q,
           DOMAIN q \subseteq VolumeIds, \A v \in DOMAIN q : q[v] \in Volume
    PROVE  /\ IsState([s EXCEPT !.volumes = q])
           /\ [s EXCEPT !.volumes = q].volumes = q
           /\ [s EXCEPT !.volumes = q].pools = s.pools
BY DEF IsState

(* A pool that gave away no less covers no more charges.                   *)
LEMMA CoversLess ==
    ASSUME NEW s, NEW t, NEW p, Covers(s, p), Charges(t, p) \subseteq Charges(s, p),
           s.pools[p] \in Pool, t.pools[p] \in Pool,
           s.pools[p].total - s.pools[p].available <= t.pools[p].total - t.pools[p].available
    PROVE  Covers(t, p)
<1>1. /\ IsFiniteSet(Charges(t, p))
      /\ Cardinality(Charges(t, p)) <= Cardinality(Charges(s, p))
      /\ Cardinality(Charges(t, p)) \in Nat /\ Cardinality(Charges(s, p)) \in Nat
  BY FS_Subset, FS_CardinalityType DEF Covers
<1> QED BY <1>1 DEF Covers, Pool

(* Pools may be taken away, change what no charge depends on, give space   *)
(* away, and be put in the place of others with a number of their own.     *)
LEMMA PoolsChange ==
    ASSUME NEW s, NEW n \in Nat, NEW over, Sound(s, n, over), NEW q,
           NEW m \in Nat, n <= m, NEW wider, over \subseteq wider,
           DOMAIN q \subseteq PoolIds,
           \A p \in DOMAIN q :
              /\ q[p] \in Pool
              /\ q[p].createdAt <= m
              /\ q[p].available < 0 => p \in wider
              /\ \/ /\ p \in DOMAIN s.pools
                    /\ q[p].createdAt = s.pools[p].createdAt
                    /\ s.pools[p].total - s.pools[p].available <= q[p].total - q[p].available
                 \/ /\ n < q[p].createdAt
                    /\ q[p].available = q[p].total
    PROVE  Sound([s EXCEPT !.pools = q], m, wider)
<1> DEFINE t == [s EXCEPT !.pools = q]
<1>1. IsState(t) /\ t.pools = q /\ t.volumes = s.volumes /\ IsState(s)
  BY PutPools DEF Sound
<1>2. \A v \in DOMAIN s.volumes : s.volumes[v].paid <= n /\ s.volumes[v].paid \in Nat
  BY <1>1 DEF Sound, Numbered, IsState, Volume
<1>3. Numbered(t, m)
  BY <1>1, <1>2 DEF Numbered
<1> HIDE DEF t
<1>4. ASSUME NEW p \in DOMAIN q PROVE Covers(t, p)
  <2>1. CASE /\ p \in DOMAIN s.pools
             /\ q[p].createdAt = s.pools[p].createdAt
             /\ s.pools[p].total - s.pools[p].available <= q[p].total - q[p].available
    <3>1. Charges(t, p) = Charges(s, p)
      BY <1>1, <2>1 DEF Charges, On
    <3>2. Covers(s, p) /\ s.pools[p] \in Pool
      BY <2>1, <1>1 DEF Sound, IsState
    <3> QED BY <1>1, <2>1, <3>1, <3>2, CoversLess
  <2>2. CASE n < q[p].createdAt /\ q[p].available = q[p].total
    <3>1. On(t, p) = {}
      BY <1>1, <1>2, <2>2 DEF On, Pool
    <3>2. Charges(t, p) = {}
      BY <3>1 DEF Charges
    <3>3. q[p].total - q[p].available = 0
      BY <2>2 DEF Pool
    <3> QED BY <1>1, <3>2, <3>3, FS_EmptySet DEF Covers
  <2> QED BY <2>1, <2>2
<1>5. \A p \in DOMAIN q : q[p].available < 0 => p \in wider
  OBVIOUS
<1> QED BY <1>1, <1>3, <1>4, <1>5 DEF Sound, t

(* Volumes may be taken away and put in no pool.                           *)
LEMMA VolumesLeave ==
    ASSUME NEW s, NEW n \in Nat, NEW over, Sound(s, n, over), NEW q,
           DOMAIN q \subseteq VolumeIds,
           \A v \in DOMAIN q : \/ v \in DOMAIN s.volumes /\ q[v] = s.volumes[v]
                               \/ q[v] = InNoPool
    PROVE  Sound([s EXCEPT !.volumes = q], n, over)
<1> DEFINE t == [s EXCEPT !.volumes = q]
<1>1. InNoPool \in Volume /\ InNoPool.paid = 0 /\ \A p : InNoPool.pool # {p}
  BY DEF InNoPool, Volume
<1>2. IsState(s) /\ \A v \in DOMAIN q : q[v] \in Volume
  BY <1>1 DEF Sound, IsState
<1>3. IsState(t) /\ t.volumes = q /\ t.pools = s.pools
  BY <1>2, PutVolumes
<1>4. Numbered(t, n)
  BY <1>1, <1>3 DEF Sound, Numbered
<1> HIDE DEF t
<1>5. ASSUME NEW p \in DOMAIN s.pools PROVE Covers(t, p)
  <2>1. \A v \in On(t, p) : v \in On(s, p) /\ t.volumes[v] = s.volumes[v]
    BY <1>1, <1>3 DEF On
  <2>2. Charges(t, p) \subseteq Charges(s, p)
    BY <2>1 DEF Charges
  <2>3. Covers(s, p) /\ s.pools[p] \in Pool
    BY <1>2 DEF Sound, IsState
  <2>4. s.pools[p].total \in Int /\ s.pools[p].available \in Int
    BY <2>3 DEF Pool
  <2> QED BY <1>3, <2>2, <2>3, <2>4, CoversLess
<1>6. \A p \in DOMAIN s.pools : s.pools[p].available < 0 => p \in over
  BY DEF Sound
<1> QED BY <1>3, <1>4, <1>5, <1>6 DEF Sound, t

(* A volume that failed, has no backend or is deleted.                     *)
LEMMA VolumeSteps ==
    ASSUME NEW s, NEW n \in Nat, NEW over, Sound(s, n, over), NEW v \in VolumeIds
    PROVE  /\ Sound(WithVolume(s, v, InNoPool), n, over)
           /\ Sound(VolumeDeleted(s, v), n, over)
           /\ WithVolume(s, v, InNoPool).pools = s.pools
           /\ VolumeDeleted(s, v).pools = s.pools
<1>1. DOMAIN s.volumes \subseteq VolumeIds /\ DOMAIN s = {"pools", "volumes"}
  BY DEF Sound, IsState
<1>2. /\ DOMAIN With(s.volumes, v, InNoPool) = DOMAIN s.volumes \cup {v}
      /\ \A w \in DOMAIN With(s.volumes, v, InNoPool) :
            With(s.volumes, v, InNoPool)[w] = IF w = v THEN InNoPool ELSE s.volumes[w]
  BY DEF With
<1>3. /\ DOMAIN Without(s.volumes, v) \subseteq DOMAIN s.volumes
      /\ \A w \in DOMAIN Without(s.volumes, v) : Without(s.volumes, v)[w] = s.volumes[w]
  BY DEF Without
<1>4. Sound([s EXCEPT !.volumes = With(s.volumes, v, InNoPool)], n, over)
  BY <1>1, <1>2, VolumesLeave
<1>5. Sound([s EXCEPT !.volumes = Without(s.volumes, v)], n, over)
  BY <1>1, <1>3, VolumesLeave
<1> QED BY <1>1, <1>4, <1>5 DEF WithVolume, VolumeDeleted

(* A charge takes the space of the pool that was chosen from the pool of   *)
(* that id, and leaves the others alone.                                   *)
LEMMA ChargeSteps ==
    ASSUME StorageInv, NEW r \in Requests, request[r].phase = "awaiting"
    PROVE  LET c == request[r]
               t == Charged(c) IN
           /\ Sound(t, registered, raced)
           /\ t.volumes = mem.volumes
           /\ DOMAIN t.pools = DOMAIN mem.pools
           /\ \A p \in DOMAIN mem.pools :
                 /\ t.pools[p] \in Pool
                 /\ t.pools[p].total = mem.pools[p].total
                 /\ t.pools[p].createdAt = mem.pools[p].createdAt
                 /\ t.pools[p].available =
                       mem.pools[p].available - IF p \in c.pool THEN c.sizeGb ELSE 0
<1> DEFINE c == request[r]
           q == [p \in DOMAIN mem.pools |->
                    IF p \in c.pool
                    THEN Taken(mem.pools[p], c.sizeGb) ELSE mem.pools[p]]
<1>1. /\ Sound(mem, registered, raced) /\ registered \in Nat
      /\ c \in Awaiting /\ c.sizeGb \in Nat /\ OneOrNone(c.pool)
  BY DEF StorageInv, StorageLocal, Views, Awaiting, NoCreation
<1>2. /\ IsState(mem) /\ DOMAIN mem.pools \subseteq PoolIds
      /\ \A p \in DOMAIN mem.pools : mem.pools[p] \in Pool /\ mem.pools[p].createdAt <= registered
      /\ \A p \in DOMAIN mem.pools : mem.pools[p].available < 0 => p \in raced
  BY <1>1 DEF Sound, IsState, Numbered
<1>3. Charged(c) = [mem EXCEPT !.pools = q]
  BY DEF Charged
<1> HIDE DEF c
<1>4. ASSUME NEW p \in DOMAIN mem.pools
      PROVE  /\ q[p] \in Pool
             /\ q[p].total = mem.pools[p].total
             /\ q[p].createdAt = mem.pools[p].createdAt
             /\ q[p].available = mem.pools[p].available - IF p \in c.pool THEN c.sizeGb ELSE 0
  BY <1>1, <1>2 DEF Pool, Taken
<1>5. DOMAIN q = DOMAIN mem.pools
  OBVIOUS
<1> HIDE DEF q
<1>6. ASSUME NEW p \in DOMAIN mem.pools, q[p].available < 0 PROVE p \in raced
  <2>1. CASE p \in c.pool /\ p \notin raced
    <3>1. r \in Choosers(p)
      BY <2>1 DEF Choosers, c
    <3>2. mem.pools[p].available >= c.sizeGb
      BY <2>1, <3>1, <1>2 DEF StorageInv, RoomIsKept, c
    <3> QED BY <1>1, <1>2, <1>4, <1>6, <2>1, <3>2 DEF Pool
  <2>2. CASE p \notin c.pool
    <3>1. q[p].available = mem.pools[p].available
      BY <1>2, <1>4, <2>2 DEF Pool
    <3> QED BY <1>2, <1>6, <3>1
  <2> QED BY <2>1, <2>2
<1>7. \A p \in DOMAIN q :
         /\ q[p] \in Pool
         /\ q[p].createdAt <= registered
         /\ q[p].available < 0 => p \in raced
         /\ p \in DOMAIN mem.pools
         /\ q[p].createdAt = mem.pools[p].createdAt
         /\ mem.pools[p].total - mem.pools[p].available <= q[p].total - q[p].available
  BY <1>1, <1>2, <1>4, <1>5, <1>6 DEF Pool
<1>8. Sound([mem EXCEPT !.pools = q], registered, raced)
  <2>1. registered <= registered /\ raced \subseteq raced /\ DOMAIN q \subseteq PoolIds
    BY <1>1, <1>2, <1>5
  <2> QED BY <1>1, <1>7, <2>1, PoolsChange
<1>9. [mem EXCEPT !.pools = q].pools = q /\ [mem EXCEPT !.pools = q].volumes = mem.volumes
  BY <1>2, <1>5, <1>7, PutPools
<1> QED BY <1>3, <1>4, <1>5, <1>8, <1>9 DEF c

(* The volume is paid for by the charge before it.                         *)
LEMMA ProvisionSteps ==
    ASSUME StorageInv, NEW r \in Requests, request[r].phase = "awaiting", request[r].pool # {}
    PROVE  LET c == request[r] IN
           /\ Sound(Provisioned(Charged(c), c), registered, raced)
           /\ Provisioned(Charged(c), c).pools = Charged(c).pools
<1> DEFINE c == request[r]
           s == Charged(c)
           new == [pool |-> c.pool, sizeGb |-> c.sizeGb, paid |-> Payer(c)]
           q == With(s.volumes, c.id, new)
           t == [s EXCEPT !.volumes = q]
<1>1. /\ Sound(mem, registered, raced) /\ registered \in Nat
      /\ c.id \in VolumeIds /\ c.sizeGb \in Nat /\ c.pool \subseteq PoolIds
      /\ OneOrNone(c.pool) /\ c.pool # {}
  BY DEF StorageInv, StorageLocal, Views, Awaiting, NoCreation
<1>2. PICK home \in PoolIds : c.pool = {home}
  BY <1>1 DEF OneOrNone
<1>3. /\ Sound(s, registered, raced)
      /\ s.volumes = mem.volumes
      /\ DOMAIN s.pools = DOMAIN mem.pools
      /\ \A p \in DOMAIN mem.pools :
            /\ s.pools[p] \in Pool
            /\ s.pools[p].total = mem.pools[p].total
            /\ s.pools[p].createdAt = mem.pools[p].createdAt
            /\ s.pools[p].available = mem.pools[p].available - IF p \in c.pool THEN c.sizeGb ELSE 0
  BY ChargeSteps
<1>4. /\ IsState(mem)
      /\ \A p \in DOMAIN mem.pools : mem.pools[p] \in Pool /\ mem.pools[p].createdAt <= registered
      /\ \A p \in DOMAIN mem.pools : Covers(mem, p)
  BY <1>1 DEF Sound, IsState, Numbered
<1>5. /\ home \in DOMAIN mem.pools => Payer(c) = mem.pools[home].createdAt
      /\ home \notin DOMAIN mem.pools => Payer(c) = 0
  <2>1. (CHOOSE p \in c.pool : TRUE) = home
    BY <1>2
  <2> QED BY <1>2, <2>1 DEF Payer
<1>6. Payer(c) \in Nat /\ Payer(c) <= registered
  BY <1>1, <1>4, <1>5 DEF Pool
<1>7. new \in Volume /\ new.pool = {home} /\ new.sizeGb = c.sizeGb /\ new.paid = Payer(c)
  BY <1>1, <1>2, <1>6 DEF Volume
<1>8. t = Provisioned(s, c)
  BY DEF Provisioned, WithVolume
<1> HIDE DEF new, c, s
<1>9. /\ DOMAIN q = DOMAIN s.volumes \cup {c.id}
      /\ q[c.id] = new
      /\ \A v \in DOMAIN s.volumes : v # c.id => q[v] = s.volumes[v]
  BY DEF With
<1> HIDE DEF q
<1>10. /\ DOMAIN q \subseteq VolumeIds
       /\ \A v \in DOMAIN q : q[v] \in Volume /\ q[v].paid <= registered
  <2>1. /\ IsState(s) /\ DOMAIN s.volumes \subseteq VolumeIds
        /\ \A v \in DOMAIN s.volumes : s.volumes[v] \in Volume /\ s.volumes[v].paid <= registered
    BY <1>3 DEF Sound, IsState, Numbered
  <2> QED BY <2>1, <1>1, <1>6, <1>7, <1>9
<1>11. IsState(t) /\ t.volumes = q /\ t.pools = s.pools
  BY <1>3, <1>10, PutVolumes DEF Sound
<1> HIDE DEF t
<1>12. Numbered(t, registered)
  BY <1>3, <1>10, <1>11 DEF Sound, Numbered
<1>13. ASSUME NEW p \in DOMAIN s.pools, p # home PROVE Covers(t, p)
  <2>1. \A v \in On(t, p) : v \in On(s, p) /\ t.volumes[v] = s.volumes[v]
    BY <1>7, <1>9, <1>11, <1>13 DEF On
  <2>2. Charges(t, p) \subseteq Charges(s, p)
    BY <2>1 DEF Charges
  <2>3. Covers(s, p) /\ s.pools[p] \in Pool
    BY <1>3 DEF Sound
  <2>4. s.pools[p].total \in Int /\ s.pools[p].available \in Int
    BY <2>3 DEF Pool
  <2> QED BY <1>11, <2>2, <2>3, <2>4, CoversLess
<1>14. ASSUME home \in DOMAIN s.pools PROVE Covers(t, home)
  <2> DEFINE A == Charges(mem, home)
             B == {c.id} \X (1 .. c.sizeGb)
  <2>1. \A v \in On(t, home) : \/ v \in On(mem, home) /\ t.volumes[v] = mem.volumes[v]
                               \/ v = c.id /\ t.volumes[v] = new
    BY <1>3, <1>9, <1>11, <1>14 DEF On
  <2>2. Charges(t, home) \subseteq A \cup B
    BY <2>1, <1>7 DEF Charges
  <2>3. IsFiniteSet(A) /\ Cardinality(A) <= mem.pools[home].total - mem.pools[home].available
    BY <1>3, <1>4, <1>14 DEF Covers
  <2>4. IsFiniteSet(B) /\ Cardinality(B) = c.sizeGb
    <3>1. IsFiniteSet(1 .. c.sizeGb) /\ Cardinality(1 .. c.sizeGb) = c.sizeGb
      <4>1. 1 \in Int /\ c.sizeGb \in Int
        BY <1>1
      <4>2. /\ IsFiniteSet(1 .. c.sizeGb)
            /\ Cardinality(1 .. c.sizeGb) = IF 1 > c.sizeGb THEN 0 ELSE c.sizeGb - 1 + 1
        BY <4>1, FS_Interval
      <4> QED BY <1>1, <4>2
    <3>2. IsFiniteSet({c.id}) /\ Cardinality({c.id}) = 1
      BY FS_Singleton
    <3> QED BY <1>1, <3>1, <3>2, FS_Product
  <2> HIDE DEF A, B
  <2>5. IsFiniteSet(A \cup B) /\ Cardinality(A \cup B) <= Cardinality(A) + Cardinality(B)
    <3>1. /\ IsFiniteSet(A \cup B)
          /\ Cardinality(A \cup B) = Cardinality(A) + Cardinality(B) - Cardinality(A \cap B)
      BY <2>3, <2>4, FS_Union
    <3>2. IsFiniteSet(A \cap B)
      BY <2>3, FS_Intersection
    <3>3. Cardinality(A) \in Nat /\ Cardinality(B) \in Nat /\ Cardinality(A \cap B) \in Nat
      BY <2>3, <2>4, <3>2, FS_CardinalityType
    <3> QED BY <3>1, <3>3
  <2>6. IsFiniteSet(Charges(t, home)) /\ Cardinality(Charges(t, home)) <= Cardinality(A \cup B)
    BY <2>2, <2>5, FS_Subset
  <2>7. /\ Cardinality(Charges(t, home)) \in Nat /\ Cardinality(A \cup B) \in Nat
        /\ Cardinality(A) \in Nat
    BY <2>3, <2>5, <2>6, FS_CardinalityType
  <2>8. /\ t.pools[home].total = mem.pools[home].total
        /\ t.pools[home].available = mem.pools[home].available - c.sizeGb
        /\ mem.pools[home].total \in Int /\ mem.pools[home].available \in Int
    BY <1>2, <1>3, <1>4, <1>11, <1>14 DEF Pool
  <2> QED BY <1>1, <2>3, <2>4, <2>5, <2>6, <2>7, <2>8 DEF Covers
<1>15. \A p \in DOMAIN t.pools : t.pools[p].available < 0 => p \in raced
  BY <1>3, <1>11 DEF Sound
<1>16. Sound(t, registered, raced)
  BY <1>11, <1>12, <1>13, <1>14, <1>15 DEF Sound
<1> QED BY <1>8, <1>11, <1>16 DEF c, s

(* More registrations and more races are easier to bear.                   *)
LEMMA SoundGrows ==
    ASSUME NEW s, NEW n \in Nat, NEW over, Sound(s, n, over),
           NEW m \in Nat, n <= m, NEW wider, over \subseteq wider
    PROVE  Sound(s, m, wider)
<1>1. /\ \A p \in DOMAIN s.pools : s.pools[p].createdAt \in Nat
      /\ \A v \in DOMAIN s.volumes : s.volumes[v].paid \in Nat
  BY DEF Sound, IsState, Pool, Volume
<1>2. Numbered(s, m)
  BY <1>1 DEF Sound, Numbered
<1> QED BY <1>2 DEF Sound

(* One mutation, stored or not.                                            *)
LEMMA MutationIsSound ==
    ASSUME StorageInv, NEW next, Mutated(next),
           registered' \in Nat, registered <= registered', raced \subseteq raced',
           Sound(next, registered', raced')
    PROVE  /\ \A s \in Views' : Sound(s, registered', raced')
           /\ mem' \in {mem, next}
           /\ faults' \in Nat
<1>1. \A s \in Views : Sound(s, registered', raced')
  BY SoundGrows DEF StorageInv, StorageLocal
<1>2. Views' \subseteq Views \cup {next}
  BY SaveViews DEF Mutated
<1>3. mem' \in {mem, next}
  BY DEF Mutated, Saved, NotSaved, Interrupted, Undone
<1>4. faults' \in Nat
  BY DEF Mutated, Fault, NoFault, StorageInv, StorageLocal
<1> QED BY <1>1, <1>2, <1>3, <1>4

(* The room that a creation saw is left while creations only end and only  *)
(* the pools that nobody has chosen lose space.                            *)
LEMMA RoomStays ==
    ASSUME StorageInv, raced \subseteq raced',
           \A r \in Requests : request'[r] = request[r] \/ request'[r] = NoCreation,
           \A p \in PoolIds \ raced' : Choosers(p)' # {} /\ p \in DOMAIN mem'.pools =>
              /\ p \in DOMAIN mem.pools
              /\ mem'.pools[p].available = mem.pools[p].available
    PROVE  RoomIsKept'
<1> SUFFICES ASSUME NEW p \in PoolIds \ raced', NEW r \in Choosers(p)'
             PROVE  /\ Choosers(p)' = {r}
                    /\ p \in DOMAIN mem'.pools => mem'.pools[p].available >= request'[r].sizeGb
  BY DEF RoomIsKept
<1>1. \A q \in Choosers(p)' : q \in Choosers(p) /\ request'[q] = request[q]
  BY DEF Choosers, NoCreation
<1>2. /\ Choosers(p) = {r}
      /\ p \in DOMAIN mem.pools => mem.pools[p].available >= request[r].sizeGb
  BY <1>1 DEF StorageInv, RoomIsKept
<1>3. Choosers(p)' = {r}
  BY <1>1, <1>2
<1> QED BY <1>1, <1>2, <1>3

(* A request that ends leaves the others as they are.                      *)
LEMMA RequestEnds ==
    ASSUME StorageLocal, NEW r \in Requests, Done(r), up' = up
    PROVE  /\ request' \in [Requests -> {NoCreation} \cup Awaiting]
           /\ \A q \in Requests : request'[q] = request[q] \/ request'[q] = NoCreation
           /\ request'[r] = NoCreation
           /\ \A q \in Requests :
                 request'[q].phase = "awaiting" => up' /\ OneOrNone(request'[q].pool)
BY DEF StorageLocal, Done, NoCreation

-----------------------------------------------------------------------------
(* The requests about pools and volumes that wait for nothing.             *)
LEMMA SimpleSteps ==
    ASSUME StorageInv,
           \/ \E p \in PoolIds : DrainPool(p) \/ RemovePool(p)
           \/ UpdatePoolHeartbeat
           \/ \E v \in VolumeIds, size \in Sizes : NoPoolFits(v, size)
           \/ \E v \in VolumeIds : CreateUnbacked(v) \/ DeleteVolume(v)
    PROVE  StorageInv'
<1>1. /\ Sound(mem, registered, raced) /\ registered \in Nat
      /\ registered <= registered /\ raced \subseteq raced /\ StorageLocal
  BY DEF StorageInv, StorageLocal, Views
<1>2. /\ IsState(mem) /\ DOMAIN mem.pools \subseteq PoolIds
      /\ \A p \in DOMAIN mem.pools : mem.pools[p] \in Pool /\ mem.pools[p].createdAt <= registered
      /\ \A p \in DOMAIN mem.pools : mem.pools[p].available < 0 => p \in raced
  BY <1>1 DEF Sound, IsState, Numbered
<1> DEFINE Fine(next) ==
             /\ Sound(next, registered, raced)
             /\ DOMAIN next.pools \subseteq DOMAIN mem.pools
             /\ \A p \in DOMAIN next.pools : next.pools[p].available = mem.pools[p].available
<1>3. ASSUME NEW next, Mutated(next), UNCHANGED <<up, request, registered, raced>>, Fine(next)
      PROVE  StorageInv'
  <2>1. /\ \A s \in Views' : Sound(s, registered', raced')
        /\ mem' \in {mem, next} /\ faults' \in Nat
    BY <1>1, <1>3, MutationIsSound
  <2>2. RoomIsKept'
    <3>1. \A p \in DOMAIN mem'.pools :
             p \in DOMAIN mem.pools /\ mem'.pools[p].available = mem.pools[p].available
      BY <1>3, <2>1
    <3>2. \A r \in Requests : request'[r] = request[r]
      BY <1>3
    <3> QED BY <1>3, <3>1, <3>2, RoomStays
  <2>3. StorageLocal'
    BY <1>1, <1>3, <2>1 DEF StorageLocal
  <2> QED BY <2>1, <2>2, <2>3 DEF StorageInv
<1>4. ASSUME NEW p \in PoolIds, DrainPool(p) PROVE StorageInv'
  <2> DEFINE q == [mem.pools EXCEPT ![p] = Drained(mem.pools[p])]
             next == [mem EXCEPT !.pools = q]
  <2>1. /\ Mutated(next) /\ UNCHANGED <<up, request, registered, raced>>
        /\ p \in DOMAIN mem.pools
    <3>1. [mem EXCEPT !.pools[p] = Drained(@)] = next
      OBVIOUS
    <3> QED BY <1>4, <3>1 DEF DrainPool
  <2>2. /\ DOMAIN q = DOMAIN mem.pools
        /\ \A k \in DOMAIN q : q[k] = IF k = p THEN Drained(mem.pools[p]) ELSE mem.pools[k]
    OBVIOUS
  <2>3. /\ Drained(mem.pools[p]) \in Pool
        /\ Drained(mem.pools[p]).available = mem.pools[p].available
        /\ Drained(mem.pools[p]).total = mem.pools[p].total
        /\ Drained(mem.pools[p]).createdAt = mem.pools[p].createdAt
    BY <1>2, <2>1 DEF Pool, Drained
  <2> HIDE DEF q
  <2>4. \A k \in DOMAIN q :
          /\ q[k] \in Pool
          /\ k \in DOMAIN mem.pools
          /\ q[k].available = mem.pools[k].available
          /\ q[k].total = mem.pools[k].total
          /\ q[k].createdAt = mem.pools[k].createdAt
    BY <1>2, <2>2, <2>3
  <2>5. \A k \in DOMAIN q :
          /\ q[k].createdAt <= registered
          /\ q[k].available < 0 => k \in raced
          /\ mem.pools[k].total - mem.pools[k].available <= q[k].total - q[k].available
    BY <1>2, <2>4 DEF Pool
  <2>6. DOMAIN q \subseteq PoolIds
    BY <1>2, <2>2
  <2>7. Sound(next, registered, raced)
    BY <1>1, <2>4, <2>5, <2>6, PoolsChange
  <2>8. next.pools = q
    BY <1>2, <2>4, <2>6, PutPools
  <2> QED BY <1>3, <2>1, <2>2, <2>4, <2>7, <2>8
<1>5. ASSUME NEW p \in PoolIds, RemovePool(p) PROVE StorageInv'
  <2> DEFINE q == Without(mem.pools, p)
             next == [mem EXCEPT !.pools = q]
  <2>1. Mutated(next) /\ UNCHANGED <<up, request, registered, raced>>
    BY <1>5 DEF RemovePool, PoolRemoved
  <2>2. /\ DOMAIN q \subseteq DOMAIN mem.pools
        /\ \A k \in DOMAIN q : q[k] = mem.pools[k]
    BY DEF Without
  <2> HIDE DEF q
  <2>3. \A k \in DOMAIN q :
          /\ q[k] \in Pool
          /\ k \in DOMAIN mem.pools
          /\ q[k].createdAt = mem.pools[k].createdAt
          /\ q[k].createdAt <= registered
          /\ q[k].available < 0 => k \in raced
          /\ mem.pools[k].total - mem.pools[k].available <= q[k].total - q[k].available
    BY <1>2, <2>2 DEF Pool
  <2>4. DOMAIN q \subseteq PoolIds
    BY <1>2, <2>2
  <2>5. Sound(next, registered, raced)
    BY <1>1, <2>3, <2>4, PoolsChange
  <2>6. next.pools = q
    BY <1>2, <2>3, <2>4, PutPools
  <2> QED BY <1>3, <2>1, <2>2, <2>5, <2>6
<1>6. CASE UpdatePoolHeartbeat
  BY <1>1, <1>3, <1>6 DEF UpdatePoolHeartbeat
<1>7. ASSUME NEW v \in VolumeIds, (\E size \in Sizes : NoPoolFits(v, size)) \/ CreateUnbacked(v)
      PROVE  StorageInv'
  <2>1. Fine(WithVolume(mem, v, InNoPool))
    BY <1>1, VolumeSteps
  <2> QED BY <1>3, <1>7, <2>1 DEF NoPoolFits, CreateUnbacked
<1>8. ASSUME NEW v \in VolumeIds, DeleteVolume(v) PROVE StorageInv'
  <2>1. Fine(VolumeDeleted(mem, v))
    BY <1>1, VolumeSteps
  <2> QED BY <1>3, <1>8, <2>1 DEF DeleteVolume
<1> QED BY <1>4, <1>5, <1>6, <1>7, <1>8

(* A registration has all of its space and nothing charged to it; whoever  *)
(* chose the pool before raced with it.                                    *)
LEMMA RegisterStep ==
    ASSUME StorageInv, NEW p \in PoolIds, NEW total \in Totals, RegisterPool(p, total)
    PROVE  StorageInv'
<1> DEFINE pool == [total |-> total, available |-> total, status |-> "active",
                    createdAt |-> registered + 1]
           q == With(mem.pools, p, pool)
           next == [mem EXCEPT !.pools = q]
<1>1. /\ Sound(mem, registered, raced) /\ registered \in Nat /\ registered' = registered + 1
      /\ total \in Nat /\ raced \subseteq raced' /\ raced' \subseteq PoolIds
      /\ UNCHANGED <<up, request>> /\ Mutated(next)
      /\ Choosers(p) # {} => p \in raced'
  BY StorageAssumption DEF StorageInv, StorageLocal, Views, RegisterPool, NewPool
<1>2. /\ IsState(mem) /\ DOMAIN mem.pools \subseteq PoolIds
      /\ \A k \in DOMAIN mem.pools : mem.pools[k] \in Pool /\ mem.pools[k].createdAt <= registered
      /\ \A k \in DOMAIN mem.pools : mem.pools[k].available < 0 => k \in raced
  BY <1>1 DEF Sound, IsState, Numbered
<1>3. /\ pool \in Pool /\ pool.createdAt = registered + 1 /\ pool.available = total
      /\ pool.total = total
  BY <1>1 DEF Pool
<1>4. /\ DOMAIN q = DOMAIN mem.pools \cup {p}
      /\ \A k \in DOMAIN q : q[k] = IF k = p THEN pool ELSE mem.pools[k]
  BY DEF With
<1> HIDE DEF pool, q
<1>5. DOMAIN q \subseteq PoolIds
  BY <1>2, <1>4
<1>6. ASSUME NEW k \in DOMAIN q
      PROVE  /\ q[k] \in Pool
             /\ q[k].createdAt <= registered'
             /\ q[k].available < 0 => k \in raced'
             /\ \/ /\ k \in DOMAIN mem.pools
                   /\ q[k].createdAt = mem.pools[k].createdAt
                   /\ mem.pools[k].total - mem.pools[k].available <= q[k].total - q[k].available
                \/ /\ registered < q[k].createdAt
                   /\ q[k].available = q[k].total
  <2>1. CASE k = p
    BY <1>1, <1>3, <1>4, <2>1
  <2>2. CASE k # p
    BY <1>1, <1>2, <1>4, <2>2 DEF Pool
  <2> QED BY <2>1, <2>2
<1>7. registered' \in Nat /\ registered <= registered'
  BY <1>1
<1>8. Sound(next, registered', raced')
  BY <1>1, <1>5, <1>6, <1>7, PoolsChange
<1>9. next.pools = q
  BY <1>2, <1>5, <1>6, PutPools
<1>10. /\ \A s \in Views' : Sound(s, registered', raced')
       /\ mem' \in {mem, next} /\ faults' \in Nat
  BY <1>1, <1>7, <1>8, MutationIsSound
<1>11. RoomIsKept'
  <2>1. ASSUME NEW k \in PoolIds \ raced', Choosers(k)' # {}, k \in DOMAIN mem'.pools
        PROVE  k \in DOMAIN mem.pools /\ mem'.pools[k].available = mem.pools[k].available
    <3>1. k # p
      BY <1>1, <2>1 DEF Choosers
    <3> QED BY <1>4, <1>9, <1>10, <2>1, <3>1
  <2> QED BY <1>1, <2>1, RoomStays
<1>12. StorageLocal'
  BY <1>1, <1>7, <1>10 DEF StorageInv, StorageLocal
<1> QED BY <1>10, <1>11, <1>12 DEF StorageInv

(* A creation that chooses a pool finds room there, and it is the only one *)
(* to have chosen it unless the two race.                                  *)
LEMMA ChoiceStep ==
    ASSUME StorageInv, NEW r \in Requests, NEW v \in VolumeIds,
           CreateStandard(r, v) \/ \E size \in Sizes : ChooseShared(r, v, size)
    PROVE  StorageInv'
<1>1. /\ up /\ request[r] = NoCreation /\ UNCHANGED <<cell, up, registered, faults>>
      /\ StorageLocal /\ RoomIsKept
  BY DEF CreateStandard, ChooseShared, StorageInv
<1>2. /\ r \notin UNION {Choosers(p) : p \in PoolIds}
      /\ \A p \in PoolIds : r \notin Choosers(p)
  BY <1>1 DEF Choosers, NoCreation
<1>3. Sound(mem, registered, raced) /\ registered \in Nat
  BY DEF StorageInv, StorageLocal, Views
<1>4. CASE CreateStandard(r, v)
  <2> DEFINE c == [phase |-> "awaiting", id |-> v, pool |-> {}, sizeGb |-> 0]
  <2>1. c \in Awaiting /\ c.pool = {} /\ c.phase = "awaiting"
    BY DEF Awaiting
  <2>2. request' = [request EXCEPT ![r] = c] /\ raced' = raced
    BY <1>4 DEF CreateStandard
  <2> HIDE DEF c
  <2>3. StorageLocal'
    BY <1>1, <2>1, <2>2 DEF StorageLocal, OneOrNone
  <2>4. \A q \in Requests : q # r => request'[q] = request[q]
    BY <1>1, <2>2 DEF StorageLocal
  <2>5. request'[r] = c
    BY <1>1, <2>2 DEF StorageLocal
  <2>6. \A p \in PoolIds : Choosers(p)' = Choosers(p)
    BY <1>2, <2>1, <2>4, <2>5 DEF Choosers
  <2>7. RoomIsKept'
    BY <1>1, <1>2, <2>2, <2>4, <2>6 DEF RoomIsKept, cell
  <2>8. \A s \in Views' : Sound(s, registered', raced')
    BY <1>1, <2>2 DEF Views, cell, StorageInv
  <2> QED BY <2>3, <2>7, <2>8 DEF StorageInv
<1>5. ASSUME NEW size \in Sizes, ChooseShared(r, v, size) PROVE StorageInv'
  <2>1. PICK p \in Selected(size) :
          /\ request' = [request EXCEPT ![r] =
                [phase |-> "awaiting", id |-> v, pool |-> {p}, sizeGb |-> size]]
          /\ raced' = IF Choosers(p) # {} THEN raced \cup {p} ELSE raced
    BY <1>5 DEF ChooseShared
  <2> DEFINE c == [phase |-> "awaiting", id |-> v, pool |-> {p}, sizeGb |-> size]
  <2>2. p \in DOMAIN mem.pools /\ mem.pools[p].available >= size /\ p \in PoolIds /\ size \in Nat
    BY <1>3, StorageAssumption DEF Selected, Candidates, Sound, IsState
  <2>3. c \in Awaiting /\ c.pool = {p} /\ c.phase = "awaiting" /\ c.sizeGb = size
    BY <2>2 DEF Awaiting
  <2>4. request' = [request EXCEPT ![r] = c]
    BY <2>1
  <2> HIDE DEF c
  <2>5. /\ raced \subseteq raced' /\ raced' \subseteq PoolIds
        /\ Choosers(p) # {} => p \in raced'
    BY <1>1, <2>1, <2>2 DEF StorageLocal
  <2>6. StorageLocal'
    BY <1>1, <2>2, <2>3, <2>4, <2>5 DEF StorageLocal, OneOrNone
  <2>7. request'[r] = c /\ \A q \in Requests : q # r => request'[q] = request[q]
    BY <1>1, <2>4 DEF StorageLocal
  <2>8. /\ Choosers(p)' = Choosers(p) \cup {r}
        /\ \A k \in PoolIds : k # p => Choosers(k)' = Choosers(k)
    BY <1>2, <2>3, <2>7 DEF Choosers
  <2>9. RoomIsKept'
    <3> SUFFICES ASSUME NEW k \in PoolIds \ raced', NEW q \in Choosers(k)'
                 PROVE  /\ Choosers(k)' = {q}
                        /\ k \in DOMAIN mem'.pools
                             => mem'.pools[k].available >= request'[q].sizeGb
      BY DEF RoomIsKept
    <3>1. CASE k = p
      BY <1>1, <2>2, <2>3, <2>5, <2>7, <2>8, <3>1 DEF cell
    <3>2. CASE k # p
      <4>1. q \in Choosers(k) /\ k \notin raced /\ q # r
        BY <1>2, <2>5, <2>8, <3>2
      <4>2. q \in Requests
        BY <4>1 DEF Choosers
      <4> QED BY <1>1, <2>7, <2>8, <3>2, <4>1, <4>2 DEF RoomIsKept, cell
    <3> QED BY <3>1, <3>2
  <2>10. \A s \in Views' : Sound(s, registered', raced')
    <3>1. Views' = Views /\ registered' = registered
      BY <1>1 DEF Views, cell
    <3>2. registered <= registered
      BY <1>3
    <3>3. \A s \in Views : Sound(s, registered, raced')
      BY <1>3, <2>5, <3>2, SoundGrows DEF StorageInv
    <3> QED BY <3>1, <3>3
  <2> QED BY <2>6, <2>9, <2>10 DEF StorageInv
<1> QED BY <1>4, <1>5

(* The object store has answered, and one of the saves may fail.           *)
LEMMA AnswerStep ==
    ASSUME StorageInv, NEW r \in Requests,
           MadeInNoPool(r) \/ SharedMade(r) \/ ChargeFails(r) \/ RecordFails(r)
    PROVE  StorageInv'
<1> DEFINE c == request[r]
           failed == WithVolume(mem, c.id, InNoPool)
           s1 == Charged(c)
           s2 == Provisioned(Charged(c), c)
<1>1. /\ up /\ c.phase = "awaiting" /\ Done(r) /\ UNCHANGED <<up, registered, raced>>
      /\ StorageLocal
  BY DEF MadeInNoPool, SharedMade, ChargeFails, RecordFails, Awaits, StorageInv
<1>2. /\ Sound(mem, registered, raced) /\ registered \in Nat /\ registered <= registered
      /\ c \in Awaiting /\ c.id \in VolumeIds
  BY <1>1 DEF StorageInv, StorageLocal, Views, Awaiting, NoCreation
<1>3. Sound(failed, registered, raced) /\ failed.pools = mem.pools
  BY <1>2, VolumeSteps
<1>4. /\ Sound(s1, registered, raced)
      /\ DOMAIN s1.pools = DOMAIN mem.pools
      /\ \A p \in DOMAIN mem.pools :
            s1.pools[p].available =
               mem.pools[p].available - IF p \in c.pool THEN c.sizeGb ELSE 0
  BY <1>1, ChargeSteps
<1>5. c.pool # {} => Sound(s2, registered, raced) /\ s2.pools = s1.pools
  BY <1>1, ProvisionSteps
<1>6. /\ request' \in [Requests -> {NoCreation} \cup Awaiting]
      /\ \A q \in Requests : request'[q] = request[q] \/ request'[q] = NoCreation
      /\ request'[r] = NoCreation
      /\ \A q \in Requests :
            request'[q].phase = "awaiting" => up' /\ OneOrNone(request'[q].pool)
  BY <1>1, RequestEnds
<1> HIDE DEF failed, s1, s2
<1>7. /\ \A s \in Views' : s \in Views \/ s = failed \/ (c.pool # {} /\ s \in {s1, s2})
      /\ mem' \in {mem, failed} \/ (c.pool # {} /\ mem' \in {s1, s2})
      /\ faults' \in Nat
  <2>1. CASE MadeInNoPool(r)
    <3>1. Mutated(failed)
      BY <2>1 DEF MadeInNoPool, failed
    <3>2. Views' \subseteq Views \cup {failed} /\ mem' \in {mem, failed}
      BY <3>1, SaveViews DEF Mutated, Saved, NotSaved, Interrupted, Undone
    <3>3. faults' \in Nat
      BY <1>1, <3>1 DEF Mutated, Fault, NoFault, StorageLocal
    <3> QED BY <3>2, <3>3
  <2>2. Steps(c) = <<s1, s2>> /\ Len(Steps(c)) = 2 /\ Head(Steps(c)) = s1
    BY DEF Steps, s1, s2
  <2>3. CASE SharedMade(r)
    <3>1. SavedInTurn(<<s1, s2>>) /\ c.pool # {} /\ NoFault
      BY <2>2, <2>3 DEF SharedMade
    <3>2. mem' = s2 /\ disk' = s2 /\ older' = s1
      BY <3>1 DEF SavedInTurn
    <3> QED BY <1>1, <3>1, <3>2 DEF Views, NoFault, StorageLocal
  <2>4. CASE ChargeFails(r)
    <3>1. mem' = failed /\ disk' = failed /\ older' \in {disk, s1} /\ c.pool # {} /\ Fault
      BY <2>2, <2>4 DEF ChargeFails, failed
    <3> QED BY <1>1, <3>1 DEF Views, Fault, StorageLocal
  <2>5. CASE RecordFails(r)
    <3>1. /\ mem' = s1 /\ disk' \in {s1, s2} /\ older' \in {disk, s1}
          /\ c.pool # {} /\ Fault
      BY <2>2, <2>5 DEF RecordFails
    <3> QED BY <1>1, <3>1 DEF Views, Fault, StorageLocal
  <2> QED BY <2>1, <2>3, <2>4, <2>5
<1>8. \A s \in Views' : Sound(s, registered', raced')
  BY <1>1, <1>3, <1>4, <1>5, <1>7 DEF StorageInv
<1>9. RoomIsKept'
  <2>1. ASSUME NEW p \in PoolIds \ raced', Choosers(p)' # {}, p \in DOMAIN mem'.pools
        PROVE  p \in DOMAIN mem.pools /\ mem'.pools[p].available = mem.pools[p].available
    <3>1. PICK q \in Requests : request'[q].phase = "awaiting" /\ p \in request'[q].pool
      BY <2>1 DEF Choosers
    <3>2. q # r /\ q \in Choosers(p)
      BY <1>6, <3>1 DEF NoCreation, Choosers
    <3>3. p \notin c.pool
      <4>1. p \in c.pool => r \in Choosers(p)
        BY <1>1 DEF Choosers
      <4>2. p \notin raced /\ RoomIsKept
        BY <1>1 DEF StorageInv
      <4> QED BY <3>2, <4>1, <4>2 DEF RoomIsKept
    <3>4. \A k \in DOMAIN mem.pools : mem.pools[k].available \in Int
      BY <1>2 DEF Sound, IsState, Pool
    <3>5. \A k \in DOMAIN mem.pools : k \notin c.pool =>
             s1.pools[k].available = mem.pools[k].available
      BY <1>4, <3>4
    <3> QED BY <1>3, <1>4, <1>5, <1>7, <2>1, <3>3, <3>5
  <2> QED BY <1>1, <1>6, <2>1, RoomStays
<1>10. StorageLocal'
  BY <1>1, <1>6, <1>7 DEF StorageLocal
<1> QED BY <1>8, <1>9, <1>10 DEF StorageInv

(* The end of the process and its next start.                              *)
LEMMA RestartStep ==
    ASSUME StorageInv, StorageKill \/ StorageStart
    PROVE  StorageInv'
<1>1. UNCHANGED <<registered, faults, raced>> /\ StorageLocal
  BY DEF StorageKill, StorageStart, StorageInv
<1>2. Views' \subseteq Views
  <2>1. CASE StorageKill
    BY <2>1 DEF StorageKill, cell, Views
  <2>2. CASE StorageStart
    BY <2>2, ReloadViews DEF StorageStart
  <2> QED BY <2>1, <2>2
<1>3. /\ up' \in BOOLEAN /\ request' \in [Requests -> {NoCreation} \cup Awaiting]
      /\ \A r \in Requests : request'[r].phase # "awaiting"
  <2>1. CASE StorageKill
    BY <2>1 DEF StorageKill, NoCreation
  <2>2. CASE StorageStart
    BY <1>1, <2>2 DEF StorageStart, StorageLocal
  <2> QED BY <2>1, <2>2
<1>4. StorageLocal'
  BY <1>1, <1>3 DEF StorageLocal
<1>5. RoomIsKept'
  BY <1>3 DEF RoomIsKept, Choosers
<1>6. \A s \in Views' : Sound(s, registered', raced')
  BY <1>1, <1>2 DEF StorageInv
<1> QED BY <1>4, <1>5, <1>6 DEF StorageInv

(* A first start has neither pools nor volumes.                            *)
LEMMA StorageStarts == StorageInit => StorageInv
<1> SUFFICES ASSUME StorageInit PROVE StorageInv
  OBVIOUS
<1> DEFINE s == [pools |-> << >>, volumes |-> << >>]
<1>1. DOMAIN s = {"pools", "volumes"} /\ DOMAIN s.pools = {} /\ DOMAIN s.volumes = {}
  OBVIOUS
<1>2. Views = {s}
  BY DEF StorageInit, StartsWith, Views
<1> HIDE DEF s
<1>3. Sound(s, registered, raced)
  BY <1>1 DEF Sound, IsState, Numbered
<1>4. \A r \in Requests : request[r] = NoCreation
  BY DEF StorageInit
<1>5. StorageLocal
  BY <1>4 DEF StorageInit, StorageLocal, NoCreation
<1>6. RoomIsKept
  BY <1>4 DEF RoomIsKept, Choosers, NoCreation
<1> QED BY <1>2, <1>3, <1>5, <1>6 DEF StorageInv

(* Every step keeps the invariant.                                         *)
LEMMA StorageSteps == StorageInv /\ [StorageNext]_storage => StorageInv'
<1>1. ASSUME StorageInv, UNCHANGED storage PROVE StorageInv'
  BY <1>1 DEF StorageInv, StorageLocal, RoomIsKept, Choosers, Views, storage, cell
<1>2. ASSUME StorageInv, StorageNext PROVE StorageInv'
  BY <1>2, SimpleSteps, RegisterStep, ChoiceStep, AnswerStep, RestartStep
     DEF StorageNext, CreateVolume
<1> QED BY <1>1, <1>2

-----------------------------------------------------------------------------
(* The invariant holds throughout.                                         *)
LEMMA StorageInvariant == StorageSpec => []StorageInv
BY StorageStarts, StorageSteps, PTL DEF StorageSpec

(* Pools, volumes and requests keep their types: no creation, failed save  *)
(* or restart leaves a state that the code could not read back.            *)
THEOREM StorageTypeCorrect == StorageSpec => []StorageTypeOK
<1>1. StorageInv => StorageTypeOK
  BY DEF StorageInv, StorageLocal, Sound, StorageTypeOK
<1> QED BY <1>1, StorageInvariant, PTL

(* In memory and in both files, a registration of a pool has given away at *)
(* least what its provisioned volumes take (createVolume charges the pool  *)
(* before it stores the volume).                                           *)
THEOREM VolumesArePaid == StorageSpec => []NoUnpaidVolume
<1>1. StorageInv => NoUnpaidVolume
  <2> SUFFICES ASSUME StorageInv, NEW s \in Views, NEW p \in DOMAIN s.pools
               PROVE  s.pools[p].total - s.pools[p].available >= Cardinality(Charges(s, p))
    BY DEF NoUnpaidVolume
  <2>1. /\ IsFiniteSet(Charges(s, p)) /\ s.pools[p] \in Pool
        /\ Cardinality(Charges(s, p)) <= s.pools[p].total - s.pools[p].available
    BY DEF StorageInv, Sound, IsState, Covers
  <2>2. Cardinality(Charges(s, p)) \in Nat
    BY <2>1, FS_CardinalityType
  <2> QED BY <2>1, <2>2 DEF Pool
<1> QED BY <1>1, StorageInvariant, PTL

(* Only where two creations overlapped, or a pool was registered anew      *)
(* during one, does a pool give away more than it has.                     *)
THEOREM SpaceFits == StorageSpec => []FitsUnlessRaced
<1>1. StorageInv => FitsUnlessRaced
  BY DEF StorageInv, Sound, FitsUnlessRaced
<1> QED BY <1>1, StorageInvariant, PTL

-----------------------------------------------------------------------------
(* Tool heartbeats: ages stay below the expiry, and a probe's captured     *)
(* place is one a tool can have.                                           *)

(* What an operation makes of a tool is a tool.                            *)
LEMMA ToolsStayTools ==
    ASSUME NEW old \in Tool, NEW upstream \in Upstreams \cup {None},
           NEW health \in Health \cup {None}
    PROVE  /\ Beaten(old, upstream, health) \in Tool
           /\ Expired(old) \in Tool
           /\ Older(old) \in Tool
<1>1. /\ Given(upstream, old.upstream) \in Upstreams \cup {None}
      /\ Given(health, "healthy") \in Health
  BY DEF Given, Tool, Health
<1>2. 0 \in Age
  BY ToolHealthAssumption DEF Age, Never
<1>3. Beaten(old, upstream, health) \in Tool
  BY <1>1, <1>2 DEF Beaten, Tool
<1>4. Expired(old) \in Tool
  BY DEF Expired, Tool, Health
<1>5. old.age \in Age /\ old.age \notin {Never, Late} => old.age + 1 \in Age
  BY ToolHealthAssumption DEF Age, Never
<1>6. Older(old) \in Tool
  BY <1>5 DEF Older, Tool
<1> QED BY <1>3, <1>4, <1>6

(* What a client or an operator writes is a tool, or none.                 *)
LEMMA WritesKeepTypes ==
    ASSUME HealthTypeOK, NEW t \in Tools, ToolWrites(t)
    PROVE  HealthTypeOK'
<1>1. ASSUME NEW record \in Tool \cup {None}, Commit(t, record)
      PROVE  HealthTypeOK'
  BY <1>1 DEF Commit, HealthTypeOK
<1>2. ASSUME NEW upstream \in Upstreams \cup {None}, NEW health \in Health \cup {None},
             Register(t, upstream, health)
      PROVE  HealthTypeOK'
  <2> DEFINE old == IF tool[t] = None THEN NewTool ELSE tool[t]
  <2>1. NewTool \in Tool
    BY ToolHealthAssumption DEF NewTool, Tool, Health, Age, Never
  <2>2. old \in Tool
    BY <2>1 DEF HealthTypeOK
  <2>3. /\ Given(upstream, old.upstream) \in Upstreams \cup {None}
        /\ Given(health, old.health) \in Health
    BY <2>2 DEF Given, Tool, Health
  <2>4. [old EXCEPT !.upstream = Given(upstream, @), !.health = Given(health, @)] \in Tool
    BY <2>2, <2>3 DEF Tool
  <2> QED BY <1>1, <1>2, <2>4 DEF Register
<1>3. ASSUME NEW upstream \in Upstreams \cup {None}, NEW health \in Health \cup {None},
             Heartbeat(t, upstream, health)
      PROVE  HealthTypeOK'
  BY <1>3, ToolsStayTools DEF Heartbeat, HealthTypeOK
<1>4. ASSUME NEW flag \in BOOLEAN, Expose(t, flag) PROVE HealthTypeOK'
  <2>1. [tool[t] EXCEPT !.exposed = flag] \in Tool
    BY <1>4 DEF Expose, HealthTypeOK, Tool
  <2> QED BY <1>1, <1>4, <2>1 DEF Expose
<1>5. ASSUME Deregister(t) PROVE HealthTypeOK'
  BY <1>1, <1>5 DEF Deregister
<1> QED BY <1>2, <1>3, <1>4, <1>5 DEF ToolWrites

(* The interval ages every tool by one and captures where it runs.         *)
LEMMA IntervalKeepsTypes ==
    ASSUME HealthTypeOK, Interval
    PROVE  HealthTypeOK'
<1>1. tool' \in [Tools -> Tool \cup {None}]
  <2>1. ASSUME NEW t \in Tools, tool[t] # None
        PROVE  /\ Older(tool[t]) \in Tool
               /\ Expired(Older(tool[t])) \in Tool
    BY <2>1, ToolsStayTools DEF HealthTypeOK, Health
  <2>2. AfterExpiry \in [Tools -> Tool \cup {None}]
    BY <2>1 DEF AfterExpiry
  <2> QED BY <2>2 DEF Interval
<1>2. probes' \subseteq Probe
  <2> DEFINE captured(t) == [tool |-> t, upstream |-> tool'[t].upstream,
                             down |-> tool'[t].health = "offline"]
  <2>1. ASSUME NEW t \in Tools, Watched(tool'[t])
        PROVE  captured(t) \in Probe
    <3>1. tool'[t].upstream \in Upstreams
      BY <1>1, <2>1 DEF Watched, Tool
    <3>2. (tool'[t].health = "offline") \in BOOLEAN
      OBVIOUS
    <3> QED BY <3>1, <3>2 DEF Probe
  <2>2. probes' = {captured(t) : t \in {s \in Tools : Watched(tool'[s])}}
    BY DEF Interval
  <2> HIDE DEF captured
  <2> QED BY <2>1, <2>2
<1> QED BY <1>1, <1>2 DEF Interval, HealthTypeOK

(* An answer is applied to what the registry holds by then.                *)
LEMMA AnswerKeepsTypes ==
    ASSUME HealthTypeOK, NEW p \in probes, Answer(p)
    PROVE  HealthTypeOK'
<1>1. ASSUME NEW old \in Tool PROVE Succeeded(p, old) \in Tool /\ Failed(p, old) \in Tool
  BY ToolsStayTools DEF Succeeded, Failed
<1>2. tool' \in [Tools -> Tool \cup {None}]
  BY <1>1 DEF Answer, HealthTypeOK
<1> QED BY <1>2 DEF Answer, HealthTypeOK

(* A start brings an age of its own for each tool that has reported.       *)
LEMMA LoadKeepsTypes ==
    ASSUME HealthTypeOK, HealthStart
    PROVE  HealthTypeOK'
<1>1. PICK age \in 0 .. Late :
          tool' = [t \in Tools |->
             IF stored[t] = None \/ stored[t].age = Never THEN stored[t]
             ELSE [stored[t] EXCEPT !.age = age]]
  BY DEF HealthStart
<1>2. age \in Age
  BY ToolHealthAssumption DEF Age, Never
<1>3. tool' \in [Tools -> Tool \cup {None}]
  BY <1>1, <1>2 DEF HealthTypeOK, Tool
<1> QED BY <1>3 DEF HealthStart, HealthTypeOK

(* Tools, the stored tools and the captured probes keep their types, under *)
(* every order of writes, rounds, late answers and restarts.               *)
THEOREM HealthTypeCorrect == HealthSpec => []HealthTypeOK
<1>1. HealthInit => HealthTypeOK
  BY DEF HealthInit, HealthTypeOK
<1>2. HealthTypeOK /\ [HealthNext]_toolHealth => HealthTypeOK'
  <2>1. ASSUME HealthTypeOK, UNCHANGED toolHealth PROVE HealthTypeOK'
    BY <2>1 DEF HealthTypeOK, toolHealth
  <2>2. ASSUME HealthTypeOK, Change \/ HealthKill PROVE HealthTypeOK'
    BY <2>2 DEF HealthTypeOK, Change, HealthKill
  <2>3. ASSUME HealthTypeOK, HealthNext PROVE HealthTypeOK'
    BY <2>2, <2>3, WritesKeepTypes, IntervalKeepsTypes, AnswerKeepsTypes, LoadKeepsTypes
       DEF HealthNext
  <2> QED BY <2>1, <2>3
<1> QED BY <1>1, <1>2, PTL DEF HealthSpec
=============================================================================
