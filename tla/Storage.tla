------------------------------ MODULE Storage ------------------------------
(***************************************************************************)
(* Volumes and the shared pools they are charged to: src/storage/index.ts  *)
(* and its handlers in src/api/handlers.ts.                                *)
(*                                                                         *)
(* Creating a volume chooses a pool, awaits the object store, and only     *)
(* then takes the space from whatever pool has that id by now.             *)
(* Left out: timestamps, tags and owners; a preferred pool and attaching   *)
(* a volume, which nothing asks for; peers' pools, which are their own.    *)
(***************************************************************************)
EXTENDS Faults, FiniteSets

CONSTANTS
    PoolIds,        \* ids that sanitizePoolId makes of names
    VolumeIds,
    Requests,       \* creations that await the object store
    Totals,         \* capacities that pools are registered with
    Sizes,          \* sizes that sanitizeSizeGb returns
    MaxRegistered   \* bound: registrations

ASSUME StorageAssumption ==
    /\ Totals \subseteq Nat \ {0}
    /\ Sizes \subseteq Nat \ {0}
    /\ MaxRegistered \in Nat

(* Nothing sets the status offline.                                        *)
(* createdAt tells the registrations of one id apart.  A volume in a pool   *)
(* has the registration that it was charged to, 0 if it was to none; one   *)
(* that failed or has another class is in none, whatever its size.         *)
Pool == [total : Nat, available : Int, status : {"active", "draining"}, createdAt : Nat]
Volume == [pool : SUBSET PoolIds, sizeGb : Nat, paid : Nat]

IsState(s) ==
    /\ DOMAIN s = {"pools", "volumes"}
    /\ DOMAIN s.pools \subseteq PoolIds
    /\ \A p \in DOMAIN s.pools : s.pools[p] \in Pool
    /\ DOMAIN s.volumes \subseteq VolumeIds
    /\ \A v \in DOMAIN s.volumes : s.volumes[v] \in Volume

NoCreation == [phase |-> "idle"]
Awaiting == [phase : {"awaiting"}, id : VolumeIds, pool : SUBSET PoolIds, sizeGb : Nat]

VARIABLES
    request,    \* the creation that a request is in the middle of
    registered, \* registrations so far
    raced       \* pools that two overlapping creations have chosen, or that
                \* were registered anew while a creation had chosen them

storage == <<cell, up, request, registered, faults, raced>>

StorageTypeOK ==
    /\ \A s \in Views : IsState(s)
    /\ up \in BOOLEAN
    /\ request \in [Requests -> {NoCreation} \cup Awaiting]
    /\ registered \in Nat
    /\ faults \in Nat
    /\ raced \subseteq PoolIds

StorageInit ==
    /\ StartsWith([pools |-> << >>, volumes |-> << >>])
    /\ up = TRUE
    /\ request = [r \in Requests |-> NoCreation]
    /\ registered = 0
    /\ faults = 0
    /\ raced = {}

(* At most one save of a request fails.                                    *)
Mutated(next) ==
    \/ Saved(next) /\ NoFault
    \/ NotSaved(next) /\ Fault

With(f, x, y) == [k \in DOMAIN f \cup {x} |-> IF k = x THEN y ELSE f[k]]
Without(f, x) == [k \in DOMAIN f \ {x} |-> f[k]]

(* Creations that chose a pool and still await the object store.           *)
Choosers(p) ==
    {r \in Requests : request[r].phase = "awaiting" /\ p \in request[r].pool}

-----------------------------------------------------------------------------
(* Pools.                                                                  *)

(* registerPool: registering a name again replaces the pool, with all of   *)
(* its space free.                                                         *)
NewPool(s, p, total) ==
    [s EXCEPT !.pools = With(@, p,
        [total |-> total, available |-> total, status |-> "active",
         createdAt |-> registered + 1])]

RegisterPool(p, total) ==
    /\ up
    /\ registered < MaxRegistered
    /\ registered' = registered + 1
    /\ Mutated(NewPool(mem, p, total))
    /\ raced' = IF Choosers(p) # {} THEN raced \cup {p} ELSE raced
    /\ UNCHANGED <<up, request>>

(* A heartbeat, or anything done to an unknown id, stores what there is.   *)
UpdatePoolHeartbeat ==
    /\ up
    /\ Mutated(mem)
    /\ UNCHANGED <<up, request, registered, raced>>

(* Mutant: a drained pool is offline at once.                              *)
DrainedOffline(pool) == [pool EXCEPT !.status = "offline"]

Drained(pool) == [pool EXCEPT !.status = "draining"]

DrainPool(p) ==
    /\ up
    /\ p \in DOMAIN mem.pools
    /\ Mutated([mem EXCEPT !.pools[p] = Drained(@)])
    /\ UNCHANGED <<up, request, registered, raced>>

(* removePool: what was created in the pool still names it.                *)
PoolRemoved(s, p) == [s EXCEPT !.pools = Without(@, p)]

RemovePool(p) ==
    /\ up
    /\ p \in DOMAIN mem.pools
    /\ Mutated(PoolRemoved(mem, p))
    /\ UNCHANGED <<up, request, registered, raced>>

-----------------------------------------------------------------------------
(* Creating a volume.                                                      *)

(* Mutant: the pool with the most space is chosen, enough or not.          *)
CandidatesAll(size) == {p \in DOMAIN mem.pools : mem.pools[p].status = "active"}

Candidates(size) ==
    {p \in DOMAIN mem.pools :
        mem.pools[p].status = "active" /\ mem.pools[p].available >= size}

(* selectPoolForVolume: of equals the one listed first, here any of them.  *)
Selected(size) ==
    {p \in Candidates(size) :
        \A q \in Candidates(size) : mem.pools[q].available <= mem.pools[p].available}

WithVolume(s, v, volume) == [s EXCEPT !.volumes = With(@, v, volume)]

InNoPool == [pool |-> {}, sizeGb |-> 0, paid |-> 0]

(* The pool is chosen in the snapshot; then the object store is awaited.   *)
ChooseShared(r, v, size) ==
    /\ up
    /\ request[r] = NoCreation
    /\ \E p \in Selected(size) :
        /\ request' = [request EXCEPT ![r] =
               [phase |-> "awaiting", id |-> v, pool |-> {p}, sizeGb |-> size]]
        /\ raced' = IF Choosers(p) # {} THEN raced \cup {p} ELSE raced
    /\ UNCHANGED <<cell, up, registered, faults>>

NoPoolFits(v, size) ==
    /\ up
    /\ Candidates(size) = {}
    /\ Mutated(WithVolume(mem, v, InNoPool))
    /\ UNCHANGED <<up, request, registered, raced>>

(* The standard class, in no pool.                                         *)
CreateStandard(r, v) ==
    /\ up
    /\ request[r] = NoCreation
    /\ request' = [request EXCEPT ![r] =
           [phase |-> "awaiting", id |-> v, pool |-> {}, sizeGb |-> 0]]
    /\ UNCHANGED <<cell, up, registered, faults, raced>>

(* The other classes have no backend to ask.                               *)
CreateUnbacked(v) ==
    /\ up
    /\ Mutated(WithVolume(mem, v, InNoPool))
    /\ UNCHANGED <<up, request, registered, raced>>

(* handleStorageVolumeCreate, by the class that is asked for.              *)
CreateVolume(v) ==
    \/ \E r \in Requests, size \in Sizes : ChooseShared(r, v, size)
    \/ \E size \in Sizes : NoPoolFits(v, size)
    \/ \E r \in Requests : CreateStandard(r, v)
    \/ CreateUnbacked(v)

Awaits(r) == up /\ request[r].phase = "awaiting"

Done(r) == request' = [request EXCEPT ![r] = NoCreation]

(* makeBucket throws and nothing was taken, or no pool was chosen.         *)
MadeInNoPool(r) ==
    /\ Awaits(r)
    /\ Mutated(WithVolume(mem, request[r].id, InNoPool))
    /\ Done(r)
    /\ UNCHANGED <<up, registered, raced>>

(* The space is taken, with no second look, from the pool that has the id  *)
(* now; there may be none.                                                 *)
Taken(pool, size) == [pool EXCEPT !.available = @ - size]

Charged(c) ==
    [mem EXCEPT !.pools = [p \in DOMAIN mem.pools |->
        IF p \in c.pool THEN Taken(mem.pools[p], c.sizeGb) ELSE mem.pools[p]]]

(* The registration that c is charged to.                                  *)
Payer(c) ==
    IF c.pool \subseteq DOMAIN mem.pools
    THEN mem.pools[CHOOSE p \in c.pool : TRUE].createdAt ELSE 0

Provisioned(s, c) ==
    WithVolume(s, c.id,
        [pool |-> c.pool, sizeGb |-> c.sizeGb, paid |-> Payer(c)])

(* Mutant: the volume is stored before its space is taken.                 *)
StepsVolumeFirst(c) == <<Provisioned(mem, c), Provisioned(Charged(c), c)>>

Steps(c) == <<Charged(c), Provisioned(Charged(c), c)>>

SharedMade(r) ==
    /\ Awaits(r)
    /\ request[r].pool # {}
    /\ SavedInTurn(Steps(request[r]))
    /\ Done(r)
    /\ NoFault
    /\ UNCHANGED <<up, registered, raced>>

(* A save that fails ends the request, unless it is that of the charge:    *)
(* then the volume is stored as failed.                                    *)
ChargeFails(r) ==
    /\ Awaits(r)
    /\ request[r].pool # {}
    /\ LET c == request[r]
           failed == WithVolume(mem, c.id, InNoPool) IN
         /\ mem' = failed
         /\ disk' = failed
         /\ older' \in {disk, Head(Steps(c))}
    /\ Done(r)
    /\ Fault
    /\ UNCHANGED <<up, registered, raced>>

RecordFails(r) ==
    /\ Awaits(r)
    /\ request[r].pool # {}
    /\ LET s == Steps(request[r]) IN
         /\ mem' = s[1]
         /\ \/ disk' = s[1] /\ older' \in {disk, s[1]}
            \/ disk' = s[2] /\ older' = s[1]
    /\ Done(r)
    /\ Fault
    /\ UNCHANGED <<up, registered, raced>>

(* deleteVolume: no space is given back.                                   *)
VolumeDeleted(s, v) == [s EXCEPT !.volumes = Without(@, v)]

DeleteVolume(v) ==
    /\ up
    /\ v \in DOMAIN mem.volumes
    /\ Mutated(VolumeDeleted(mem, v))
    /\ UNCHANGED <<up, request, registered, raced>>

-----------------------------------------------------------------------------
StorageKill ==
    /\ up
    /\ up' = FALSE
    /\ request' = [r \in Requests |-> NoCreation]
    /\ UNCHANGED <<cell, registered, faults, raced>>

StorageStart ==
    /\ ~up
    /\ up' = TRUE
    /\ Reloaded
    /\ UNCHANGED <<request, registered, faults, raced>>

StorageNext ==
    \/ \E p \in PoolIds :
          (\E total \in Totals : RegisterPool(p, total)) \/ DrainPool(p) \/ RemovePool(p)
    \/ UpdatePoolHeartbeat
    \/ \E v \in VolumeIds : CreateVolume(v) \/ DeleteVolume(v)
    \/ \E r \in Requests :
          MadeInNoPool(r) \/ SharedMade(r) \/ ChargeFails(r) \/ RecordFails(r)
    \/ StorageKill \/ StorageStart

StorageSpec == StorageInit /\ [][StorageNext]_storage

-----------------------------------------------------------------------------
(* Across failed saves, restarts from either file and pools replaced       *)
(* during the await, what a registration of a pool has given away covers   *)
(* every provisioned volume that was charged to it.  A volume whose pool   *)
(* was removed during the await is charged to none, and one that was       *)
(* charged to an earlier registration is forgotten by a later: the         *)
(* property does not count them.                                           *)
On(s, p) ==
    {v \in DOMAIN s.volumes :
        /\ s.volumes[v].pool = {p}
        /\ s.volumes[v].paid = s.pools[p].createdAt}

(* Their gigabytes, one by one.                                            *)
Charges(s, p) == UNION {{v} \X (1 .. s.volumes[v].sizeGb) : v \in On(s, p)}

NoUnpaidVolume ==
    \A s \in Views : \A p \in DOMAIN s.pools :
        s.pools[p].total - s.pools[p].available >= Cardinality(Charges(s, p))

(* A pool gives away more than it has only where the await lets it: if two *)
(* creations that chose it overlapped, or it was registered anew between   *)
(* a choice and its charge.                                                *)
FitsUnlessRaced ==
    \A s \in Views : \A p \in DOMAIN s.pools :
        s.pools[p].available < 0 => p \in raced
=============================================================================
