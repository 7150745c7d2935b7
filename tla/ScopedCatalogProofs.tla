------------------------ MODULE ScopedCatalogProofs ------------------------
(***************************************************************************)
(* Proofs about ScopedCatalog, for any tenants, nodes, apps, lists and     *)
(* requests.  A record that is not lost holds what was asked for.  So does *)
(* what a request has read, where that is not stale, and what is on the    *)
(* disk, where that is synced: these two make it inductive.                *)
(***************************************************************************)
EXTENDS ScopedCatalog, TLAPS

(* The record f has for s says what was asked for.                         *)
Stands(f, s) ==
    /\ s \in Tenants => f[s] = asked[s]
    /\ s \in Nodes => f[s].disabled = asked[s].disabled

(* A request reads all of one file, and all it has read is well formed.    *)
Reads(q) ==
    \E s \in Scopes : \E loaded :
        /\ q = [phase |-> "reading", scope |-> s, loaded |-> loaded]
        /\ DOMAIN loaded = Together(s)
        /\ \A t \in DOMAIN loaded : Holds(loaded, t)

WellFormed ==
    /\ DOMAIN file = Scopes
    /\ DOMAIN disk = Scopes
    /\ \A s \in Scopes : Holds(file, s) /\ Holds(disk, s)
    /\ \A r \in Requests : request[r] = Idle \/ Reads(request[r])
    /\ DOMAIN request = Requests
    /\ asked \in [Scopes -> Entitlements]
    /\ stale \in [Requests -> SUBSET Scopes]
    /\ unsynced \subseteq Scopes
    /\ lost \subseteq Scopes

FileStands == \A s \in Scopes \ lost : Stands(file, s)

DiskStands == \A s \in Scopes \ (lost \cup unsynced) : Stands(disk, s)

ReadStands ==
    \A r \in Requests : Reading(r) =>
        \A s \in DOMAIN request[r].loaded \ (lost \cup stale[r]) :
            Stands(request[r].loaded, s)

IInv == WellFormed /\ FileStands /\ DiskStands /\ ReadStands

-----------------------------------------------------------------------------
(* What a request has read, by its fields.                                 *)
LEMMA ReadFields ==
    ASSUME NEW q, Reads(q)
    PROVE  /\ q # Idle
           /\ q.scope \in Scopes
           /\ DOMAIN q.loaded = Together(q.scope)
           /\ \A t \in DOMAIN q.loaded : Holds(q.loaded, t)
           /\ q.scope \in DOMAIN q.loaded
           /\ DOMAIN q.loaded \subseteq Scopes
<1>0. PICK s \in Scopes : \E loaded :
        /\ q = [phase |-> "reading", scope |-> s, loaded |-> loaded]
        /\ DOMAIN loaded = Together(s)
        /\ \A t \in DOMAIN loaded : Holds(loaded, t)
  BY DEF Reads
<1>1. PICK loaded :
        /\ q = [phase |-> "reading", scope |-> s, loaded |-> loaded]
        /\ DOMAIN loaded = Together(s)
        /\ \A t \in DOMAIN loaded : Holds(loaded, t)
  BY <1>0
<1>2. q.phase = "reading" /\ q.scope = s /\ q.loaded = loaded
  BY <1>1
<1>3. Idle.phase = "idle"
  BY DEF Idle
<1>4. s \in Together(s) /\ Together(s) \subseteq Scopes
  BY DEF Together, Scopes
<1> QED BY <1>1, <1>2, <1>3, <1>4

(* Nothing is on record before the first PUT, and nothing asked for.       *)
LEMMA EmptyGood == DOMAIN Empty = Scopes /\ \A s \in Scopes : Holds(Empty, s)
<1>1. NoEntitlements \in Entitlements /\ IsOverlay(NoOverlay)
  BY DEF NoEntitlements, Entitlements, NoOverlay, IsOverlay
<1> QED BY <1>1 DEF Holds, Empty

(* The initial state.                                                      *)
LEMMA InitGood == Init => IInv
<1> SUFFICES ASSUME Init PROVE IInv
  OBVIOUS
<1> USE DEF Init
<1>1. NoEntitlements \in Entitlements
  BY DEF NoEntitlements, Entitlements
<1>2. WellFormed
  BY <1>1, EmptyGood DEF WellFormed
<1>3. \A s \in Scopes : Stands(Empty, s)
  BY ScopedCatalogAssumption DEF Stands, Empty, NoEntitlements, NoOverlay, Scopes
<1>4. FileStands /\ DiskStands
  BY <1>3 DEF FileStands, DiskStands, Stands
<1>5. ReadStands
  BY DEF ReadStands, Reading
<1> QED BY <1>2, <1>4, <1>5 DEF IInv

(* A request begins: what it reads is what is on record, or stale.         *)
LEMMA BeginGood ==
    ASSUME IInv, NEW r \in Requests, NEW s \in Scopes, Begin(r, s)
    PROVE  IInv'
<1> USE DEF IInv
<1>1. Together(s) \subseteq Scopes
  BY DEF Together, Scopes
<1>2. PICK f \in {file, Empty} :
        /\ request' = [request EXCEPT ![r] =
               [phase |-> "reading", scope |-> s, loaded |-> [t \in Together(s) |-> f[t]]]]
        /\ stale' = [stale EXCEPT ![r] = {t \in Together(s) : f[t] # file[t]}]
  BY DEF Begin
<1>0. UNCHANGED <<file, disk, asked, unsynced, lost>>
  BY DEF Begin
<1> DEFINE loaded == [t \in Together(s) |-> f[t]]
           q == [phase |-> "reading", scope |-> s, loaded |-> loaded]
<1>3. DOMAIN loaded = Together(s) /\ \A t \in Together(s) : loaded[t] = f[t]
  OBVIOUS
<1>4. \A t \in DOMAIN loaded : Holds(loaded, t)
  BY <1>1, <1>2, <1>3, EmptyGood DEF WellFormed, Holds
<1>5. Reads(q)
  BY <1>3, <1>4 DEF Reads
<1>6. q.loaded = loaded
  OBVIOUS
<1> HIDE DEF q, loaded
<1>7. /\ DOMAIN request' = Requests
      /\ request'[r] = q
      /\ \A p \in Requests : p # r => request'[p] = request[p]
      /\ \A p \in Requests : p # r => stale'[p] = stale[p]
      /\ stale'[r] = {t \in Together(s) : f[t] # file[t]}
      /\ stale' \in [Requests -> SUBSET Scopes]
  BY <1>1, <1>2 DEF WellFormed, q, loaded
<1>8. (\A p \in Requests : request'[p] = Idle \/ Reads(request'[p]))
  BY <1>5, <1>7 DEF WellFormed
<1>9. WellFormed'
  BY <1>0, <1>7, <1>8 DEF WellFormed, Holds, Reads
<1>10. FileStands' /\ DiskStands'
  BY <1>0 DEF FileStands, DiskStands, Stands
<1>11. ReadStands'
  <2> SUFFICES ASSUME NEW p \in Requests, Reading(p)',
                      NEW t \in DOMAIN request'[p].loaded \ (lost \cup stale'[p])
               PROVE  Stands(request'[p].loaded, t)
    BY <1>0 DEF ReadStands, Stands
  <2>1. CASE p = r
    <3>1. request'[p].loaded = loaded /\ t \in Together(s) /\ t \in Scopes \ lost
      BY <1>1, <1>3, <1>6, <1>7, <2>1
    <3>2. f[t] = file[t]
      BY <1>7, <2>1, <3>1
    <3>3. Stands(file, t) /\ loaded[t] = file[t]
      BY <1>3, <3>1, <3>2 DEF FileStands
    <3> QED BY <3>1, <3>3 DEF Stands
  <2>2. CASE p # r
    <3>1. request'[p] = request[p] /\ Reading(p) /\ stale'[p] = stale[p]
      BY <1>7, <2>2 DEF Reading
    <3> QED BY <3>1 DEF ReadStands
  <2> QED BY <2>1, <2>2
<1> QED BY <1>9, <1>10, <1>11

(* A request is refused, and nothing changes.                              *)
LEMMA RefuseGood ==
    ASSUME IInv, NEW r \in Requests, Refuse(r)
    PROVE  IInv'
<1> USE DEF IInv
<1>1. /\ request' = [request EXCEPT ![r] = Idle]
      /\ stale' = [stale EXCEPT ![r] = {}]
      /\ UNCHANGED <<file, disk, asked, unsynced, lost>>
  BY DEF Refuse, Leaves
<1>2. /\ DOMAIN request' = Requests
      /\ request'[r] = Idle
      /\ \A p \in Requests : p # r => request'[p] = request[p] /\ stale'[p] = stale[p]
      /\ stale' \in [Requests -> SUBSET Scopes]
  BY <1>1 DEF WellFormed
<1>3. WellFormed'
  <2>1. \A p \in Requests : request'[p] = Idle \/ Reads(request'[p])
    BY <1>2 DEF WellFormed
  <2> QED BY <1>1, <1>2, <2>1 DEF WellFormed, Holds, Reads
<1>4. FileStands' /\ DiskStands'
  BY <1>1 DEF FileStands, DiskStands, Stands
<1>5. ReadStands'
  <2> SUFFICES ASSUME NEW p \in Requests, Reading(p)',
                      NEW t \in DOMAIN request'[p].loaded \ (lost \cup stale'[p])
               PROVE  Stands(request'[p].loaded, t)
    BY <1>1 DEF ReadStands, Stands
  <2>1. p # r
    BY <1>2 DEF Reading
  <2>2. request'[p] = request[p] /\ stale'[p] = stale[p] /\ Reading(p)
    BY <1>2, <2>1 DEF Reading
  <2> QED BY <2>2 DEF ReadStands
<1> QED BY <1>3, <1>4, <1>5

-----------------------------------------------------------------------------
(* A PUT writes a record in the place of what was read: if the record says *)
(* what is now asked for, wherever what was read said what was asked for   *)
(* before, everything that stands still does.                              *)
LEMMA PutGood ==
    ASSUME IInv, NEW r \in Requests, Reading(r), NEW record,
           NEW enabled, NEW disabled, NEW all \in BOOLEAN,
           enabled = None \/ enabled \subseteq Apps,
           disabled = None \/ disabled \subseteq Apps,
           file' = Written(request[r].loaded, request[r].scope, record),
           request[r].scope \in Tenants => record \in Entitlements,
           request[r].scope \in Nodes => IsOverlay(record),
           Replaces(r, enabled, disabled, all), Leaves(r),
           all \/ Stands(request[r].loaded, request[r].scope)
              => /\ request[r].scope \in Tenants => record = asked'[request[r].scope]
                 /\ request[r].scope \in Nodes
                       => record.disabled = asked'[request[r].scope].disabled
    PROVE  IInv'
<1> DEFINE s == request[r].scope
           loaded == request[r].loaded
<1> USE DEF IInv
<1>1. /\ s \in Scopes /\ s \in DOMAIN loaded /\ DOMAIN loaded \subseteq Scopes
      /\ \A t \in DOMAIN loaded : Holds(loaded, t)
  BY ReadFields DEF WellFormed, Reading
<1>2. /\ asked' \in [Scopes -> Entitlements]
      /\ \A t \in Scopes : t # s => asked'[t] = asked[t]
  <2>1. asked \in [Scopes -> Entitlements] /\ asked[s] \in Entitlements
    BY <1>1 DEF WellFormed
  <2> DEFINE e == IF enabled = None THEN asked[s].enabled ELSE enabled
             d == IF disabled = None THEN asked[s].disabled ELSE disabled
             a == [asked[s] EXCEPT !.enabled = e, !.disabled = d]
  <2>2. e \subseteq Apps /\ d \subseteq Apps
    BY <2>1 DEF Entitlements
  <2>3. asked' = [asked EXCEPT ![s].enabled = IF enabled = None THEN @ ELSE enabled,
                               ![s].disabled = IF disabled = None THEN @ ELSE disabled]
    BY DEF Replaces
  <2>4. DOMAIN asked' = Scopes /\ \A t \in Scopes : t # s => asked'[t] = asked[t]
    BY <2>1, <2>3
  <2>5. asked'[s] = a
    BY <1>1, <2>1, <2>3 DEF Entitlements
  <2>6. a \in Entitlements
    BY <2>1, <2>2 DEF Entitlements
  <2> QED BY <2>1, <2>3, <2>4, <2>5, <2>6
<1>3. /\ lost' = (lost \cup stale[r]) \ (IF all THEN {s} ELSE {})
      /\ stale' \in [Requests -> SUBSET Scopes]
      /\ lost' \subseteq Scopes
      /\ unsynced' = unsynced \cup {s}
      /\ unsynced' \subseteq Scopes
      /\ disk' = disk
  BY <1>1 DEF Replaces, WellFormed
<1>4. /\ DOMAIN request' = Requests
      /\ request'[r] = Idle
      /\ \A p \in Requests : p # r => request'[p] = request[p]
  BY DEF Leaves, WellFormed
<1>5. /\ DOMAIN file' = Scopes
      /\ file'[s] = record
      /\ \A t \in DOMAIN loaded : t # s => file'[t] = loaded[t]
      /\ \A t \in Scopes \ DOMAIN loaded : file'[t] = file[t]
  BY <1>1 DEF Written
<1>6. WellFormed'
  <2>1. \A t \in Scopes : Holds(file', t)
    <3> SUFFICES ASSUME NEW t \in Scopes PROVE Holds(file', t)
      OBVIOUS
    <3>1. CASE t = s
      BY <1>5, <3>1, ScopedCatalogAssumption DEF Holds, Scopes
    <3>2. CASE t # s /\ t \in DOMAIN loaded
      BY <1>1, <1>5, <3>2 DEF Holds
    <3>3. CASE t # s /\ t \notin DOMAIN loaded
      BY <1>5, <3>3 DEF Holds, WellFormed
    <3> QED BY <3>1, <3>2, <3>3
  <2>2. \A p \in Requests : request'[p] = Idle \/ Reads(request'[p])
    BY <1>4 DEF WellFormed
  <2> QED BY <1>2, <1>3, <1>4, <1>5, <2>1, <2>2 DEF WellFormed, Holds, Reads
<1>7. /\ \A t \in DOMAIN loaded \ lost' : t # s => Stands(loaded, t)
      /\ s \notin lost' => all \/ Stands(loaded, s)
  BY <1>1, <1>3 DEF ReadStands
<1>8. FileStands'
  <2> SUFFICES ASSUME NEW t \in Scopes \ lost'
               PROVE  /\ t \in Tenants => file'[t] = asked'[t]
                      /\ t \in Nodes => file'[t].disabled = asked'[t].disabled
    BY DEF FileStands, Stands
  <2>1. CASE t = s
    BY <1>1, <1>5, <1>7, <2>1
  <2>2. CASE t # s /\ t \in DOMAIN loaded
    BY <1>2, <1>5, <1>7, <2>2 DEF Stands
  <2>3. CASE t # s /\ t \notin DOMAIN loaded
    <3>1. Stands(file, t)
      BY <1>3, <2>3 DEF FileStands
    <3> QED BY <1>2, <1>5, <2>3, <3>1 DEF Stands
  <2> QED BY <2>1, <2>2, <2>3
<1>9. ReadStands'
  <2> SUFFICES ASSUME NEW p \in Requests, request'[p] # Idle,
                      NEW t \in DOMAIN request'[p].loaded \ (lost' \cup stale'[p])
               PROVE  /\ t \in Tenants => request'[p].loaded[t] = asked'[t]
                      /\ t \in Nodes => request'[p].loaded[t].disabled = asked'[t].disabled
    BY DEF ReadStands, Stands, Reading
  <2>1. p # r /\ request'[p] = request[p] /\ Reading(p)
    BY <1>4 DEF Reading
  <2>2. stale'[p] = IF s \in DOMAIN request[p].loaded THEN stale[p] \cup {s} ELSE stale[p]
    BY <2>1 DEF Replaces
  <2>3. t # s /\ t \notin stale[p] /\ t \notin lost
    BY <1>3, <2>1, <2>2, ReadFields DEF WellFormed, Reading
  <2>4. Stands(request[p].loaded, t)
    BY <2>1, <2>3 DEF ReadStands
  <2>5. t \in Scopes
    BY <2>1, ReadFields DEF WellFormed, Reading
  <2> QED BY <1>2, <2>1, <2>3, <2>4, <2>5 DEF Stands
<1>10. DiskStands'
  <2> SUFFICES ASSUME NEW t \in Scopes \ (lost' \cup unsynced')
               PROVE  /\ t \in Tenants => disk[t] = asked'[t]
                      /\ t \in Nodes => disk[t].disabled = asked'[t].disabled
    BY <1>3 DEF DiskStands, Stands
  <2>1. t # s /\ t \notin lost /\ t \notin unsynced
    BY <1>3
  <2> QED BY <1>2, <2>1 DEF DiskStands, Stands
<1> QED BY <1>6, <1>8, <1>9, <1>10

(* A PUT of a tenant's lists.                                              *)
LEMMA PutTenantGood ==
    ASSUME IInv, NEW r \in Requests,
           NEW enabled \in Lists \cup {None}, NEW disabled \in Lists \cup {None},
           PutTenant(r, enabled, disabled)
    PROVE  IInv'
<1> DEFINE s == request[r].scope
           loaded == request[r].loaded
           all == enabled # None /\ disabled # None
           record == Upserted(loaded[s], enabled, disabled)
<1>1. /\ Reading(r) /\ s \in Tenants /\ Replaces(r, enabled, disabled, all) /\ Leaves(r)
      /\ file' = Written(loaded, s, record)
  BY DEF PutTenant
<1>2. s \in DOMAIN loaded /\ Holds(loaded, s) /\ s \in Scopes
  BY <1>1, ReadFields DEF IInv, WellFormed, Reading
<1>3. enabled = None \/ enabled \subseteq Apps
  BY ScopedCatalogAssumption
<1>4. disabled = None \/ disabled \subseteq Apps
  BY ScopedCatalogAssumption
<1>5. loaded[s] \in Entitlements
  BY <1>1, <1>2 DEF Holds
<1>6. record \in Entitlements
  BY <1>3, <1>4, <1>5 DEF Upserted, Given, Entitlements
<1>7. ASSUME all \/ Stands(loaded, s) PROVE record = asked'[s]
  <2>1. /\ asked \in [Scopes -> Entitlements]
        /\ loaded[s] = asked[s] \/ (enabled # None /\ disabled # None)
    BY <1>1, <1>7 DEF Stands, IInv, WellFormed
  <2>2. asked' = [asked EXCEPT ![s].enabled = IF enabled = None THEN @ ELSE enabled,
                               ![s].disabled = IF disabled = None THEN @ ELSE disabled]
    BY <1>1 DEF Replaces
  <2>3. asked[s] = [enabled |-> asked[s].enabled, disabled |-> asked[s].disabled]
    BY <1>2, <2>1 DEF Entitlements
  <2>4. asked'[s] = [enabled |-> IF enabled = None THEN asked[s].enabled ELSE enabled,
                     disabled |-> IF disabled = None THEN asked[s].disabled ELSE disabled]
    BY <1>2, <2>1, <2>2, <2>3
  <2>5. /\ Given(enabled, loaded[s].enabled) = asked'[s].enabled
        /\ Given(disabled, loaded[s].disabled) = asked'[s].disabled
    BY <2>1, <2>4 DEF Given
  <2> QED BY <2>4, <2>5 DEF Upserted
<1>8. s \notin Nodes
  BY <1>1, ScopedCatalogAssumption
<1>9. all \in BOOLEAN
  OBVIOUS
<1> HIDE DEF record, all
<1> QED BY <1>1, <1>3, <1>4, <1>6, <1>7, <1>8, <1>9, PutGood

(* A PUT of a node's lists.                                                *)
LEMMA PutNodeGood ==
    ASSUME IInv, NEW r \in Requests,
           NEW disabled \in Lists \cup {None, {}}, NEW local \in LocalApps \cup {None},
           PutNode(r, disabled, local)
    PROVE  IInv'
<1> DEFINE s == request[r].scope
           loaded == request[r].loaded
           all == disabled # None
           record == Overlaid(loaded[s], disabled, local)
<1>1. /\ Reading(r) /\ s \in Nodes /\ Replaces(r, None, disabled, all) /\ Leaves(r)
      /\ file' = Written(loaded, s, record)
  BY DEF PutNode
<1>2. s \in DOMAIN loaded /\ Holds(loaded, s) /\ s \in Scopes
  BY <1>1, ReadFields DEF IInv, WellFormed, Reading
<1>3. disabled = None \/ disabled \subseteq Apps
  BY ScopedCatalogAssumption
<1>4. s \notin Tenants
  BY <1>1, ScopedCatalogAssumption
<1>5. IsOverlay(loaded[s])
  BY <1>2, <1>4 DEF Holds
<1>6. record.disabled \subseteq Apps
  BY <1>3, <1>5 DEF Overlaid, Given, IsOverlay
<1>7. DOMAIN record.local \subseteq Apps
  <2>1. CASE local = None
    BY <1>5, <2>1 DEF Overlaid, Given, IsOverlay
  <2>2. CASE local # None
    <3>1. PICK A \in SUBSET Apps : local \in [A -> BOOLEAN]
      BY <2>2, ScopedCatalogAssumption
    <3>2. DOMAIN local = A
      BY <3>1
    <3> QED BY <2>2, <3>2 DEF Overlaid, Given
  <2> QED BY <2>1, <2>2
<1>8. ASSUME all \/ Stands(loaded, s) PROVE record.disabled = asked'[s].disabled
  <2>1. /\ asked \in [Scopes -> Entitlements]
        /\ loaded[s].disabled = asked[s].disabled \/ disabled # None
    BY <1>1, <1>8 DEF Stands, IInv, WellFormed
  <2>2. asked' = [asked EXCEPT ![s].enabled = IF None = None THEN @ ELSE None,
                               ![s].disabled = IF disabled = None THEN @ ELSE disabled]
    BY <1>1 DEF Replaces
  <2>3. asked[s] = [enabled |-> asked[s].enabled, disabled |-> asked[s].disabled]
    BY <1>2, <2>1 DEF Entitlements
  <2>4. asked'[s].disabled = IF disabled = None THEN asked[s].disabled ELSE disabled
    BY <1>2, <2>1, <2>2, <2>3
  <2> QED BY <2>1, <2>4 DEF Overlaid, Given
<1>9. IsOverlay(record)
  BY <1>6, <1>7 DEF IsOverlay
<1>10. all \in BOOLEAN
  OBVIOUS
<1> HIDE DEF record, all
<1> QED BY <1>1, <1>3, <1>4, <1>8, <1>9, <1>10, PutGood

-----------------------------------------------------------------------------
(* A file reaches the disk, or only its name does: what is synced says the *)
(* same as the file, and what is not promises nothing.                     *)
LEMMA WriteBackGood ==
    ASSUME IInv, NEW S, S \subseteq Scopes, WriteBack(S)
    PROVE  IInv'
<1> USE DEF IInv
<1>1. UNCHANGED <<file, request, asked, stale, lost>>
  BY DEF WriteBack
<1>2. FileStands' /\ ReadStands'
  BY <1>1 DEF FileStands, ReadStands, Stands, Reading
<1>3. CASE /\ disk' = [t \in Scopes |-> IF t \in S THEN file[t] ELSE disk[t]]
           /\ unsynced' = unsynced \ S
  <2>1. WellFormed'
    BY <1>1, <1>3 DEF WellFormed, Holds, Reads
  <2>2. DiskStands'
    BY <1>1, <1>3 DEF FileStands, DiskStands, Stands
  <2> QED BY <1>2, <2>1, <2>2
<1>4. CASE /\ disk' = [t \in Scopes |-> IF t \in S THEN Empty[t] ELSE disk[t]]
           /\ unsynced' = unsynced \cup S
  <2>1. \A t \in Scopes : Holds(disk', t)
    BY <1>4, EmptyGood DEF WellFormed, Holds
  <2>2. WellFormed'
    BY <1>1, <1>4, <2>1 DEF WellFormed, Holds, Reads
  <2>3. DiskStands'
    BY <1>1, <1>4 DEF DiskStands, Stands
  <2> QED BY <1>2, <2>2, <2>3
<1> QED BY <1>3, <1>4 DEF WriteBack

(* The power goes: what the disk has is the file, and nobody is reading.   *)
LEMMA PowerLossGood == IInv /\ PowerLoss => IInv'
<1> SUFFICES ASSUME IInv, PowerLoss PROVE IInv'
  OBVIOUS
<1> USE DEF IInv, PowerLoss
<1>1. WellFormed'
  BY DEF WellFormed, Holds, Reads
<1>2. FileStands' /\ DiskStands'
  BY DEF FileStands, DiskStands, Stands
<1>3. ReadStands'
  BY DEF ReadStands, Reading
<1> QED BY <1>1, <1>2, <1>3

(* Every step keeps the invariant.                                         *)
LEMMA NextGood == IInv /\ [Next]_vars => IInv'
<1>1. ASSUME IInv, UNCHANGED vars PROVE IInv'
  BY <1>1 DEF IInv, WellFormed, Holds, Reads, FileStands, DiskStands, ReadStands, Stands,
              Reading, vars
<1>2. Tenants \subseteq Scopes /\ Nodes \subseteq Scopes
  BY DEF Scopes
<1>3. ASSUME IInv, Next PROVE IInv'
  BY <1>2, <1>3, BeginGood, RefuseGood, PutTenantGood, PutNodeGood, WriteBackGood,
     PowerLossGood DEF Next
<1> QED BY <1>1, <1>3

(* The invariant holds throughout.                                         *)
LEMMA Invariant == Spec => []IInv
BY InitGood, NextGood, PTL DEF Spec

-----------------------------------------------------------------------------
(* resolveEffectiveCatalog does not launch what a tenant or a node         *)
(* disables, whatever else it is given.                                    *)
LEMMA DisabledIsDark ==
    ASSUME NEW global, NEW tenant, NEW node, NEW runtime,
           NEW app \in DOMAIN global, Disabled(app, tenant, node)
    PROVE  ~Resolve(global, tenant, node, runtime)[app].canLaunch
<1> DEFINE entry == PlatformEntry(global, tenant, node, runtime, app)
<1>1. Resolve(global, tenant, node, runtime)[app] = entry
  BY DEF Resolve
<1>2. ~entry.canLaunch
  BY DEF PlatformEntry
<1> QED BY <1>1, <1>2

(* The same of a node's own apps.                                          *)
LEMMA DisabledOwnIsDark ==
    ASSUME NEW global, NEW tenant, NEW node, NEW runtime,
           NEW app \in DOMAIN node.local, app \notin DOMAIN global, app \in node.disabled
    PROVE  ~Resolve(global, tenant, node, runtime)[app].canLaunch
<1> DEFINE entry == NodeEntry(node, runtime, app)
<1>1. Resolve(global, tenant, node, runtime)[app] = entry
  BY DEF Resolve
<1>2. ~entry.canLaunch
  BY DEF NodeEntry
<1> QED BY <1>1, <1>2

(* Records keep their types under every interleaving of PUTs.              *)
THEOREM TypeCorrect == Spec => []TypeOK
<1>1. IInv => TypeOK
  BY ReadFields DEF IInv, WellFormed, TypeOK
<1> QED BY <1>1, Invariant, PTL

(* What the last lists written for a tenant refuse cannot be launched,     *)
(* whatever a node's overlay and running apps say, through failed and      *)
(* overlapping requests, kills and power losses, unless they are lost: see *)
(* TenantPolicyStands for how that can be.                                 *)
THEOREM TenantListsStand == Spec => []TenantPolicyStands
<1>1. ASSUME IInv PROVE TenantPolicyStands
  <2> SUFFICES ASSUME NEW t \in Tenants \ lost, NEW a \in DOMAIN Global,
                      a \in asked[t].disabled \/ ~EnabledBy(asked[t], a),
                      NEW overlay
               PROVE  ~CanLaunch(file[t], overlay, a)
    BY DEF TenantPolicyStands
  <2>1. file[t] = asked[t]
    BY <1>1 DEF IInv, FileStands, Stands, Scopes
  <2>2. Disabled(a, file[t], overlay)
    BY <2>1 DEF Disabled
  <2> QED BY <2>2, DisabledIsDark DEF CanLaunch
<1> QED BY <1>1, Invariant, PTL

(* What the last list written for a node disables cannot be launched       *)
(* there, be it an app of the platform or of the node; the same exceptions.*)
THEOREM NodeListsStand == Spec => []NodePolicyStands
<1>1. ASSUME IInv PROVE NodePolicyStands
  <2> SUFFICES ASSUME NEW n \in Nodes \ lost, NEW a \in asked[n].disabled,
                      a \in DOMAIN Global \cup DOMAIN file[n].local,
                      NEW entitlements
               PROVE  ~CanLaunch(entitlements, file[n], a)
    BY DEF NodePolicyStands
  <2>1. a \in file[n].disabled
    BY <1>1 DEF IInv, FileStands, Stands, Scopes
  <2>2. CASE a \in DOMAIN Global
    <3>1. Disabled(a, entitlements, file[n])
      BY <2>1 DEF Disabled
    <3> QED BY <2>2, <3>1, DisabledIsDark DEF CanLaunch
  <2>3. CASE a \notin DOMAIN Global
    <3>1. a \in DOMAIN file[n].local
      BY <2>3
    <3> QED BY <2>1, <2>3, <3>1, DisabledOwnIsDark DEF CanLaunch
  <2> QED BY <2>2, <2>3
<1> QED BY <1>1, Invariant, PTL
=============================================================================
