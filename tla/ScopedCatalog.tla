--------------------------- MODULE ScopedCatalog ---------------------------
(***************************************************************************)
(* The catalog of a tenant and of a node: the handlers of                  *)
(* /api/v1/tenants/:id/catalog and /api/v1/nodes/:id/catalog and their     *)
(* stores, src/catalog/tenant-entitlements.ts and node-overlay.ts.         *)
(*                                                                         *)
(* A request reads the file of its store, awaits its body, changes the one *)
(* record in what it had read, and writes all of it over the file: by then *)
(* other requests may have written.  A file that cannot be read or parsed  *)
(* counts as one without records, and the next PUT writes that back.       *)
(*                                                                         *)
(* A write replaces the file (a temporary one is written and renamed over  *)
(* it, with no await between) or throws; a process that ends leaves the    *)
(* file, and a temporary one that the next write overwrites.  Nothing is   *)
(* synced: after a power loss the file is what had reached the disk, an    *)
(* older one or one that no longer parses.  Left out: two processes on one *)
(* directory, whose writes share the temporary file; entries of the wrong  *)
(* form, which the next read drops.                                        *)
(***************************************************************************)
EXTENDS CatalogResolution, Naturals

CONSTANTS
    Tenants,
    Nodes,
    Apps,
    None,           \* a field that the body does not have
    Lists,          \* lists of ids that bodies have
    LocalApps,      \* a node's own apps that bodies have: which may launch
    Requests,
    Global          \* the global catalog

ASSUME ScopedCatalogAssumption ==
    /\ Lists \subseteq SUBSET Apps
    /\ LocalApps \subseteq UNION {[A -> BOOLEAN] : A \in SUBSET Apps}
    /\ DOMAIN Global \subseteq Apps
    /\ \A a \in DOMAIN Global : Global[a] \in GlobalEntry
    /\ None \notin Lists /\ None \notin LocalApps
    /\ Tenants \cap Nodes = {}

(* What a scope without a record resolves to.                              *)
NoEntitlements == [enabled |-> {}, disabled |-> {}]
NoOverlay == [disabled |-> {}, local |-> << >>]

Scopes == Tenants \cup Nodes

(* The scopes that share a file with s.                                    *)
Together(s) == IF s \in Tenants THEN Tenants ELSE Nodes

Idle == [phase |-> "idle"]

VARIABLES
    file,       \* both files: the record of each scope
    disk,       \* what a power loss would leave of them
    request,    \* the PUT that a request is in the middle of
    asked,      \* what the last PUT with such a list said that was written
    stale,      \* scopes of which a request has read what is not, or no longer, so
    unsynced,   \* scopes whose lists may not be on the disk
    lost        \* scopes whose lists were written over, or lost with the power

vars == <<file, disk, request, asked, stale, unsynced, lost>>

Entitlements == [enabled : SUBSET Apps, disabled : SUBSET Apps]

IsOverlay(o) ==
    /\ o.disabled \subseteq Apps
    /\ DOMAIN o.local \subseteq Apps

Holds(f, s) == IF s \in Tenants THEN f[s] \in Entitlements ELSE IsOverlay(f[s])

TypeOK ==
    /\ DOMAIN file = Scopes /\ DOMAIN disk = Scopes
    /\ \A s \in Scopes : Holds(file, s) /\ Holds(disk, s)
    /\ \A r \in Requests :
          \/ request[r] = Idle
          \/ /\ DOMAIN request[r].loaded = Together(request[r].scope)
             /\ \A s \in DOMAIN request[r].loaded : Holds(request[r].loaded, s)
    /\ asked \in [Scopes -> Entitlements]
    /\ stale \in [Requests -> SUBSET Scopes]
    /\ unsynced \subseteq Scopes /\ lost \subseteq Scopes

(* A file that is not there, or not readable, has no records.              *)
Empty == [s \in Scopes |-> IF s \in Tenants THEN NoEntitlements ELSE NoOverlay]

Init ==
    /\ file = Empty /\ disk = Empty
    /\ request = [r \in Requests |-> Idle]
    /\ asked = [s \in Scopes |-> NoEntitlements]
    /\ stale = [r \in Requests |-> {}]
    /\ unsynced = {} /\ lost = {}

-----------------------------------------------------------------------------
(* The stores.                                                             *)

Given(field, current) == IF field = None THEN current ELSE field

(* Mutant: a list that the body does not have is emptied.                  *)
UpsertedAnew(current, enabled, disabled) ==
    [enabled |-> Given(enabled, {}), disabled |-> Given(disabled, {})]

(* TenantCatalogEntitlementsStore.upsert.                                  *)
Upserted(current, enabled, disabled) ==
    [enabled |-> Given(enabled, current.enabled),
     disabled |-> Given(disabled, current.disabled)]

(* NodeCatalogOverlayStore.upsert.                                         *)
Overlaid(current, disabled, local) ==
    [disabled |-> Given(disabled, current.disabled),
     local |-> Given(local, current.local)]

(* All of what was read is written, with the record of s.                  *)
Written(loaded, s, record) ==
    [t \in Scopes |->
        IF t = s THEN record ELSE IF t \in DOMAIN loaded THEN loaded[t] ELSE file[t]]

-----------------------------------------------------------------------------
(* The handlers.  A GET reads the file and answers.                        *)

(* new TenantCatalogEntitlementsStore() comes before the body.  A read     *)
(* that throws is caught, and yields no records.                           *)
Begin(r, s) ==
    /\ request[r] = Idle
    /\ \E f \in {file, Empty} :
        /\ request' = [request EXCEPT ![r] =
               [phase |-> "reading", scope |-> s, loaded |-> [t \in Together(s) |-> f[t]]]]
        /\ stale' = [stale EXCEPT ![r] = {t \in Together(s) : f[t] # file[t]}]
    /\ UNCHANGED <<file, disk, asked, unsynced, lost>>

Reading(r) == request[r] # Idle

Leaves(r) == request' = [request EXCEPT ![r] = Idle]

(* An unreadable body, lists that are none, a claim of the platform's      *)
(* scope, a write that throws, or the end of the process.                  *)
Refuse(r) ==
    /\ Reading(r)
    /\ Leaves(r)
    /\ stale' = [stale EXCEPT ![r] = {}]
    /\ UNCHANGED <<file, disk, asked, unsynced, lost>>

(* The file of r's scope is replaced: what operators have asked for since, *)
(* and the scopes that r writes back other than they are.  A PUT that has  *)
(* all of a scope's lists leaves nothing of it lost.                       *)
Replaces(r, enabled, disabled, all) ==
    LET s == request[r].scope IN
    /\ asked' = [asked EXCEPT
           ![s].enabled = IF enabled = None THEN @ ELSE enabled,
           ![s].disabled = IF disabled = None THEN @ ELSE disabled]
    /\ stale' = [q \in Requests |->
           IF q # r /\ Reading(q) /\ s \in DOMAIN request[q].loaded
           THEN stale[q] \cup {s} ELSE IF q = r THEN {} ELSE stale[q]]
    /\ unsynced' = unsynced \cup {s}
    /\ lost' = (lost \cup stale[r]) \ (IF all THEN {s} ELSE {})
    /\ UNCHANGED disk

PutTenant(r, enabled, disabled) ==
    /\ Reading(r)
    /\ request[r].scope \in Tenants
    /\ LET s == request[r].scope
           loaded == request[r].loaded IN
         file' = Written(loaded, s, Upserted(loaded[s], enabled, disabled))
    /\ Replaces(r, enabled, disabled, enabled # None /\ disabled # None)
    /\ Leaves(r)

PutNode(r, disabled, local) ==
    /\ Reading(r)
    /\ request[r].scope \in Nodes
    /\ LET s == request[r].scope
           loaded == request[r].loaded IN
         file' = Written(loaded, s, Overlaid(loaded[s], disabled, local))
    /\ Replaces(r, None, disabled, disabled # None)
    /\ Leaves(r)

-----------------------------------------------------------------------------
(* The machine.  The file of the scopes S reaches the disk, or its new     *)
(* name does and not yet its content.                                      *)
WriteBack(S) ==
    /\ S \cap unsynced # {}
    /\ \/ /\ disk' = [t \in Scopes |-> IF t \in S THEN file[t] ELSE disk[t]]
          /\ unsynced' = unsynced \ S
       \/ /\ disk' = [t \in Scopes |-> IF t \in S THEN Empty[t] ELSE disk[t]]
          /\ unsynced' = unsynced \cup S
    /\ UNCHANGED <<file, request, asked, stale, lost>>

PowerLoss ==
    /\ file' = disk
    /\ request' = [r \in Requests |-> Idle]
    /\ stale' = [r \in Requests |-> {}]
    /\ lost' = lost \cup unsynced
    /\ unsynced' = {}
    /\ UNCHANGED <<disk, asked>>

(* A disabledAppIds of a node's body that is no array is an empty list.    *)
Next ==
    \/ \E r \in Requests :
        \/ \E s \in Scopes : Begin(r, s)
        \/ Refuse(r)
        \/ \E enabled, disabled \in Lists \cup {None} : PutTenant(r, enabled, disabled)
        \/ \E disabled \in Lists \cup {None, {}}, local \in LocalApps \cup {None} :
              PutNode(r, disabled, local)
    \/ WriteBack(Tenants) \/ WriteBack(Nodes)
    \/ PowerLoss

Spec == Init /\ [][Next]_vars

-----------------------------------------------------------------------------
(* What operators asked for stands in the catalog that users see: an app   *)
(* of the platform that the last lists written for a tenant disable, or    *)
(* leave out of the enabled ones, is not launchable, whatever overlay a    *)
(* node has and whatever is reported of running apps.  Requests that       *)
(* fail, PUTs of other scopes and of the one list or the other, kills, and *)
(* power losses once the file is on the disk lose nothing.  The exceptions *)
(* are the scopes that a PUT wrote back from what it had read before they  *)
(* changed or from a read that failed, and those that a power loss caught  *)
(* before the disk had them; until all their lists are put again.  A GET   *)
(* whose own read fails is not covered: it shows a scope without lists.    *)
CanLaunch(tenant, node, app) ==
    \E state \in RuntimeState :
        Resolve(Global, tenant, node, [a \in Apps |-> state])[app].canLaunch

TenantPolicyStands ==
    \A t \in Tenants \ lost, a \in DOMAIN Global :
        a \in asked[t].disabled \/ ~EnabledBy(asked[t], a) =>
            \A overlay \in [disabled : Lists, local : LocalApps] :
                ~CanLaunch(file[t], overlay, a)

(* The same of a node, for apps of its own as well: the last list written  *)
(* for it stands whatever local apps are put later, and whatever a tenant  *)
(* has enabled; with the same exceptions.                                  *)
NodePolicyStands ==
    \A n \in Nodes \ lost : \A a \in asked[n].disabled :
        a \in DOMAIN Global \cup DOMAIN file[n].local =>
            \A entitlements \in [enabled : Lists, disabled : Lists \cup {{}}] :
                ~CanLaunch(entitlements, file[n], a)
=============================================================================
