------------------------- MODULE CatalogResolution -------------------------
(***************************************************************************)
(* The catalog a user sees: resolveEffectiveCatalog of                     *)
(* src/catalog/resolution.ts, which lays a tenant's entitlements and the   *)
(* overlay of a node over the global catalog.                              *)
(*                                                                         *)
(* Left out: the words of a placement and its shelf, with the overrides    *)
(* and preferences of shelves; pins and recent apps, which only put the    *)
(* entries in order.                                                       *)
(***************************************************************************)

(* What the global catalog says of an app: "placed" if a placement was     *)
(* approved, "restricted" if that is its visibility.                       *)
GlobalEntry == [placed : BOOLEAN, restricted : BOOLEAN,
                reviewStatus : {"pending", "approved", "deferred", "rejected"}]

(* What is known of a running app, where anything is.                      *)
RuntimeState == [health : {"healthy", "degraded", "offline"}, canLaunch : BOOLEAN]

(* An empty list of enabled apps enables them all.                         *)
EnabledBy(tenant, app) == tenant.enabled = {} \/ app \in tenant.enabled

(* Mutant: the list of enabled apps settles it where there is one.         *)
DisabledByEither(app, tenant, node) ==
    IF tenant.enabled # {} THEN app \notin tenant.enabled
    ELSE app \in tenant.disabled \cup node.disabled

Disabled(app, tenant, node) ==
    \/ app \in tenant.disabled
    \/ ~EnabledBy(tenant, app)
    \/ app \in node.disabled

IsOffline(runtime, app) == app \in DOMAIN runtime /\ runtime[app].health = "offline"
MayLaunch(runtime, app) == app \notin DOMAIN runtime \/ runtime[app].canLaunch

(* An app without an approved placement is on the explore shelf for all.   *)
PlatformEntry(global, tenant, node, runtime, app) ==
    LET g == global[app]
        availability ==
            IF g.placed /\ g.restricted THEN "restricted"
            ELSE IF Disabled(app, tenant, node) THEN "disabled"
            ELSE IF IsOffline(runtime, app) THEN "offline" ELSE "available" IN
    [scope |-> "platform",
     availability |-> availability,
     canLaunch |-> /\ availability = "available"
                   /\ g.reviewStatus = "approved"
                   /\ MayLaunch(runtime, app)]

(* A tenant's entitlements are not asked about an app of the node's own.   *)
NodeEntry(node, runtime, app) ==
    LET availability ==
            IF app \in node.disabled THEN "disabled"
            ELSE IF IsOffline(runtime, app) THEN "offline" ELSE "available" IN
    [scope |-> "node",
     availability |-> availability,
     canLaunch |-> /\ availability = "available"
                   /\ node.local[app]
                   /\ MayLaunch(runtime, app)]

(* A node's own app does not hide one of the platform with its id.         *)
Resolve(global, tenant, node, runtime) ==
    [app \in DOMAIN global \cup DOMAIN node.local |->
        IF app \in DOMAIN global THEN PlatformEntry(global, tenant, node, runtime, app)
        ELSE NodeEntry(node, runtime, app)]
=============================================================================
