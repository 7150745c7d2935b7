------------------------------- MODULE Surface -------------------------------
(***************************************************************************)
(* The HTTP surface of src/api/handlers.ts: which requests may change      *)
(* something, by the API keys of src/config.ts and their rotation, and the *)
(* requests of operators that await the identity service and Cloudflare.   *)
(*                                                                         *)
(* A route is a method and a pattern of paths.  Only routes that change    *)
(* something are kept, what they change is the business of other modules.  *)
(* A credential is an API key or the session of an operator.  The identity *)
(* service is another program: it may take any string for anybody's        *)
(* session, a key as well.  Requests for names below the cloud domain are  *)
(* passed on to the tool that has the name and change nothing here, unless *)
(* their path is one of storage's.                                         *)
(***************************************************************************)
EXTENDS Maintenance, CloudflareDns

CONSTANTS
    Keys,       \* API keys
    Services    \* holders of the API key

ASSUME SurfaceAssumption == None \notin Keys \cup Operators

VARIABLES
    key,        \* NEXUS_CLOUD_API_KEY and NEXUS_CLOUD_API_KEY_PREVIOUS
    holds,      \* holds[s]: the key that a service sends
    pending,    \* pending[r]: an operator's request that awaits something
    unproved    \* routes that changed something for one who may not

surface == <<maintenance, dns, up, key, holds, pending, unproved>>

Credential == Keys \cup Operators

(* Authorization, X-Api-Key and the session cookie, each None if missing.  *)
Caller(bearer, header, cookie) == [bearer |-> bearer, header |-> header, cookie |-> cookie]

Given(field, otherwise) == IF field = None THEN otherwise ELSE field

-----------------------------------------------------------------------------
(* API keys.                                                               *)

RequiresApiKey == key.current # None

(* Mutant: the previous key ends with the restart that brings the new one. *)
IsValidApiKeyNow(k) == RequiresApiKey /\ k = key.current

IsValidApiKey(k) == RequiresApiKey /\ k # None /\ k \in {key.current, key.previous}

(* checkApiKey: a bearer token is not made up for by the header.           *)
Accepted(caller) == RequiresApiKey => IsValidApiKey(Given(caller.bearer, caller.header))

(* callerCredential.                                                       *)
CallerCredential(caller) == Given(caller.bearer, caller.cookie)

(* What is shown to the identity service.                                  *)
OperatorCredential(caller) == Given(CallerCredential(caller), caller.header)

-----------------------------------------------------------------------------
(* Routes that change something.                                           *)

StorageWrites ==
    {"POST"} \X {"/api/v1/volumes", "/api/v1/storage/pools",
                 "/api/v1/storage/pools/:id/heartbeat", "/api/v1/storage/pools/:id/drain"}
      \cup {"DELETE"} \X {"/api/v1/volumes/:id", "/api/v1/storage/pools/:id"}

PlatformWrites ==
    {"POST"} \X {"/v1/nodes/register", "/v1/nodes/trust/bulk", "/v1/nodes/:id/trust/:action",
                 "/v1/workloads/plan", "/v1/workloads/:id/run", "/v1/workloads/:id/stop",
                 "/v1/federation/peers/:domain/trust", "/v1/federation/peers/announce",
                 "/api/v1/guardian/:scope/:subject/:action"}

ToolWrites ==
    {<<"POST", "/api/v1/tools">>, <<"PATCH", "/api/v1/tools/:id">>, <<"DELETE", "/api/v1/tools/:id">>}
      \cup {"POST"} \X {"/api/v1/tools/:id/enable", "/api/v1/tools/:id/disable",
                        "/api/v1/tools/:id/heartbeat", "/api/v1/tools/:id/catalog-proposal"}

ExposureWrites ==
    {"POST"} \X {"/api/v1/public-url", "/api/v1/addresses", "/api/v1/addresses/:id/revoke",
                 "/api/v1/exposures", "/api/v1/exposures/:id/revoke",
                 "/api/v1/domains", "/api/v1/domains/:domain/verify"}
      \cup {<<"DELETE", "/api/v1/domains/:domain">>}

ScopeWrites == {"PUT"} \X {"/api/v1/tenants/:id/catalog", "/api/v1/nodes/:id/catalog"}

DnsWrites == {"POST"} \X {"/api/v1/dns/bootstrap", "/api/v1/dns/custom-domain"}

MaintenanceWrites == {"POST", "DELETE"} \X {"/api/v1/maintenance/:subject"}

CatalogWrites == {"POST"} \X {"/api/v1/catalog/:id/:action"}

(* These prove who calls by themselves; a request to deploy is passed on   *)
(* with the caller's token, the others go to the identity service.         *)
SelfAuthenticating ==
    {"/api/v1/deployments", "/api/v1/auth/login", "/api/v1/auth/logout", "/api/v1/users"}

(* Dispatched before the shared gate.                                      *)
BeforeGate == StorageWrites \cup CatalogWrites

(* The shared gate of handleApiRequest.                                    *)
Gated(route) == route[1] \in {"POST", "PATCH", "DELETE"} /\ route[2] \notin SelfAuthenticating

(* Mutant: the scopes rely on the gate, which lets their PUT pass.         *)
StorageChecksKey == StorageWrites

(* Routes that check the key themselves.                                   *)
ChecksKey == StorageWrites \cup ScopeWrites

Passes(route, caller) ==
    route \in ChecksKey \/ (route \notin BeforeGate /\ Gated(route)) => Accepted(caller)

(* Both show a credential to the identity service, but never Cloud's key.  *)
OperatorWrites == MaintenanceWrites \cup CatalogWrites

Writes == StorageWrites \cup PlatformWrites \cup ToolWrites \cup ExposureWrites \cup ScopeWrites

(* What a change needs: a valid key if there is one; for what is only for  *)
(* operators, a credential that is not one.  A decision about the catalog  *)
(* needs no key.                                                           *)
Proved(route, caller) ==
    /\ RequiresApiKey /\ route \notin CatalogWrites =>
          \E k \in {caller.bearer, caller.header} : IsValidApiKey(k)
    /\ route \in OperatorWrites => OperatorCredential(caller) # None
                                    /\ ~IsValidApiKey(OperatorCredential(caller))

Recorded(route, caller) ==
    unproved' = IF Proved(route, caller) THEN unproved ELSE unproved \cup {route}

Idling(r) == up /\ pending[r] = None /\ Idle(r)

(* A handler changes its part.                                             *)
Write(route, caller) ==
    /\ up
    /\ Passes(route, caller)
    /\ Recorded(route, caller)
    /\ UNCHANGED <<maintenance, dns, up, key, holds, pending>>

(* One of those, or the interval, stores other parts of the state.         *)
WriteOther ==
    /\ up
    /\ StoreOther
    /\ UNCHANGED <<dns, up, key, holds, pending, unproved>>

(* handleDnsBootstrap and handleDnsCustomDomain.                           *)
Publish(r, route, caller) ==
    /\ Idling(r)
    /\ Passes(route, caller)
    /\ Recorded(route, caller)
    /\ IF route[2] = "/api/v1/dns/bootstrap" THEN BootstrapDns(r)
       ELSE \E n \in DnsNames : EnsureCustomDomain(r, n)
    /\ UNCHANGED <<maintenance, up, key, holds, pending>>

-----------------------------------------------------------------------------
(* handleMaintenanceWrite and handleCatalogDecision: for operators, the    *)
(* first behind the gate as well.  What a decision does to the catalog is  *)
(* for CatalogDecisions to say.                                            *)

CallerRecord == [bearer : Credential \cup {None}, header : Credential \cup {None},
                 cookie : Credential \cup {None}]

(* A request: who it is from, for what, and what it awaits.                *)
Request == [caller : CallerRecord, route : OperatorWrites, subject : Subjects,
            awaits : {"identity", "body"}]

AskOperator(r, route, s, caller) ==
    /\ Idling(r)
    /\ Passes(route, caller)
    /\ OperatorCredential(caller) # None /\ ~IsValidApiKey(OperatorCredential(caller))
    /\ pending' = [pending EXCEPT ![r] =
           [caller |-> caller, route |-> route, subject |-> s, awaits |-> "identity"]]
    /\ UNCHANGED <<maintenance, dns, up, key, holds, unproved>>

Awaiting(r, what) == pending[r] # None /\ pending[r].awaits = what

Ends(r) ==
    /\ pending' = [pending EXCEPT ![r] = None]
    /\ UNCHANGED <<dns, up, key, holds>>

(* The identity service is gone, or it does not know the caller or not as  *)
(* one who may; or the body is malformed.                                  *)
TurnedAway(r) == pending[r] # None /\ Ends(r) /\ UNCHANGED <<maintenance, unproved>>

(* Somebody, whom the identity service says is an operator.                *)
IdentityOf(credential) == IF credential \in Operators THEN {credential} ELSE Operators

Changes(r) ==
    LET request == pending[r] IN
    /\ \/ request.route \in CatalogWrites /\ UNCHANGED maintenance
       \/ /\ request.route \in MaintenanceWrites
          /\ IF request.route[1] = "DELETE" THEN ClearMaintenance(request.subject)
             ELSE \E operator \in IdentityOf(OperatorCredential(request.caller)) :
                     SetMaintenance(request.subject, operator)
    /\ Recorded(request.route, request.caller)
    /\ Ends(r)

(* checkSessionPermission allows it.  A window ends and a decision of the  *)
(* same idempotency key is given again at once, anything else has a body.  *)
Allowed(r) ==
    /\ Awaiting(r, "identity")
    /\ \/ /\ pending[r].route[1] = "DELETE" \/ pending[r].route \in CatalogWrites
          /\ Changes(r)
       \/ /\ pending[r].route[1] = "POST"
          /\ pending' = [pending EXCEPT ![r].awaits = "body"]
          /\ UNCHANGED <<maintenance, dns, up, key, holds, unproved>>

BodyRead(r) == Awaiting(r, "body") /\ Changes(r)

-----------------------------------------------------------------------------
(* Calls to Cloudflare go on, the process ends and starts, with other keys *)
(* during a rotation as src/config.ts describes it.                        *)

DnsAnswer ==
    /\ DnsStep
    /\ UNCHANGED <<maintenance, up, key, holds, pending, unproved>>

SurfaceKill ==
    /\ up
    /\ up' = FALSE
    /\ pending' = [r \in Requests |-> None]
    /\ DnsCut
    /\ UNCHANGED <<maintenance, key, holds, unproved>>

Restarts == ~up /\ up' = TRUE /\ Reloaded /\ UNCHANGED <<log, ragged, changes, unsettled>>

SurfaceStart ==
    /\ Restarts
    /\ UNCHANGED <<dns, key, holds, pending, unproved>>

(* Step 1: both keys.                                                      *)
StartRotation(k) ==
    /\ Restarts
    /\ RequiresApiKey /\ key.previous = None /\ k # key.current
    /\ key' = [current |-> k, previous |-> key.current]
    /\ UNCHANGED <<dns, holds, pending, unproved>>

(* Step 2: each service in its time.                                       *)
TakeKey(s) ==
    /\ RequiresApiKey
    /\ holds' = [holds EXCEPT ![s] = key.current]
    /\ UNCHANGED <<maintenance, dns, up, key, pending, unproved>>

(* Step 3: once every service has the new one.                             *)
EndRotation ==
    /\ Restarts
    /\ key.previous # None
    /\ \A s \in Services : holds[s] = key.current
    /\ key' = [key EXCEPT !.previous = None]
    /\ UNCHANGED <<dns, holds, pending, unproved>>

SurfaceTypeOK ==
    /\ MaintenanceTypeOK
    /\ DnsTypeOK
    /\ up \in BOOLEAN
    /\ key \in [current : Keys \cup {None}, previous : Keys \cup {None}]
    /\ holds \in [Services -> Keys]
    /\ pending \in [Requests -> Request \cup {None}]

SurfaceInit ==
    /\ MaintenanceInit
    /\ DnsInit
    /\ up = TRUE
    /\ key \in [current : Keys \cup {None}, previous : {None}]
    /\ holds \in [Services -> Keys]
    /\ key.current # None => \A s \in Services : holds[s] = key.current
    /\ pending = [r \in Requests |-> None]
    /\ unproved = {}

(* A service sends its key either way, an operator a session either way or *)
(* a cookie through something that adds a service's key; or nobody knows.  *)
Callers ==
    {Caller(None, None, None)}
      \cup {Caller(holds[s], None, None) : s \in Services}
      \cup {Caller(None, holds[s], None) : s \in Services}
      \cup {Caller(o, None, None) : o \in Operators}
      \cup {Caller(None, holds[s], o) : s \in Services, o \in Operators}

SurfaceNext ==
    \/ \E caller \in Callers :
          \/ \E route \in Writes : Write(route, caller)
          \/ \E r \in Requests, route \in DnsWrites : Publish(r, route, caller)
          \/ \E r \in Requests, route \in OperatorWrites, s \in Subjects :
                AskOperator(r, route, s, caller)
    \/ \E r \in Requests : TurnedAway(r) \/ Allowed(r) \/ BodyRead(r)
    \/ WriteOther \/ DnsAnswer
    \/ SurfaceKill \/ SurfaceStart \/ EndRotation
    \/ \E k \in Keys : StartRotation(k)
    \/ \E s \in Services : TakeKey(s)

SurfaceSpec == SurfaceInit /\ [][SurfaceNext]_surface

-----------------------------------------------------------------------------
(* Nothing is changed for one who may not change it, whichever of the      *)
(* handler's checks, the shared gate or a route's own, a route goes by:    *)
(* while an API key is configured, only for callers who show a valid one,  *)
(* except decisions about the catalog, which need none.  These, and the    *)
(* maintenance windows, need a credential that the identity service has    *)
(* taken for an operator's, with or without a key configured, and are not  *)
(* done with Cloud's own key even if that service accepts it.              *)
GatedMutation == unproved = {}

(* A rotation refuses no service at any step of the procedure, whenever it *)
(* takes the new key, and however it sends the key it has.                 *)
RotationServes ==
    \A s \in Services :
        /\ Accepted(Caller(holds[s], None, None))
        /\ Accepted(Caller(None, holds[s], None))
=============================================================================
