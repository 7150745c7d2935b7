-------------------------- MODULE ExposureRegistry --------------------------
(***************************************************************************)
(* Public reachability of tools: the addresses, public URLs, exposures and *)
(* domain bindings of src/systems-api/registry.ts, the Guardian decisions  *)
(* that admit them (src/guardian/index.ts) and the routing table that a    *)
(* reverse proxy reads (listActiveRoutes).                                 *)
(*                                                                         *)
(* Two files are involved.  Guardian decisions live in the state file and  *)
(* are stored by every change; the registry is changed in memory first and *)
(* then saved as a whole, so a request that fails half way leaves memory   *)
(* ahead of the file, and heartbeats are kept in memory only.              *)
(*                                                                         *)
(* A host is a desired host of a request, or a subject, which stands for   *)
(* its own subdomain of the cloud domain.  A tool is kept as far as        *)
(* admission and routing read it.                                          *)
(***************************************************************************)
EXTENDS Naturals

CONSTANTS
    Tools,      \* tool ids
    Kinds,      \* kinds of addresses that are asked for
    Subjects,   \* subjects of addresses, the tool ids among them
    Hosts,      \* desired hosts
    LocalHosts, \* desired hosts and domains under localhost
    Domains,    \* custom domains
    Reports,    \* what tools say of themselves
    None,       \* no record, or an absent field
    MaxRequests \* bound: operator and tool requests

(* A start knows these kinds; a request may give any other.                *)
Kind == {"website", "email", "server", "custom"}
AnyKind == Kind \cup {"other"}
Upstream == {"local", "remote"}
Health == {"healthy", "degraded", "offline"}

(* Fields of a registration, a patch or a heartbeat; the upstream and the  *)
(* health may be left out, name or description may be empty.               *)
Report == [upstream : Upstream \cup {None}, health : Health \cup {None},
           described : BOOLEAN]

Host == Subjects \cup Hosts

Tool == [upstream : Upstream \cup {None}, health : Health,
         described : BOOLEAN,   \* its name and its description are not empty
         lapsed : BOOLEAN,      \* registrationStatus is "offline"
         gated : BOOLEAN]       \* requiresAuth
Address == [status : {"requested", "active", "revoked"}, host : Host]
PublicUrl == [status : {"pending", "active", "revoked"}, host : Host]
Exposure == [status : {"active", "quarantined", "denied", "revoked"}, host : Host]
Binding == [status : {"pending", "verified", "quarantined", "denied", "revoked"},
            tool : Tools]

(* What a decision is about: an address kind, the exposure or a domain.    *)
Matter == Kinds \cup {"exposure"} \cup Domains
Verdict == {"approved", "denied", "quarantined"}
Blocked == {"denied", "quarantined", "suspended"}
Decision == {"approved"} \cup Blocked

ASSUME ExposureAssumption ==
    /\ Tools \subseteq Subjects
    /\ LocalHosts \subseteq Hosts \cup Domains
    /\ "website" \in Kinds /\ Kinds \subseteq AnyKind
    /\ "exposure" \notin Domains /\ Domains \cap AnyKind = {}
    /\ Reports \subseteq Report
    /\ None \notin Subjects \cup Hosts \cup Upstream \cup Health
    /\ None \notin BOOLEAN
    /\ None \notin Tool \cup Address \cup PublicUrl \cup Exposure \cup Binding
    /\ None \notin Decision
    /\ MaxRequests \in Nat

AddressKey == Tools \X Kinds \X Subjects

Registry ==
    [tool      : [Tools -> Tool \cup {None}],
     address   : [AddressKey -> Address \cup {None}],
     publicUrl : [Tools -> PublicUrl \cup {None}],
     exposure  : [Tools -> Exposure \cup {None}],
     domain    : [Domains -> Binding \cup {None}]]

EmptyRegistry ==
    [tool      |-> [t \in Tools |-> None],
     address   |-> [k \in AddressKey |-> None],
     publicUrl |-> [t \in Tools |-> None],
     exposure  |-> [t \in Tools |-> None],
     domain    |-> [d \in Domains |-> None]]

VARIABLES
    mem,        \* the registry in memory
    disk,       \* the registry a start loads
    decisions,  \* decisions[t, m]: state.guardianDecisions
    requests,   \* requests made so far
    gateSet,    \* tools whose gate was set and confirmed, and not opened since
    dropped,    \* those of them that a start dropped since it was set
    dark        \* tools whose revocation was confirmed, and nothing asked since

registries == <<mem, disk>>
gates == <<gateSet, dropped>>
ghosts == <<gates, dark>>
vars == <<registries, decisions, requests, ghosts>>

TypeOK ==
    /\ mem \in Registry
    /\ disk \in Registry
    /\ decisions \in [Tools \X Matter -> Decision \cup {None}]
    /\ requests \in Nat
    /\ gateSet \subseteq Tools
    /\ dropped \subseteq Tools
    /\ dark \subseteq Tools

Init ==
    /\ mem = EmptyRegistry
    /\ disk = EmptyRegistry
    /\ decisions = [s \in Tools \X Matter |-> None]
    /\ requests = 0
    /\ gateSet = {}
    /\ dropped = {}
    /\ dark = {}

-----------------------------------------------------------------------------
(* Saving.  persist writes the whole registry; memory is already changed.  *)

Request == requests < MaxRequests /\ requests' = requests + 1

Saved(next) == mem' = next /\ disk' = next

(* An event could not be recorded, or the save failed, before or after the *)
(* replacement: the caller is told 500.                                    *)
Unsaved(next) == mem' = next /\ disk' \in {disk, next}

Commit(next) == Saved(next) \/ Unsaved(next)

-----------------------------------------------------------------------------
(* evaluateGuardianRequest.                                                *)

(* Whether a trusted peer vouches for a remote upstream is federation's    *)
(* business: both answers are possible.                                    *)
Verdicts(tool, host) ==
    IF tool = None THEN {"denied"}
    ELSE IF tool.lapsed THEN {"denied"}
    ELSE IF tool.upstream = None THEN {"quarantined"}
    ELSE (IF tool.upstream = "remote" THEN {"quarantined"} ELSE {})
         \cup IF tool.health = "offline" THEN {"denied"}
              ELSE IF tool.health = "degraded" \/ host \in LocalHosts
              THEN {"quarantined"}
              ELSE {"approved"}

Decide(t, m, v) == decisions' = [decisions EXCEPT ![<<t, m>>] = v]

(* Mutant: the decision is stored last, and that may fail.                 *)
AdmitDecidesLast(t, m, v, next) ==
    \/ Commit(next) /\ Decide(t, m, v)
    \/ Commit(next) /\ UNCHANGED decisions

(* The decision is stored first.  When the event or the health check that  *)
(* goes with it cannot be stored, the request ends there.                  *)
Admit(t, m, v, next) ==
    /\ Decide(t, m, v)
    /\ Commit(next) \/ UNCHANGED registries

-----------------------------------------------------------------------------
(* Addresses, public URLs and exposures.                                   *)

HostOf(k, s, desired) == IF k = "website" /\ desired # None THEN desired ELSE s

Granted(v, other) == IF v = "approved" THEN "active" ELSE other

NewAddress(v, host) == [status |-> Granted(v, "requested"), host |-> host]
NewUrl(v, host) == [status |-> Granted(v, "pending"), host |-> host]
NewExposure(v, host) == [status |-> Granted(v, v), host |-> host]

(* requestSystemsApiAddress: a website address brings the public URL and   *)
(* the exposure along.                                                     *)
WithAddress(r, t, k, s, host, v) ==
    LET issued == [r EXCEPT !.address[<<t, k, s>>] = NewAddress(v, host)]
    IN  IF k # "website" THEN issued
        ELSE [issued EXCEPT !.publicUrl[t] = NewUrl(v, host),
                            !.exposure[t] = NewExposure(v, host)]

(* handleSystemsAddressPost.                                               *)
RequestAddress(t, k, s, desired) ==
    /\ Request
    /\ mem.tool[t] # None
    /\ \E v \in Verdicts(mem.tool[t], desired) :
         Admit(t, k, v, WithAddress(mem, t, k, s, HostOf(k, s, desired), v))
    /\ dark' = dark \ {t}
    /\ UNCHANGED gates

(* requestPublicUrl: a website address of the host, or of the tool's id.   *)
RequestPublicUrl(t, desired) ==
    \E s \in IF desired = None THEN {t} ELSE Subjects :
        RequestAddress(t, "website", s, desired)

(* requestExposure: no address is issued and no public URL.                *)
Exposed(r, t, desired, v) ==
    [r EXCEPT !.exposure[t] = NewExposure(v, IF desired = None THEN t ELSE desired)]

(* handleSystemsExposurePost.                                              *)
RequestExposure(t, desired) ==
    /\ Request
    /\ mem.tool[t] # None
    /\ \E v \in Verdicts(mem.tool[t], desired) :
         Admit(t, "exposure", v, Exposed(mem, t, desired, v))
    /\ dark' = dark \ {t}
    /\ UNCHANGED gates

Revoke(record) == IF record = None THEN None ELSE [record EXCEPT !.status = "revoked"]

AddressesOf(t, kinds) == {k \in AddressKey : k[1] = t /\ k[2] \in kinds}

Held(r, keys) == {k \in keys : r.address[k] # None}

(* Mutant: the public URL outlives its address.                            *)
WithoutAddressesOnly(r, t, kinds) ==
    [r EXCEPT !.address = [k \in AddressKey |->
        IF k \in AddressesOf(t, kinds) THEN Revoke(@[k]) ELSE @[k]]]

(* revokeSystemsApiAddress: the public URL goes with a website address.    *)
WithoutAddresses(r, t, kinds) ==
    [r EXCEPT
       !.address = [k \in AddressKey |->
          IF k \in AddressesOf(t, kinds) THEN Revoke(@[k]) ELSE @[k]],
       !.publicUrl[t] =
          IF Held(r, AddressesOf(t, kinds \cap {"website"})) # {}
          THEN Revoke(@) ELSE @]

(* handleSystemsAddressRevoke, for one kind or for all.                    *)
RevokeAddress(t, kinds) ==
    /\ Request
    /\ Held(mem, AddressesOf(t, kinds)) # {}
    /\ Commit(WithoutAddresses(mem, t, kinds))
    /\ UNCHANGED <<decisions, ghosts>>

(* Mutant: custom domains keep pointing at the tool.                       *)
WithdrawnButDomains(r, t) ==
    [r EXCEPT
       !.exposure[t] = Revoke(@),
       !.publicUrl[t] = Revoke(@),
       !.address = [k \in AddressKey |-> IF k[1] = t THEN Revoke(@[k]) ELSE @[k]]]

(* revokeSystemsApiExposure takes everything the tool is reachable by.     *)
Withdrawn(r, t) ==
    [r EXCEPT
       !.exposure[t] = Revoke(@),
       !.publicUrl[t] = Revoke(@),
       !.address = [k \in AddressKey |-> IF k[1] = t THEN Revoke(@[k]) ELSE @[k]],
       !.domain = [d \in Domains |->
          IF @[d] # None /\ @[d].tool = t THEN Revoke(@[d]) ELSE @[d]]]

RevokeExposure(t) ==
    /\ Request
    /\ mem.exposure[t] # None
    /\ \/ Saved(Withdrawn(mem, t)) /\ dark' = dark \cup {t}
       \/ Unsaved(Withdrawn(mem, t)) /\ UNCHANGED dark
    /\ UNCHANGED <<decisions, gates>>

-----------------------------------------------------------------------------
(* Domain bindings.                                                        *)

(* An approved request keeps the status the domain had under whatever tool *)
(* it was bound to.                                                        *)
StatusOfBinding(r, d, v) ==
    IF v # "approved" THEN v
    ELSE IF r.domain[d] # None THEN r.domain[d].status
    ELSE "pending"

NewBinding(r, t, d, v) == [status |-> StatusOfBinding(r, d, v), tool |-> t]

(* requestDomainBinding.                                                   *)
RequestDomain(t, d) ==
    /\ Request
    /\ mem.publicUrl[t] # None /\ mem.publicUrl[t].status = "active"
    /\ \E v \in Verdicts(mem.tool[t], d) :
         Admit(t, d, v, [mem EXCEPT !.domain[d] = NewBinding(mem, t, d, v)])
    /\ dark' = dark \ {t}
    /\ UNCHANGED gates

(* The token is compared and nothing else: neither how old it is nor what  *)
(* the status was.                                                         *)
Verified(r, d) == [r EXCEPT !.domain[d].status = "verified"]

Unbound(r, d) == [r EXCEPT !.domain[d].status = "revoked"]

(* verifyDomainBinding.                                                    *)
VerifyDomain(d) ==
    /\ Request
    /\ mem.domain[d] # None
    /\ Commit(Verified(mem, d))
    /\ dark' = dark \ {mem.domain[d].tool}
    /\ UNCHANGED <<decisions, gates>>

RevokeDomain(d) ==
    /\ Request
    /\ mem.domain[d] # None
    /\ Commit(Unbound(mem, d))
    /\ UNCHANGED <<decisions, ghosts>>

-----------------------------------------------------------------------------
(* Tools.                                                                  *)

Given(field, previous) == IF field = None THEN previous ELSE field

NewTool == [upstream |-> None, health |-> "healthy", described |-> TRUE,
            lapsed |-> FALSE, gated |-> FALSE]

SetTool(t, tool) == [mem EXCEPT !.tool[t] = tool]

Reported(tool, report) ==
    [tool EXCEPT !.upstream = Given(report.upstream, @),
                 !.health = Given(report.health, @),
                 !.described = report.described]

(* Mutant: the gate is what the registration says, and it says nothing.    *)
RebuiltUngated(previous, report) ==
    Reported([(IF previous = None THEN NewTool ELSE previous) EXCEPT !.gated = FALSE],
             report)

(* buildTool: what a registration leaves out, and the gate, which it may   *)
(* not set, come from the previous record.                                 *)
Rebuilt(previous, report) ==
    Reported(IF previous = None THEN NewTool ELSE previous, report)

(* handleToolRegister.                                                     *)
Register(t, report) ==
    /\ Request
    /\ Commit(SetTool(t, Rebuilt(mem.tool[t], report)))
    /\ UNCHANGED <<decisions, ghosts>>

(* handleSystemsToolPatch; an absent requiresAuth leaves the gate as it is. *)
Patch(t, report, gate) ==
    /\ Request
    /\ mem.tool[t] # None
    /\ LET next == SetTool(t, [Reported(mem.tool[t], report) EXCEPT
                                  !.gated = Given(gate, @)]) IN
         \/ /\ Saved(next)
            /\ gateSet' = CASE gate = None -> gateSet
                             [] gate = TRUE -> gateSet \cup {t}
                             [] gate = FALSE -> gateSet \ {t}
            /\ dropped' = IF gate = TRUE THEN dropped \ {t} ELSE dropped
         \/ /\ Unsaved(next)
            /\ gateSet' = IF gate = FALSE THEN gateSet \ {t} ELSE gateSet
            /\ UNCHANGED dropped
    /\ UNCHANGED <<decisions, dark>>

(* Addresses, exposures and domains of the tool are left behind.           *)
Deregister(t) ==
    /\ Request
    /\ mem.tool[t] # None
    /\ Commit(SetTool(t, None))
    /\ gateSet' = gateSet \ {t}
    /\ UNCHANGED <<decisions, dropped, dark>>

(* handleToolHeartbeat, or a successful probe: kept in memory only.        *)
Heartbeat(t, report) ==
    /\ mem.tool[t] # None
    /\ mem' = SetTool(t, [mem.tool[t] EXCEPT
                 !.upstream = Given(report.upstream, @),
                 !.health = Given(report.health, IF @ = "offline" THEN "healthy" ELSE @),
                 !.lapsed = FALSE])
    /\ UNCHANGED <<disk, decisions, requests, ghosts>>

(* expireToolHeartbeat, after missed heartbeats or a failed probe.         *)
Expire(t) ==
    /\ mem.tool[t] # None
    /\ mem' = SetTool(t, [mem.tool[t] EXCEPT !.health = "offline", !.lapsed = TRUE])
    /\ UNCHANGED <<disk, decisions, requests, ghosts>>

-----------------------------------------------------------------------------
(* The operator approves, denies, suspends or quarantines a decision that  *)
(* exists.                                                                 *)
Operate(t, m, status) ==
    /\ Request
    /\ decisions[t, m] # None
    /\ Decide(t, m, status)
    /\ UNCHANGED <<registries, ghosts>>

(* Another change of the registry, a catalog decision say, saves it whole. *)
Flush ==
    /\ disk' = mem
    /\ UNCHANGED <<mem, decisions, requests, ghosts>>

-----------------------------------------------------------------------------
(* A start: each record is read by its sanitiser, which lists the statuses *)
(* it knows and puts another in the place of one it does not.              *)

Known(record, statuses, otherwise) ==
    IF record = None THEN None
    ELSE [record EXCEPT !.status = IF @ \in statuses THEN @ ELSE otherwise]

(* A tool whose name or description is empty is not loaded.                *)
ToolLoaded(tool) ==
    IF tool # None /\ tool.described
    THEN [tool EXCEPT !.health = IF @ \in Health THEN @ ELSE "healthy"]
    ELSE None

(* Nor is an address of a kind that is none of the four.                   *)
AddressLoaded(k, address) ==
    IF k[2] \in Kind
    THEN Known(address, {"requested", "active", "revoked"}, "requested")
    ELSE None

UrlLoaded(url) == Known(url, {"active", "pending", "revoked"}, "active")

ExposureLoaded(exposure) ==
    Known(exposure, {"requested", "active", "suspended", "quarantined", "denied",
                     "revoked"}, "requested")

BindingLoaded(binding) ==
    Known(binding, {"pending", "verified", "quarantined", "denied", "revoked",
                    "expired"}, "pending")

Loaded(r) ==
    [tool      |-> [t \in Tools |-> ToolLoaded(r.tool[t])],
     address   |-> [k \in AddressKey |-> AddressLoaded(k, r.address[k])],
     publicUrl |-> [t \in Tools |-> UrlLoaded(r.publicUrl[t])],
     exposure  |-> [t \in Tools |-> ExposureLoaded(r.exposure[t])],
     domain    |-> [d \in Domains |-> BindingLoaded(r.domain[d])]]

Restart ==
    /\ mem' = Loaded(disk)
    /\ dropped' = dropped \cup
          {t \in gateSet : disk.tool[t] # None /\ ~disk.tool[t].described}
    /\ UNCHANGED <<disk, decisions, requests, gateSet, dark>>

ToolRequest(t) ==
    \/ \E k \in Kinds, s \in Subjects, h \in Hosts \cup {None} :
         RequestAddress(t, k, s, h)
    \/ \E h \in Hosts \cup {None} : RequestPublicUrl(t, h) \/ RequestExposure(t, h)
    \/ \E kinds \in {Kinds} \cup {{k} : k \in Kinds} : RevokeAddress(t, kinds)
    \/ RevokeExposure(t)

ToolChange(t) ==
    \/ \E report \in Reports : Register(t, report)
    \/ \E report \in Reports, gate \in BOOLEAN \cup {None} : Patch(t, report, gate)
    \/ Deregister(t)

DomainRequest(d) ==
    \/ \E t \in Tools : RequestDomain(t, d)
    \/ VerifyDomain(d)
    \/ RevokeDomain(d)

Liveness(t) ==
    \/ \E report \in Reports : Heartbeat(t, report)
    \/ Expire(t)

Next ==
    \/ \E t \in Tools : ToolRequest(t) \/ ToolChange(t) \/ Liveness(t)
    \/ \E d \in Domains : DomainRequest(d)
    \/ \E t \in Tools, m \in Matter, status \in Decision : Operate(t, m, status)
    \/ Flush
    \/ Restart

Spec == Init /\ [][Next]_vars

-----------------------------------------------------------------------------
(* listActiveRoutes.                                                       *)

Active(record) == record # None /\ record.status = "active"

(* A record is routed unless its own decision is blocked or its tool has   *)
(* no upstream.                                                            *)
Routable(r, t, m) ==
    /\ r.tool[t] # None /\ r.tool[t].upstream # None
    /\ decisions[t, m] \notin Blocked

Route(t, m, host) == [tool |-> t, matter |-> m, host |-> host]

AddressRoutes(r) ==
    {Route(k[1], k[2], r.address[k].host) :
       k \in {k \in AddressKey : Active(r.address[k]) /\ Routable(r, k[1], k[2])}}

ExposureRoutes(r) ==
    {Route(t, "exposure", r.exposure[t].host) :
       t \in {t \in Tools : Active(r.exposure[t]) /\ Routable(r, t, "exposure")}}

BoundTo(r, d) == r.domain[d].tool

DomainRoutes(r) ==
    {Route(BoundTo(r, d), d, d) :
       d \in {d \in Domains : /\ r.domain[d] # None
                              /\ r.domain[d].status = "verified"
                              /\ Routable(r, BoundTo(r, d), d)}}

Routes(r) == AddressRoutes(r) \cup ExposureRoutes(r) \cup DomainRoutes(r)

-----------------------------------------------------------------------------
(* Properties.  They are about the registry in memory and about the one a  *)
(* restart loads, which differ after heartbeats and failed saves.          *)

Served == {mem, disk, Loaded(disk)}

(* A public URL that reads "active" is backed by an active website address *)
(* of the same tool and host: the two are separate records, and addresses  *)
(* are issued, refused, re-issued and revoked by kind or all together.     *)
Backed(r) ==
    \A t \in Tools : Active(r.publicUrl[t]) =>
        \E s \in Subjects :
            /\ Active(r.address[t, "website", s])
            /\ r.address[t, "website", s].host = r.publicUrl[t].host

PublicUrlBacked == \A r \in Served : Backed(r)

(* Admission before routing: every route of an address or of a custom      *)
(* domain has an approved Guardian decision of its own, although the       *)
(* decision and the record live in two files, and either write may fail.   *)
RoutesAreApproved ==
    \A r \in Served : \A route \in AddressRoutes(r) \cup DomainRoutes(r) :
        decisions[route.tool, route.matter] = "approved"

(* Once the revocation of a tool's exposure was confirmed, the tool has no *)
(* route of any kind until it or its operator asks for one: whatever is    *)
(* registered, approved, reported, saved or restarted in between.          *)
RevocationIsDark ==
    \A r \in Served : \A route \in Routes(r) : route.tool \notin dark

HasGate(r, t) == r.tool[t] # None /\ r.tool[t].gated

(* A confirmed gate holds, in memory and after a restart, until an operator*)
(* opens it or the tool is deregistered, through registrations that may    *)
(* not set it, reports, failed saves and restarts; except that a tool with *)
(* an empty name or description, which a registration or a patch may leave *)
(* it with, is not loaded by a start, and neither is its gate then.        *)
GateKept ==
    \A t \in gateSet \ dropped :
        /\ HasGate(mem, t) /\ HasGate(disk, t)
        /\ disk.tool[t].described => HasGate(Loaded(disk), t)

(* "A security switch that resets itself and says nothing is worse than    *)
(* not having one" (store.ts): a tool whose gate was confirmed and not     *)
(* opened is registered without the gate at no time.                       *)
GateOutlivesRestart ==
    \A r \in Served, t \in gateSet : r.tool[t] # None => r.tool[t].gated

(* "any route whose tool has a guardian decision of denied, suspended, or  *)
(* quarantined is excluded" (registry.ts): a website or exposure host      *)
(* whose decision is blocked is not routed for that tool.                  *)
RefusedHosts(r, t) ==
    {r.address[k].host : k \in {k \in AddressKey :
        k[1] = t /\ k[2] = "website" /\ r.address[k] # None
        /\ decisions[t, "website"] \in Blocked}}
    \cup {r.exposure[x].host : x \in {x \in {t} :
        r.exposure[x] # None /\ decisions[x, "exposure"] \in Blocked}}

RefusedHostNotRouted ==
    \A route \in Routes(mem) :
        route.matter \in {"website", "exposure"} =>
            route.host \notin RefusedHosts(mem, route.tool)
=============================================================================
