# Nexus Cloud: models, checks and proofs

This directory specifies the core of Nexus Cloud in TLA+: the process that
registers tools and nodes, decides what becomes public, runs workloads and
talks to peer nodes. TLC checks the modules on small instances, TLAPS proves
the main invariants for every value of the constants.

- Check a model: `tlc -workers 2 -config MCJsonStore.cfg MCJsonStore.tla`
- Check the proofs: `tlapm JsonStoreProofs.tla`
- `PROJECT.json` lists the components, the runs, the mutant of each property,
  the source lines behind each definition, the findings, the hazards and the
  theorems.

## 1. The system

Nexus Cloud is one Node.js/Bun process (`src/src/index.ts`, `server.ts`). Its
handlers are functions on one event loop: a handler runs without interruption
to its next `await`. Everything between two awaits is atomic with regard to
other requests, but not with regard to a kill, a power loss, a failing file
call, or a second process that overlaps with it during a restart. Two JSON
files hold the state.

| Component | State it keeps | Operations | What is hard | What makes it correct |
|---|---|---|---|---|
| **registry file** (`persistence/json-store.ts`) | `registry.json`, one `.tmp`, one `.bak` | atomic save, directory sync, load with repair | a kill, a power loss or a failing call between any two of eight file calls; a load that itself writes | no torn primary; what was confirmed survives; readers never see an uncommitted catalog |
| **catalog decisions** (`systems-api/registry.ts`, `api/handlers.ts`, `catalog/seed.ts`) | proposals, approved versions with their rollback stack, review status, append-only ledger of decisions | propose, approve, reject, defer, roll back, seed at start | two awaits in a decision handler, retries under an Idempotency-Key, saves answered 202 | a key decides once; the key of a confirmed decision is never forgotten; ledger, stack and status tell one story |
| **platform state file** (`state.ts`) | nodes, workloads, units, peers, volumes, Guardian decisions, events | `mutateState` (mutate, save, undo on failure), load from the youngest readable file | overlapping processes in one directory, recovery by modification time, undo after a rename | no torn primary, no mutation served that was undone, nothing confirmed is lost |
| **public exposure** (`systems-api/registry.ts`, `store.ts`, `address.ts`, `domains.ts`, `exposure.ts`) | tools, addresses, public URLs, exposure records, custom domains | register, patch, heartbeat, expire, deregister, request and revoke each kind of record, build the routing table | one request touches both files and four kinds of record; loading sanitises and drops records | a route is admitted by the Guardian; a revocation stays dark; the authentication gate stays while its tool is loaded |
| **guardian** (`guardian/index.ts`) | decisions by subject, in the platform state | evaluate a request, approve, deny, suspend, quarantine | verdicts are joined to records by a string subject | a refused subject is not routed |
| **heartbeats and probes** (`systems-api/service.ts`, `server.ts`) | health of each tool | heartbeat, expiry, probe, every 30 s | a probe's answer is older than the record it is applied to | silent tools become offline, live ones come back |
| **control plane** (`control-plane/*.ts`) | nodes: status, trust state, lease; workloads | register, promote, quarantine, revoke, expire, plan | status and trust move independently | only trusted, leased nodes receive work |
| **data plane** (`data-plane/service.ts`) | units | run and stop a workload through a container runtime | a start or a stop that is not saved; results that are ignored | what runs is what the units say |
| **federation** (`federation/*.ts`) | peers and their trust | bootstrap, announce, contact, promote, revoke, expire | announcements overwrite the record an operator decided on | trust changes only by an operator, a signature or a lapsed lease |
| **storage** (`storage/index.ts`, `s3.ts`) | pools, volumes | register, drain, remove pools; create and delete volumes | a pool is chosen, the object store awaited, then the pool charged and the volume stored in two saves | what a pool gave away covers the volumes charged to it; over-commitment only by a race |
| **catalog resolution** (`catalog/resolution.ts`, `tenant-entitlements.ts`, `node-overlay.ts`) | entitlements of tenants, overlays of nodes, one file each | PUT the lists of a scope, resolve what a tenant sees on a node | read, await, rewrite of a whole file; a read that fails counts as an empty file; nothing is synced | what the lists refuse cannot be launched |
| **maintenance** (`maintenance/index.ts`) | windows, in the platform state | set, update, clear | a save, an append to the audit log that may fail silently, a save of the event | state and log tell one story |
| **HTTP surface** (`api/handlers.ts`, `config.ts`, `nexus-auth.ts`) | API keys, current and previous | dispatch, the API-key gate, rotation | the order of dispatch decides who checks the key; sessions and keys share a header | where a key is configured, no change without it but catalog decisions; those and windows only for operators; a rotation refuses nobody |
| **DNS** (`cloudflare-dns.ts`) | none: the records are Cloudflare's | publish a name: list, then update or create | failed lists, lost answers, late creations | one record for a name |
| **observability and audit** (`observability/service.ts`, `audit/index.ts`) | events, NDJSON log | append, query, prune | a query loads the registry file | reads change nothing |
| identity, deploy client, topology data, summaries, pages | little or none | I/O and formatting | – | – |

How they interact: handlers call the registry and the services directly;
`registry.ts` writes the registry file through `json-store.ts`, and asks the
Guardian, which writes the platform state through `state.ts` – one request
therefore commits to both files, in two steps. `listActiveRoutes` joins
records of the registry with decisions of the platform state on every read.
`server.ts` runs heartbeat expiry, health probes, node trust expiry and peer
trust expiry every 30 seconds, in this order, in one callback. An audit query
loads the registry file, so a read may repair the file of the running process.

The hazards, each at its line with the properties that would catch it, are in
`PROJECT.json`.

## 2. The plan

Order: the files first, because everything above assumes them; then the
components whose mistakes are hardest to undo; then what awaits in the middle.
All of it is done.

| | Modules | Proved |
|---|---|---|
| 1 | `DurableCell`, `JsonStore`: the registry file against an abstract cell | types, all properties, the refinement |
| 2 | `Catalog`, `CatalogDecisions`: decisions over that cell | types and all properties |
| 3 | `StateStore`, `StateCell`, `ServedCell`: the platform state file, call by call, against the cell the services build on | types, all properties but the one that is violated, the refinement |
| 4 | `ExposureRegistry`: addresses, exposures, domains, the routing table, the load | types and all properties |
| 5 | `Faults`, `ControlPlane`, `DataPlane`: nodes, plans, containers over the state file | types and all safety |
| 6 | `Federation`: peers and their trust over the state file | types and the source of trust |
| 7 | `Storage`: pools and volumes across an await | types and both properties |
| 8 | `ToolHealth`: heartbeats and probes | types (the rest is liveness) |
| 9 | `CatalogResolution`, `ScopedCatalog`: what a tenant sees on a node | types and both properties |
| 10 | `Maintenance`, `CloudflareDns`, `Surface`: windows, names and the gate in front of all routes | types and all properties |

Composition: `CatalogDecisions` takes the registry file as the atomic cell that
`JsonStore` is shown to implement; `ExposureRegistry` takes each file as one
atomic write that may fail; `ControlPlane`, `DataPlane`, `Federation`, `Storage`
and `Maintenance` extend `StateCell`, the outcomes of a mutation, which
`StateStore` is shown to implement (`ServedCell`), all but the last through
`Faults`, which bounds how many saves fail;
`DataPlane` relies on `ReadyIsTrusted` of `ControlPlane`; `Surface`
composes `Maintenance` and `CloudflareDns` under one process, one set of
requests and one gate; `ScopedCatalog` resolves through `CatalogResolution`.

## 3. What is modelled

`PROJECT.json` maps every definition to its source lines; this section gives the
correspondence in words.

### DurableCell, JsonStore

`JsonStore` keeps, for each of the three file names, the content a process
reads (`file`), whether its bytes were fsynced (`dirty`) and what the name may
hold after a power loss (`durable`). `phase` is the next file call of the
synchronous code. `BeginSave … FlushBackup` copy the primary to the backup,
`OpenTemp … FlushTemp` write the new content, `Rename` replaces the primary,
`SyncDir` makes it durable. Every call may fail (`WriteFails`, `SyncDirFails`,
`ResyncFails`), the process may be killed (`Crash`) or the power lost
(`PowerLoss`) at every one, and the medium may damage the primary (`Rot`).
`Restart` and `AuditRead` are `loadJsonStoreWithRecovery`: choose the first
readable candidate, rewrite the primary from it without a backup. The caller is
`commitCatalog`: it publishes the new catalog (`visible`) once the file was
replaced, and confirms it (`acked`) once the directory was synced. Callers that
ignore a save's outcome are in `CatalogDecisions`.

`DurableCell` is the abstract specification: one value, written atomically,
with a confirmed value below it. `ImplementsCell` is the refinement.

### Catalog, CatalogDecisions

`Catalog` holds the pure part: what a proposal, an approval, a review, a
rollback or the seed makes of a catalog (`Approved`, `Reviewed`, `RolledBack`,
`Decided`, `Seeded`), and the checks of the handlers (`CanSubmit`,
`Reviewable`, `CanDecide`). `CatalogDecisions` runs it: a decision request
waits for the identity service, then for its body, so it is three steps
(`Arrive`; `AwaitBody`, `Replay`, or a refusal; `Decide`, `JoinEarlier`, or a
refusal). `Stored`, `Failed` and `Unconfirmed` are the three outcomes of
`commitCatalog`. `Persist` is any other writer of the same file, which makes an
unconfirmed catalog durable without confirming it. `SeedTool`, `SeedFails` and
`Serve` are a start; requests are served only after it: `index.ts` imports the
server, which listens at once, but calls the seed in the same turn of the event
loop, before any request is taken up. `promised` holds the keyed decisions that were
answered 200, and whether each was `joined`, that is, answered while its key already
stood for another decision (finding 3).

### StateStore

Several processes, each with the locals of its current write. `Mutate` changes
the exported state, then the write goes call by call: create a uniquely named
temporary file, fill it, read the primary, copy it to the backup, rename,
return. A failing call undoes the mutation in memory and removes the temporary
file (`WriteFails`). `Load` picks the youngest readable file – ties are
nondeterministic among equal times only as far as the stable sort leaves them
open – and rewrites the primary when it was not the winner.

`ServedCell` is the abstract specification: one process, `mem`, `disk` and `older`,
and the outcomes of `StateCell` as its steps. A mutation, which is several file
calls, is one step there. `ImplementsCell` says which: while a mutation runs,
memory counts as what its failure would go back to; the backup counts as replaced
once it is opened, which is the step `Interrupted` of a save that has not
returned; a renamed primary counts when the write returns, fails or is killed; and
a load that still repairs does not serve yet. The promise ends for good (`broken`)
once a temporary file was left behind, which a later start may load whatever was
confirmed meanwhile, or two processes have overlapped. The models of the services
assume the promise; what holds without it is said by the other properties of
`StateStore`.

### ExposureRegistry

`mem` and `disk` are the registry in memory and what the file holds;
`decisions` are the Guardian's, in the other file. `RequestAddress`,
`RequestPublicUrl`, `RequestExposure`, `RequestDomain`, `VerifyDomain`,
`RevokeAddress`, `RevokeExposure`, `RevokeDomain`, `Register`, `Patch`,
`Deregister`, `Heartbeat`, `Expire` are whole handlers: Guardian, record, public
URL, save. `Commit` is a save that succeeds or throws after the records in
memory were changed; `Unsaved` is a request that ends before it. `Routes` is
`listActiveRoutes`. Whether a tool's upstream is a remote host without a trusted
peer decides between approval and quarantine.

`Restart` loads the file through the sanitisers, one operator for each of them
(`ToolLoaded`, `AddressLoaded`, `UrlLoaded`, `ExposureLoaded`, `BindingLoaded`).
They change two things that the code itself writes: a tool whose name or
description is empty is dropped, and its gate with it (finding 2; `dropped`
remembers those that had one), and so is an address of a kind other than the four.
The handler accepts such a kind (`isSystemsApiAddressRequest` asks for any
non-empty string), so it is routed until the next start and gone after it.

### StateCell, ControlPlane, DataPlane

`StateCell` is the platform state as the services of one process see it:
`mem` is the exported object, `disk` the primary file, `older` the backup, which
a start may load although the primary is valid (finding 1). `Saved` is a handler
with one save; `SavedTwice` a handler that goes on to store an event or a health
check, which carries its mutation into the backup as well; `SavedOnce` one whose
second save fails; `SavedInTurn` and `StoppedInTurn` any number of saves, finished
or not; `NotSaved` a save that throws, with memory restored (`Undone`) but the
files possibly replaced (`Interrupted`); `LoadedAs` a start, given what the two files are
sanitised to, and `Reloaded` one that reads them as they are. A kill within a
handler leaves what the failure of its next save leaves, followed by `Kill`.

`ControlPlane` keeps the nodes by the number of their registration, each with
`status`, `trust` and lease. `Register`, `Promote`, `Quarantine`, `Revoke` are the
handlers, `Plan` is policy, quota, the stored workload and the scheduler's
`Decisions`: the `Share` of a ready node by its `Index` among them, where it is
not nothing (requests are counted in half replicas, because the API accepts
fractions; what a node is given is whole). `placed` says whether name, region and
zone are all given: the handler accepts a node without, and answers 201, but the
next start drops it (`NodesLoaded`). `Interval` is the callback of `server.ts`;
`IntervalThrows` is one that an exception of any of its four functions cut short,
after which the process may be gone. `refused` is a history variable: nodes whose
refusal was answered 200 and whose promotion was not asked for since.

`DataPlane` keeps units (`mem`) beside the containers of the host (`live`).
`Run` and `RunFails` are `runWorkload`; a stop is `BeginStop`, which picks the
units, and one `StopUnit` for each. The loop is synchronous, so no request comes
between, but a kill may. `promised` and `settled` are history variables for
answered starts and for units a stop has marked.

### Federation

A peer is a record under a name; an operator may name it by its host or by its
URL, gossip always by its URL, and a peer is looked up by host. `TrustPeer` is
the signed request, `Announced` and `AnnouncedBootstrap` are the two ways an
announcement is taken (`Taken`: the peer, then perhaps its storage pools),
`ContactAnswers` the loop over the peers that a contacted host lists,
`ContactFails` its timeout or refusal. A start loads the peers and then stores
every known one anew, as pending, one save at a time (`Start`, `Rejoin`,
`RejoinFails`, `Joined`). `signed` and `vouched` are history variables: how long
the trust lasts that an operator, or a bootstrap host's own announcement, gave a
name. The promise is that a record carries no other trust and no longer one.

### Storage

`ChooseShared` picks the pool with the most space and then awaits the object
store; `SharedMade` charges whatever pool has that id by then, without a second
look, and stores the volume: two saves, either of which may fail (`ChargeFails`,
`RecordFails`). `createdAt` tells the registrations of one pool apart, and `paid`
names the one a volume was charged to. What the code does, and the model with
it: registering a pool again frees all of its space; deleting a volume gives
none back; a removed pool leaves its volumes with its name.

### CatalogResolution, ScopedCatalog

`Resolve` is the effective catalog of a tenant on a node: the platform's apps
through entitlements, overlay and health (`PlatformEntry`), the node's own apps
through the overlay and health alone (`NodeEntry`), the platform first where both
have an id. An empty list of enabled apps enables all; entitlements do not reach a
node's own apps. A PUT (`Begin`, then `PutTenant` or `PutNode`, or `Refuse`) reads
the file of its store, awaits the body, and writes everything it had read. A read
that throws counts as one of an empty file (`Begin`), and no write is synced:
`disk` is what a power loss would leave, `WriteBack` the operating system, in any
order of name and content. `asked` is what the last lists said that were written.
`lost` are the scopes that the code can lose: `stale` ones, which a PUT wrote back
from a read that failed or that others had overtaken, and `unsynced` ones, which a
`PowerLoss` found not yet on the disk. The properties say that it loses nothing
else, and that lists put again in full stand again. The resolution has tests and a
type but no handler calls it yet; the stores have.

### ToolHealth

`tool` is the registry in memory, `stored` the file. `Register`, `Expose`,
`Deregister` and `Heartbeat` are the writes of clients; heartbeats, expiry and
probes stay in memory. `Interval` runs the expiry and captures the exposed tools
for a round of probes; `Answer` applies one answer to the record that has the id
by then, by the upstream that was captured. `Change` is the world: which
upstreams answer and which tools report. Two things the properties leave room
for, because the code does them: a tool that keeps moving may stay offline, and a
lapsed tool that nobody exposes and somebody patches is "healthy" with the status
"offline".

### Maintenance, CloudflareDns, Surface

`Surface` is the dispatch of `handleApiRequest` for every route that changes
something. `Passes` says who is asked for the key: storage's routes and catalog
decisions come before the shared gate (`BeforeGate`), storage's and the two PUT
routes of scopes check it themselves (`ChecksKey`), and the gate takes the other
POST, PATCH and DELETE routes; catalog decisions are asked for none, because "the
node API key gate below cannot authorize a global catalog mutation"
(`handlers.ts:1896`). `Proved` says, apart from that, what a change needs, and
`unproved` collects the routes that changed something without. `key` has
the current and the previous key, `holds` the key each service sends;
`StartRotation`, `TakeKey` and `EndRotation` are the procedure `config.ts` describes.
`AskOperator`, `Allowed`, `BodyRead` are a request about a window or a catalog
decision: refused for Cloud's own key, then the identity service, then the body.
The identity service is another program and may take any string for a session, a
key as well (`IdentityOf`). `Maintenance` has the windows, the audit log and the
order of the two saves and the append, which may fail or leave half a line
(`ragged`) that swallows the next entry. `CloudflareDns` has a call per name –
zones, look-up, its answer, update or creation – and a service that may fail, lose
an answer or carry out a creation late.

## 4. The runs

| Run | Bounds | States | Shows |
|---|---|---|---|
| `jsonstore` | 3 saves, 1 damaged primary, failures and kills unbounded | 51 k | `PrimaryNeverTorn`, `AckedSurvives`, `VisibleIsStored`, `BackupCoversOneRot`, and that the files implement `DurableCell` |
| `catalog` | 1 tool, 2 operators, 2 requests, 2 keys, versions to 2, seed version 1, 3 ledger entries, 1 unconfirmed save | 380 k | a key is applied once; a key answered 200 survives, and its decision unless it was joined; the confirmed ledger is kept; ledger, approval stack and shown review status agree; no version is swapped behind an approval |
| `statestore` | 2 processes, 3 mutations, clock 0..1 | 1.8 M | no torn primary, `RenameFindsOwnFile`, `MemoryNotAheadOfFiles`, `AtMostOneBehind`, and that one process implements `ServedCell` |
| `state_restart` | the same | violation | a clean restart loads the backup (finding 1) |
| `exposure` | 1 tool, a website and a kind the load drops, 1 host, 1 custom domain, reports with and without a description, 5 requests | 1.6 M | `PublicUrlBacked`, `RoutesAreApproved`, `RevocationIsDark`, `GateKept` |
| `control_plane` | 2 registrations, clock 0..1, leases of 1, 1 fault, plans for 1, 1½ and 3½ replicas | 354 k | `ReadyIsTrusted`, `RefusalHolds`, `PlanCoversRequest`, and the liveness property `LapseIsNoticed` |
| `data_plane` | 3 starts, 2 container workloads and 1 other, 2 faults | 70 k | `StartIsKnown`, `StopIsKept` |
| `federation` | 2 hosts, 1 of them a bootstrap peer, 2 peers on record, clock 0..1, 1 fault | 897 k | `TrustHasSource`, and the liveness property `LapsedTrustEnds` |
| `storage` | 1 pool, 2 volumes of size 1, 2 requests, 2 registrations, 1 fault | 715 k | `NoUnpaidVolume`, `FitsUnlessRaced` and the types |
| `scoped_catalog` | 2 tenants in one file and 2 nodes in the other, one file at a time, 3 apps, 2 requests, 1 list or none, the empty one too for nodes, an app of their own | 1.0 M | `TenantPolicyStands`, `NodePolicyStands` |
| `tool_health` | 1 tool, 2 upstreams, expiry after 4 intervals | 91 k | the types, and the liveness properties `AliveToolRecovers`, `DeadToolLapses` |
| `surface` | 1 subject, operator and service, 2 requests, 2 keys, 2 changes of windows; both own names, 2 records of a name; names or keys and windows, one at a time | 145 k | `GatedMutation`, `RotationServes`, `MaintenanceLogged`, `OneRecordUnlessRaced` |

Why the bounds are enough to be interesting. Three saves give a primary, a
backup and a newer temporary file, all different, so that every candidate of a
load can be the wrong one; failures, kills and power losses are not counted.
Two requests and one shared key are the smallest race on a key; the
third ledger entry lets a retry come after a lost answer. Version 2 with seed
version 1 puts proposals at and above the seed. Two processes are the
overlap of a restart; one step of the clock is enough to order, or not to
order, any two writes. Five requests reach every kind of record, its
revocation and a re-registration in one behaviour; heartbeats, verdicts,
flushes and restarts are not counted. Two nodes are enough for a plan that
leaves one out, for a remainder, and for one node's fate to differ from the
other's; one tick makes a lease lapse, and operator actions, kills and restarts
are not counted. Three starts put two running units under one
workload beside one of another. Two hosts in two forms of name are three peers
that compete for two places and share a lookup; one tick lets trust lapse and be
renewed. Two creations of size 1 and a pool of size 1 are the smallest
over-commitment; the second registration lets the pool be replaced under an await.
Two scopes share a file, so that one's PUT can lose the other's update. Two state
constraints keep apart what has nothing in common, and no property relates: `OneFile` of
`MCScopedCatalog`, the two files, which share requests and the moment of a power loss;
`Apart` of `MCSurface`, the names at Cloudflare on one side and the keys and windows on
the other, which share requests and the end of the process. TLC goes on only from states
in which at most one of the two has left its initial state (and checks the invariants
of the states one step beyond); the theorems have no such bound. Two
upstreams let a tool leave the place a probe asks about; the age counts to the
four intervals that the 90 seconds of the code make late. Two keys are one
rotation, two requests one overlap. `statestore` may stop: it has no
deadlock check because after the last mutation and the last tick no step is
left; every other run checks for deadlock.

Each property of a passing run has a mutant of the code it is about (dropped
fsync, missing re-check under the key, undo forgotten, …) that TLC finds to
violate it. The mutants stand next to the definitions they change. Two runs
check their type invariant; that of every state machine is a theorem.

Fairness. `FairSpec` of `ControlPlane` and of `Federation` assume weak fairness of
`Interval` and nothing else. The event loop keeps firing a `setInterval` callback
for as long as the process runs, and every handler between two callbacks ends or
awaits; once the process is down `Interval` is not enabled and nothing is
promised. Callbacks that throw are counted as faults, of which there are
finitely many: an interval that throws every time notices nothing. `ToolHealth`
adds weak fairness of the answers of a round: a fetch ends by its timeout of five
seconds, long before the next interval. Nothing is assumed of clients, operators,
peers, tools or a supervisor that restarts the process. Every other property is
safety.

## 5. The proofs

Eight modules.

**JsonStoreProofs.** The inductive invariant joins the types with what the disk
may hold after a power loss (`DiskInv`), what each phase of the protocol has
already written and synced (`ProtocolInv`), where the confirmed save can be
found (`AckedInv`), how the served catalog relates to it (`VisibleInv`) and what
the backup is good for (`BackupInv`). `AckedSurvives` alone is not inductive: it
says nothing of a temporary file half way through its write, which a later load
may choose. Nor is `BackupCoversOneRot`, which looks at rest only: `BackupInv`
adds that from the copy to the end of a save the backup holds the last confirmed
snapshot, that a repair never copies over it, and what a damaged, absent or
whole primary leaves of it. `JsonStoreImplementsCell` maps every step to a step
of the cell or a stutter.

**CatalogProofs.** Each property holds of every catalog in memory, on disk, or
recoverable, so it is proved once about the pure operators and then lifted
through the outcomes of a save. `ConfirmedKeySurvives` needs
`PromisedIsConfirmed`: a promised decision is in the confirmed ledger, which is
a prefix of every catalog a restart can find; that it stands there under its key, unless
it was joined, is decided when it is promised. `LedgerExplainsApproval` and
`NoSwapBehindApproval` need `Accountable`: the approval and its whole rollback
stack are ordered, and each entry of an operator is backed by a ledger event
and by the proposal under its version. `ReviewConsistent` is about the status that
`catalogRecord` shows, which is the stored one or what it falls back to;
`ReviewsAreTrue` goes through the stored one (`StoredMatches`, `StoredIsShown`).

**StateStoreProofs.** Two invariants, the second on top of the first. `SafeInv`
adds to the types that a process between opening and renaming owns its temporary
file with the content it has written so far (`OwnsTemp`), and that what a job
copies to the backup was read from a whole primary (`CopiesPrimary`). `IInv` adds
what a restart finds, under the conditions of the two properties: while no two
processes have overlapped (`SoloInv`), a younger backup holds nothing that the
primary or a stray temporary file does not hold as well, and what a process goes
back to when its write fails is still in a file; while nothing has failed either
(`CalmInv`), primary and backup hold the last confirmed mutation or the state it was
made from, at every call of a write. Modification times enter as far as the
choice of a load needs them: no file is from the future.

`StateStoreImplementsCell` maps every step to a step of `ServedCell` or a stutter.
It needs `CleanInv` besides `IInv`, and only while the cell is not broken: from
the opening of the backup to the rename of a save, a start would find nothing but
the primary; the copy is whole when the rename comes, so that the rename does not
change what the backup offers; and what a load repairs is the backup, so that
its rename is the write back of `LoadedAs`. The theorem holds with every call
failing and with a kill at every call. It is what entitles the models of the
services to the outcomes they take for granted: a save that did not return leaves
the old state, the new one, or the old one twice, and a start finds nothing else.

**ExposureProofs.** `Sound` is proved of the registry in memory and in the file:
active URLs have their address (`Backed`), routable records have an admitting
verdict (`Admitted`), a confirmed revocation leaves no active record
(`Darkened`). `LoadedIsStored` says what a start changes: nothing, except the
tools and addresses that it drops, and `Sound` survives that. `GateIsKept` has an
invariant of its own (`GInv`): the gate stands in memory and in the file for every
tool whose gate was set, not opened, and not dropped by a start since. It is proved
without an assumption about what tools report; `MCExposureGate.cfg` shows what the
exception leaves out.

**ControlPlaneProofs.** Each property is one of every *view* of the state: memory,
primary, backup. The invariant says that every view is good (`AllGood`), which is
stronger than the property of memory and is what makes a restart harmless. The
argument has two halves: a save, whatever becomes of it, adds nothing to the
views but the new state, and two saves leave nothing else; and each operation
makes a good state of a good one. What a start drops is part of a good state and
good itself (`LoadedPart`, `LoadedGood`). An answered refusal needs the second save:
with one, the backup is still a view without it.

`PlansCover` is a counting argument about the scheduler, for any number of nodes
and any request. The position of a node in the filtered list is a bijection
(`RanksCount`), so as many nodes as the remainder says are given one replica more
(`FirstRanks`); base times nodes plus these is what is placed (`SpreadCount`), and
the division with remainder, on half replicas, is the rounded-up request
(`HalvesDivide`).

**HostingProofs.** `DataPlane`, `Storage` and `ToolHealth`, each under its own
specification. For `DataPlane` the argument is that of `ControlPlane`: every view
names each container that was promised and has each settled unit stopped
(`GoodUnits`), and an answered start or stop is in all views because of its
second save. `NoUnpaidVolume` and `FitsUnlessRaced` are proved together
(`StorageInv`): every view is `Sound`, that is, typed, with no volume paid to a
registration that has not happened yet, with the charges of each pool covered by
what it has given away, and with no pool below zero but one that was raced for;
and a pool that was not has one chooser at most, whose volume still fits
(`RoomIsKept`). The second is what makes the first inductive across the await: it
is about what a request remembers. The sum over a pool's volumes is the
cardinality of their gigabytes, so that it can be reasoned about without
recursion.

**NetworkProofs.** For `Federation`, `PeersInv` says that no signature or vouching
lasts longer than one given now would (`Granted`), and that every view is a
sequence of peers whose trust is covered by one (`GoodPeerLists`).
`TrustHasSource` alone would be inductive but for the types; `Granted` is what lets
a new signature replace an old one without uncovering what stands in the backup.
Any number of saves in turn stay within the views and the states they were to
store (`StoresWithin`).

For `Surface`, `SurfaceInv` has a part for each of what it composes. Windows: the
log's last word on a part exists (`HasLast`: the log is finite, and induction is
out of reach, so it is carried along) and agrees with every view. Names: one that
was not raced for is `Lone` – one record at most, none while a creation is under
way or late, and then no second one. Keys (`KeysInv`): while a key is required,
each service holds the current or the previous one, which is the order of the
rotation. `GatedMutation` needs what each request remembers (`PendingInv`): the
caller under way has shown a key where one was required when it was asked, or is
about the catalog, and its credential is not one of Cloud's keys; keys change only
across a restart, which ends every request. What `Passes` lets through has shown a
key where `Proved` needs one (`PassingProves`, `AskingProves`).

**ScopedCatalogProofs.** That the file says what was asked (`FileStands`) is not
inductive: a request writes what it has read, and a power loss leaves the disk. Two
more parts say the same of what each request in the middle has read, except for its
`stale` scopes – the very scopes that become `lost` when it writes – and of
the disk, except for the `unsynced` ones. The two properties then follow from the
resolution.

Assumptions are those the modules state: sentinels differ from data, bounds are
naturals, the sets offered to the model have their types. TLC evaluates each
of them.

Only model-checked is what the installed provers cannot reach, liveness under
fairness: `LapseIsNoticed`, `LapsedTrustEnds`, `AliveToolRecovers`,
`DeadToolLapses`. Of the property that is violated there is nothing to prove.

## 6. Findings

1. **A restart loses a confirmed mutation** (`state_restart`). Recovery takes the
   youngest file; the backup is written after the new content.

Four further behaviours have a configuration each, which is not one of the runs
(`tlc -config X.cfg M`, with a counterexample). The first goes against a comment of the
source; the others contradict no sentence of the repository as plainly. The properties
of the runs except what the first two show, in their comments as well:

2. **The gate falls off** (`MCExposureGate.cfg`, `MCExposure`). A registration or a patch
   may leave name or description empty; loading drops such a tool, and it registers again
   without the gate that was set. "A security switch that resets itself and says nothing
   is worse than not having one" (`store.ts:218`).
3. **One key, two answers** (`MCCatalogKey.cfg`, `MCCatalog`). The key is compared
   before the body is awaited and not again in `decideCatalog`: two requests with
   one key are both answered 200, one with the other's decision.
4. **A refused host is routed** (`MCExposureRoutes.cfg`, `MCExposure`). One request
   makes an address and an exposure; the verdict on the first does not reach the
   second.
5. **A stop that fails counts as a stop** (`MCDataStop.cfg`, `MCDataPlane`). The
   result of the stop command is dropped; the unit is stored as stopped, its
   container runs on, and later stops look only for running units.

Read in the code while modelling, and shown by no run of their own: a file of scopes
that cannot be read counts as empty, and the next PUT writes that back over the lists of
all other scopes; those files are not synced before they are renamed; a torn line of
the audit log swallows the entry after it; a node
registered without name, region or zone, and an address of an unknown kind, are
accepted and gone after the next start; a window can be changed only by a session
in a cookie together with the key in a header once a key is configured, because
the gate asks for the key and the handler refuses it; the previous state in a
trust event is the new one, because `getNode` returns the object that the change
mutates (`handlers.ts:565`); Cloud's own subdomain proxy does not ask for windows.

## 7. Not modelled, and why

- Maintenance notes on routes, the `exposed` flag and the copy of the public URL
  on the tool (in `ExposureRegistry`), and the history of tools: no routing
  decision reads them.
- Durability of Guardian decisions inside `ExposureRegistry`: that is
  `StateStore`; they survive restarts there.
- Power losses in `StateStore`: its fsync calls are those of `JsonStore`.
- Two processes that overlap on the files of scopes, whose temporary file has a fixed
  name; a GET whose own read fails, which shows a scope without lists; entries of the
  wrong form in those files, which the next read drops.
- What a power loss takes from the audit log. A tear that lacks only the end of the line
  is treated as any other.
- The lookup of the tool (404) before a catalog decision, and validation of
  descriptive fields: they refuse and change nothing.
- Outside services (identity, deploy, object store) except as awaits that
  may refuse or fail; the HTTP layer's parsing; everything that only reads; pages,
  summaries, constant data, among it the 4705 lines of `topology-data.ts`.
- `refreshNodeHeartbeat`, `control-plane/identity.ts`, `attachVolume` and a preferred
  pool, which nothing calls or sets; `agent.py`, which nothing starts.
- The workload records themselves, ports, mounts and environment of units; the
  storage pools in announcements and their signature.
- More than one failing save inside one volume creation.
- Login, logout and the node's key pair: a proxied call, and a file written once.
