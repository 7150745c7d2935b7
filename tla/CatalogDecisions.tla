-------------------------- MODULE CatalogDecisions --------------------------
(***************************************************************************)
(* The life of the review catalog in a running node: concurrent catalog    *)
(* decisions (handleCatalogDecision of src/api/handlers.ts over            *)
(* decideCatalog of src/systems-api/registry.ts), proposals, the other     *)
(* writers of the same registry file, process starts with the core seed,   *)
(* kills and power losses.                                                 *)
(*                                                                         *)
(* The process is one event loop: a handler runs to its next await without *)
(* interruption.  A decision awaits twice, for the identity service and    *)
(* for the request body, so it is three steps here.  The registry file is  *)
(* the atomic cell of DurableCell, which JsonStore implements: a save may  *)
(* be stored, or fail before the replacement, or fail after it with its    *)
(* durability unconfirmed.                                                 *)
(***************************************************************************)
EXTENDS Catalog, SequencesExt

CONSTANTS
    Requests,   \* concurrent decision requests
    Offered,    \* the decisions clients ask for
    MaxVersion, \* bound: versions of submitted proposals
    MaxLedger,  \* bound: decisions in the ledger
    MaxUnsettled \* bound: saves whose durability is unconfirmed

ASSUME OfferedAssumption == Offered \subseteq Decision

ASSUME BoundsAssumption == MaxVersion \in Nat /\ MaxLedger \in Nat

VARIABLES
    mem,        \* registry.catalog
    disk,       \* the catalog a start would load
    durable,    \* the catalogs a start may load after a power loss
    up,         \* the server accepts requests (false while the seed is applied)
    req,        \* the requests in flight
    promised,   \* keyed decisions answered 200, each its own or another's
    confirmed   \* the ledger of the last confirmed save

store == <<mem, disk, durable, confirmed>>
vars == <<store, up, req, promised>>

Quiet == [phase |-> "idle"]

(* A request waits for the identity service, then for its own body.        *)
Waiting(phase, d) == [phase |-> phase, decision |-> d]
Request == {Quiet} \cup [phase : {"identity", "body"}, decision : Offered]

TypeOK ==
    /\ mem \in CatalogType
    /\ disk \in CatalogType
    /\ durable \subseteq CatalogType
    /\ up \in BOOLEAN
    /\ req \in [Requests -> Request]
    /\ promised \subseteq [decision : Offered, joined : BOOLEAN]
    /\ confirmed \in Seq(Event)

(* A first start: there is no registry file.                               *)
Init ==
    /\ mem = EmptyCatalog
    /\ disk = EmptyCatalog
    /\ durable = {EmptyCatalog}
    /\ up = FALSE
    /\ req = [r \in Requests |-> Quiet]
    /\ promised = {}
    /\ confirmed = << >>

-----------------------------------------------------------------------------
(* commitCatalog, by what becomes of the save.                             *)

(* Mutant: a save is confirmed before it is on stable storage.             *)
StoredUnsynced(next) ==
    /\ mem' = next
    /\ disk' = next
    /\ durable' = durable \cup {next}
    /\ confirmed' = next.ledger

Stored(next) ==
    /\ mem' = next
    /\ disk' = next
    /\ durable' = {next}
    /\ confirmed' = next.ledger

Failed == UNCHANGED store

(* JsonStorePostReplaceError: the file is replaced.  Memory follows when   *)
(* the new snapshot can be read back.                                      *)
Unconfirmed(next) ==
    /\ Cardinality(durable) <= MaxUnsettled
    /\ mem' \in {mem, next}
    /\ disk' = next
    /\ durable' = durable \cup {next}
    /\ UNCHANGED confirmed

(* Answers of a handler whose save was stored (200), or not (503 and 202). *)
Reply(r) == req' = [req EXCEPT ![r] = Quiet]

(* The key is in the ledger, but for another decision.                     *)
JoinsAnother(d) == KnownKey(mem, d.key) /\ ~SameDecision(FirstWithKey(mem, d.key), d)

Promise(d) ==
    promised' = IF d.key = NoKey THEN promised
                ELSE promised \cup {[decision |-> d, joined |-> JoinsAnother(d)]}

CommitAndReply(r, d, next) ==
    /\ \/ Stored(next) /\ Promise(d)
       \/ Failed /\ UNCHANGED promised
       \/ Unconfirmed(next) /\ UNCHANGED promised
    /\ Reply(r)
    /\ UNCHANGED up

Answer(r) == Reply(r) /\ UNCHANGED <<store, up, promised>>

-----------------------------------------------------------------------------
(* handleCatalogDecision.                                                  *)

Asked(r, phase) == up /\ req[r].phase = phase

Arrive(r, d) ==
    /\ Asked(r, "idle")
    /\ req' = [req EXCEPT ![r] = Waiting("identity", d)]
    /\ UNCHANGED <<store, up, promised>>

(* 401, 403 or 503: no permission, or no answer from the identity service. *)
RefuseIdentity(r) == Asked(r, "identity") /\ Answer(r)

KeylessRollback(d) == d.action = "rollback" /\ d.key = NoKey

(* 428: a rollback needs a key.                                            *)
RefuseKeyless(r) ==
    /\ Asked(r, "identity")
    /\ KeylessRollback(req[r].decision)
    /\ Answer(r)

(* 409: the key already names another decision.                            *)
RefuseForeignKey(r) ==
    /\ Asked(r, "identity")
    /\ LET d == req[r].decision IN
         /\ KnownKey(mem, d.key)
         /\ ~SameDecision(FirstWithKey(mem, d.key), d)
    /\ Answer(r)

(* Mutant: a retry is answered from memory.                                *)
ReplayFromMemory(r) ==
    /\ Asked(r, "identity")
    /\ LET d == req[r].decision IN
         /\ KnownKey(mem, d.key)
         /\ SameDecision(FirstWithKey(mem, d.key), d)
         /\ Promise(d)
    /\ Reply(r)
    /\ UNCHANGED <<store, up>>

(* A retry of a decision in the ledger saves the catalog again unchanged.  *)
Replay(r) ==
    /\ Asked(r, "identity")
    /\ LET d == req[r].decision IN
         /\ KnownKey(mem, d.key)
         /\ SameDecision(FirstWithKey(mem, d.key), d)
         /\ CommitAndReply(r, d, mem)

(* await request.text().                                                   *)
AwaitBody(r) ==
    /\ Asked(r, "identity")
    /\ LET d == req[r].decision IN
         /\ ~KeylessRollback(d)
         /\ ~KnownKey(mem, d.key)
         /\ req' = [req EXCEPT ![r] = Waiting("body", d)]
    /\ UNCHANGED <<store, up, promised>>

(* 400: the body is not a catalog decision.                                *)
RefuseBody(r) == Asked(r, "body") /\ Answer(r)

(* decideCatalog looks the key up again, and now finds it.                 *)
JoinEarlier(r) ==
    /\ Asked(r, "body")
    /\ LET d == req[r].decision IN
         /\ Reviewable(mem, d)
         /\ KnownKey(mem, d.key)
         /\ CommitAndReply(r, d, mem)

(* 409: nothing to approve, to review or to restore.                       *)
RefuseUndecidable(r) ==
    /\ Asked(r, "body")
    /\ LET d == req[r].decision IN
         \/ ~Reviewable(mem, d)
         \/ ~KnownKey(mem, d.key) /\ ~CanDecide(mem, d)
    /\ Answer(r)

(* Mutant: the key is looked up only before the body is awaited.           *)
DecideUnchecked(r) ==
    /\ Asked(r, "body")
    /\ LET d == req[r].decision IN
         /\ CanDecide(mem, d)
         /\ Len(mem.ledger) < MaxLedger
         /\ CommitAndReply(r, d, Decided(mem, d))

Decide(r) ==
    /\ Asked(r, "body")
    /\ LET d == req[r].decision IN
         /\ ~KnownKey(mem, d.key)
         /\ CanDecide(mem, d)
         /\ Len(mem.ledger) < MaxLedger
         /\ CommitAndReply(r, d, Decided(mem, d))

-----------------------------------------------------------------------------
(* The other writers of the registry file.                                 *)

Commit(next) == Stored(next) \/ Unconfirmed(next)

(* handleCatalogProposal, or the catalog part of a registration: check and *)
(* save run without an await between them.                                 *)
Submit(t, p) ==
    /\ up
    /\ CanSubmit(mem, t, p)
    /\ Commit(Submitted(mem, t, p))
    /\ UNCHANGED <<up, req, promised>>

(* persist: tools, addresses or exposures changed; the file is rewritten   *)
(* with the catalog in memory.                                             *)
Persist ==
    /\ up
    /\ Commit(mem)
    /\ UNCHANGED <<up, req, promised>>

-----------------------------------------------------------------------------
(* The process.                                                            *)

DropRequests == req' = [r \in Requests |-> Quiet]

(* applyCoreCatalogSeed at a start, one commit per listed tool.            *)
SeedTool(t) ==
    /\ ~up
    /\ NeedsSeed(mem, t)
    /\ Stored(Seeded(mem, t))
    /\ UNCHANGED <<up, req, promised>>

(* A commit that throws ends the start; the next one loads the file again. *)
SeedFails(t) ==
    /\ ~up
    /\ NeedsSeed(mem, t)
    /\ Cardinality(durable) <= MaxUnsettled
    /\ disk' = Seeded(mem, t)
    /\ durable' = durable \cup {disk'}
    /\ mem' = disk'
    /\ UNCHANGED <<up, req, promised, confirmed>>

(* Nothing left to seed: setCatalogSeedVersion saves the catalog on the    *)
(* first start, and requests are served.                                   *)
Serve ==
    /\ ~up
    /\ \A t \in Tools : ~NeedsSeed(mem, t)
    /\ Stored(mem) \/ Failed
    /\ up' = TRUE
    /\ UNCHANGED <<req, promised>>

(* The process dies; the file keeps what was last written.                 *)
Kill ==
    /\ mem' = disk
    /\ up' = FALSE
    /\ DropRequests
    /\ UNCHANGED <<disk, durable, promised, confirmed>>

PowerLoss ==
    /\ disk' \in durable
    /\ mem' = disk'
    /\ durable' = {disk'}
    /\ up' = FALSE
    /\ DropRequests
    /\ UNCHANGED <<promised, confirmed>>

ProposalsUpTo(v) == [version : 1..v, body : Bodies]

Handler(r) ==
    \/ \E d \in Offered : Arrive(r, d)
    \/ RefuseIdentity(r)
    \/ RefuseKeyless(r)
    \/ RefuseForeignKey(r)
    \/ Replay(r)
    \/ AwaitBody(r)
    \/ RefuseBody(r)
    \/ JoinEarlier(r)
    \/ RefuseUndecidable(r)
    \/ Decide(r)

Process ==
    \/ \E t \in Tools : SeedTool(t) \/ SeedFails(t)
    \/ Serve
    \/ Kill
    \/ PowerLoss

Next ==
    \/ \E r \in Requests : Handler(r)
    \/ \E t \in Tools, p \in ProposalsUpTo(MaxVersion) : Submit(t, p)
    \/ Persist
    \/ Process

Spec == Init /\ [][Next]_vars

-----------------------------------------------------------------------------
(* Properties.  The snapshots are every catalog that is, or that a start   *)
(* may make, the catalog in memory.                                        *)

Snapshots == {mem, disk} \cup durable

(* Exactly once: whatever retries, races, unconfirmed saves and restarts   *)
(* happen, no catalog holds two decisions made under one Idempotency-Key.  *)
OncePerKey(c) ==
    \A i, j \in 1..Len(c.ledger) :
        (c.ledger[i].key = c.ledger[j].key /\ c.ledger[i].key # NoKey) => i = j

KeyAppliedOnce == \A c \in Snapshots : OncePerKey(c)

(* A keyed decision that was answered 200 is, under its key, in the ledger *)
(* of every catalog a restart can bring back, so every later retry finds   *)
(* it: the replay persists "before acknowledging" (registry.ts).  Except a *)
(* request whose key another one used while its body was awaited.  It is   *)
(* answered 200 as well, but with the other's decision: the ledgers keep   *)
(* the key, so nothing more is decided under it, but not what was asked,   *)
(* and a retry of that is refused.                                         *)
ConfirmedKeySurvives ==
    \A p \in promised : \A c \in Snapshots :
        /\ KnownKey(c, p.decision.key)
        /\ ~p.joined => SameDecision(FirstWithKey(c, p.decision.key), p.decision)

(* Nothing rewrites history: the ledger of the last confirmed save begins  *)
(* every ledger in memory, on disk or recoverable.                         *)
ConfirmedLedgerKept ==
    \A c \in Snapshots : IsPrefix(confirmed, c.ledger)

(* The catalog and its audit trail are one write ("Catalog state and its   *)
(* audit event share one atomic registry write"): what is approved is what *)
(* the last decision about the tool says, unless the seed approved it.     *)
EventsOf(c, t) == {i \in 1..Len(c.ledger) : c.ledger[i].tool = t}

LatestFor(c, t, i) ==
    i \in EventsOf(c, t) /\ \A j \in EventsOf(c, t) : j <= i

Explained(c, t) ==
    \/ c.approved[t] # None /\ c.approved[t].by = Seeder
    \/ EventsOf(c, t) = {} /\ c.approved[t] = None
    \/ \E i \in EventsOf(c, t) :
         LatestFor(c, t, i) /\ c.ledger[i].approved = c.approved[t]

LedgerExplainsApproval == \A c \in Snapshots, t \in Tools : Explained(c, t)

(* A tool shown as approved has an approval, and no newer proposal waits   *)
(* behind it: through proposals, approvals, rollbacks and the seed.        *)
ReviewMatches(c) ==
    \A t \in Tools :
        HasRecord(c, t) /\ ReviewStatus(c, t) = "approved" =>
            c.approved[t] # None /\ ~Outdated(c, t, c.approved[t])

ReviewConsistent == \A c \in Snapshots : ReviewMatches(c)

(* No swap behind an approval: a proposal that carries the version of an   *)
(* operator's approval, in force or still on the rollback stack, is the    *)
(* proposal the operator approved.                                         *)
Granted(c, t) ==
    {a \in {c.approved[t]} \cup {c.history[t][i] : i \in 1..Len(c.history[t])} :
        a # None /\ a.by # Seeder}

Vetted(c) ==
    \A t \in Tools : \A a \in Granted(c, t) :
        (c.proposals[t] # None /\ c.proposals[t].version = a.version) =>
            c.proposals[t].body = a.body

NoSwapBehindApproval == \A c \in Snapshots : Vetted(c)

(* What the 409 "Idempotency-Key already belongs to another catalog        *)
(* decision" says: one key never confirms two different decisions.         *)
OneDecisionPerKey ==
    \A p, q \in promised : p.decision.key = q.decision.key => p.decision = q.decision
=============================================================================
