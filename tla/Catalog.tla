------------------------------ MODULE Catalog ------------------------------
(***************************************************************************)
(* The review catalog inside the tool registry, as a value: what tools     *)
(* proposed, what was approved, the stack of replaced approvals that a     *)
(* rollback pops, and the ledger of decisions.  The operators are the      *)
(* pure part of src/systems-api/registry.ts: each maps a catalog to the    *)
(* next one, and the callers decide when it is stored.                     *)
(*                                                                         *)
(* A proposal is its version and its "body" (shelves, audiences and the    *)
(* other descriptive fields); an approval also records who granted it.     *)
(* Both are what is left after validation: every writer and every load     *)
(* refuses the rest.                                                       *)
(***************************************************************************)
EXTENDS Naturals, Sequences

CONSTANTS
    Tools,      \* tool ids
    Actors,     \* operators who may decide
    Keys,       \* Idempotency-Key header values
    NoKey,      \* the header is missing
    Bodies,     \* contents of proposals
    None,       \* no proposal, or no approval
    SeedTools,  \* registered tools listed in CORE_CATALOG_SEED
    SeedVersion \* CATALOG_SEED_VERSION

Version == Nat \ {0}
Seeder == "core-catalog-seed"

Proposal == [version : Version, body : Bodies]
Approval == [version : Version, body : Bodies \cup {"seed"},
             by : Actors \cup {Seeder}]
ASSUME CatalogAssumption ==
    /\ NoKey \notin Keys
    /\ SeedTools \subseteq Tools
    /\ SeedVersion \in Nat \ {0}
    /\ Seeder \notin Actors
    /\ "seed" \notin Bodies
    /\ None \notin Proposal
    /\ None \notin Approval

Action == {"approve", "defer", "reject", "rollback"}
Review == {"none", "pending", "approved", "deferred", "rejected"}

(* What a client asks for, and the ledger's record of it: the              *)
(* ObservabilityEvent of type "catalog-approval".  Of the event's newValue *)
(* only the approval in force afterwards is kept.                          *)
Decision == [tool : Tools, action : Action, actor : Actors,
             key : Keys \cup {NoKey}]
Event == [tool : Tools, action : Action, actor : Actors,
          key : Keys \cup {NoKey}, approved : Approval \cup {None}]

CatalogType ==
    [proposals : [Tools -> Proposal \cup {None}],
     approved  : [Tools -> Approval \cup {None}],
     history   : [Tools -> Seq(Approval \cup {None})],
     reviews   : [Tools -> Review],
     ledger    : Seq(Event)]

EmptyCatalog ==
    [proposals |-> [t \in Tools |-> None],
     approved  |-> [t \in Tools |-> None],
     history   |-> [t \in Tools |-> << >>],
     reviews   |-> [t \in Tools |-> "none"],
     ledger    |-> << >>]

-----------------------------------------------------------------------------
(* Proposals.                                                              *)

(* Mutant: another proposal of the approved version is accepted.           *)
CanSubmitSameVersion(c, t, p) ==
    c.approved[t] # None => p.version >= c.approved[t].version

(* canSubmitCatalogProposal: never below the approved version, and at that *)
(* version only the proposal that is already there.                        *)
CanSubmit(c, t, p) ==
    c.approved[t] # None =>
        \/ p.version > c.approved[t].version
        \/ p.version = c.approved[t].version /\ c.proposals[t] = p

(* saveCatalogProposal: a proposal that differs asks for a new review.     *)
Submitted(c, t, p) ==
    [c EXCEPT !.proposals[t] = p,
              !.reviews[t] = IF c.proposals[t] # p THEN "pending" ELSE @]

-----------------------------------------------------------------------------
(* Decisions.                                                              *)

(* Whether the proposal on file is newer than an approval.                 *)
Outdated(c, t, approval) ==
    /\ c.proposals[t] # None
    /\ c.proposals[t].version > approval.version

(* Mutant: an approval always ends the review.                             *)
ApprovedForGood(c, t, approval) ==
    [c EXCEPT !.history[t] = Append(@, c.approved[t]),
              !.approved[t] = approval,
              !.reviews[t] = "approved"]

(* catalogRecord: the record of a tool that has one, and the review status *)
(* that it shows, also of a registry that has none on file.                *)
HasRecord(c, t) == c.proposals[t] # None \/ c.approved[t] # None

ReviewStatus(c, t) ==
    IF c.reviews[t] # "none" THEN c.reviews[t]
    ELSE IF /\ c.proposals[t] # None
            /\ c.approved[t] # None => Outdated(c, t, c.approved[t])
         THEN "pending" ELSE "approved"

(* applyApproval.                                                          *)
Approved(c, t, approval) ==
    [c EXCEPT !.history[t] = Append(@, c.approved[t]),
              !.approved[t] = approval,
              !.reviews[t] = IF Outdated(c, t, approval) THEN "pending"
                             ELSE "approved"]

(* applyReview.                                                            *)
Reviewed(c, t, status) == [c EXCEPT !.reviews[t] = status]

(* applyRollback, for a tool whose stack is not empty.                     *)
RolledBack(c, t) ==
    LET h == c.history[t]
        previous == h[Len(h)]
    IN  [c EXCEPT !.history[t] = SubSeq(h, 1, Len(h) - 1),
                  !.approved[t] = previous,
                  !.reviews[t] =
                     IF previous # None /\ ~Outdated(c, t, previous)
                     THEN "approved" ELSE "pending"]

(* handleCatalogDecision approves the proposal on file, in its version.    *)
ApprovalOf(c, t, actor) ==
    [version |-> c.proposals[t].version, body |-> c.proposals[t].body, by |-> actor]

(* What the handler checks before it decides; otherwise it answers 409.    *)
Reviewable(c, d) ==
    IF d.action = "rollback" THEN c.approved[d.tool] # None
    ELSE c.proposals[d.tool] # None

(* applyRollback answers false, and the handler 409, on an empty stack.    *)
CanDecide(c, d) ==
    /\ Reviewable(c, d)
    /\ d.action = "rollback" => c.history[d.tool] # << >>

Applied(c, d) ==
    CASE d.action = "approve"  -> Approved(c, d.tool, ApprovalOf(c, d.tool, d.actor))
      [] d.action = "rollback" -> RolledBack(c, d.tool)
      [] d.action = "defer"    -> Reviewed(c, d.tool, "deferred")
      [] d.action = "reject"   -> Reviewed(c, d.tool, "rejected")

(* decideCatalog: the change and its event make one next catalog.          *)
EventOf(c, d) ==
    [tool |-> d.tool, action |-> d.action, actor |-> d.actor, key |-> d.key,
     approved |-> c.approved[d.tool]]

(* Mutant: the event describes the catalog before the change.              *)
DecidedEventFirst(c, d) ==
    [Applied(c, d) EXCEPT !.ledger = Append(@, EventOf(c, d))]

Decided(c, d) ==
    LET next == Applied(c, d)
    IN  [next EXCEPT !.ledger = Append(@, EventOf(next, d))]

(* findCatalogDecisionByKey: the positions of a key in the ledger.         *)
WithKey(c, key) == {i \in 1..Len(c.ledger) : c.ledger[i].key = key}

KnownKey(c, key) == key # NoKey /\ WithKey(c, key) # {}

FirstWithKey(c, key) ==
    c.ledger[CHOOSE i \in WithKey(c, key) : \A j \in WithKey(c, key) : i <= j]

(* The earlier decision under this key is this very decision.              *)
SameDecision(e, d) == e.tool = d.tool /\ e.actor = d.actor /\ e.action = d.action

-----------------------------------------------------------------------------
(* applyCoreCatalogSeed approves a listed tool that has no approval, or    *)
(* one below the seed's version; it adds no event to the ledger.           *)
NeedsSeed(c, t) ==
    /\ t \in SeedTools
    /\ c.approved[t] # None => c.approved[t].version < SeedVersion

SeedApproval == [version |-> SeedVersion, body |-> "seed", by |-> Seeder]

Seeded(c, t) == Approved(c, t, SeedApproval)
=============================================================================
