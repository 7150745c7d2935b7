---------------------------- MODULE ControlPlane ----------------------------
(***************************************************************************)
(* Nodes and their trust: src/control-plane/*.ts, the trust handlers of    *)
(* src/api/handlers.ts and the interval of src/server.ts.                  *)
(*                                                                         *)
(* A node has a status, which scheduling asks for, and a trust state with  *)
(* a lease, which operators and time change; each operation changes both   *)
(* in its own way.  Every registration makes a new node, so a node is its  *)
(* number in the registration order.  No operation removes one, but a      *)
(* start drops those it cannot read back: a registration may leave the     *)
(* name, the region or the zone empty, a stored node may not.  The state   *)
(* is saved as in StateCell; a trust handler stores an event after it.     *)
(* refreshNodeHeartbeat has no caller and is left out.                     *)
(***************************************************************************)
EXTENDS Faults, FiniteSets

CONSTANTS
    Replicas,       \* what plans ask for, in halves: the API takes 1.5
    Ttl,            \* NEXUS_CLOUD_NODE_TRUST_TTL_HOURS
    MaxNodes,       \* bound: registrations
    MaxClock        \* bound: time

ASSUME NumbersAssumption ==
    /\ Replicas \subseteq Int
    /\ Ttl \in Nat \ {0}
    /\ MaxNodes \in Nat
    /\ MaxClock \in Nat

Status == {"pending", "ready", "draining", "offline"}
Trust == {"pending", "verified", "trusted", "quarantined", "revoked", "expired"}
Node == [placed : BOOLEAN, status : Status, trust : Trust, lease : Nat]

(* The nodes, by their numbers, are all that is kept of the platform       *)
(* state: a plan stores its workload with them, which nothing here reads.  *)
NoNodes == [i \in {} |-> {}]
IsState(s) == s \in [DOMAIN s -> Node]

(* The answer to a plan.                                                   *)
NoDecisions == [i \in {} |-> 0]
NoPlan == [status |-> 0, asked |-> 0, decisions |-> NoDecisions]

VARIABLES
    clock,
    registered, \* registrations so far
    plan,       \* the answer, if the last step was a plan
    refused     \* nodes quarantined or revoked, answered 200, not promoted since

vars == <<cell, clock, up, faults, registered, plan, refused>>

TypeOK ==
    /\ \A s \in Views : IsState(s) /\ DOMAIN s \subseteq 1..registered
    /\ clock \in Nat
    /\ up \in BOOLEAN
    /\ faults \in Nat
    /\ registered \in Nat
    /\ plan.status \in {0, 200, 409, 422, 503}
    /\ plan.asked \in Int
    /\ refused \subseteq 1..registered

Init ==
    /\ StartsWith(NoNodes)
    /\ clock = 0
    /\ up = TRUE
    /\ faults = 0
    /\ registered = 0
    /\ plan = NoPlan
    /\ refused = {}

NoAnswer == plan' = NoPlan

-----------------------------------------------------------------------------
(* Registration and the operator's trust actions.                          *)

(* isRegisterNodeRequest asks for strings, that may be empty.              *)
Registered(placed) ==
    [placed |-> placed, status |-> "ready", trust |-> "verified", lease |-> clock + Ttl]

Promoted(n) ==
    [n EXCEPT !.trust = "trusted",
              !.lease = clock + Ttl,
              !.status = IF @ = "offline" THEN "pending" ELSE @]

(* Mutant: the scheduler's own look at the trust state is relied on.       *)
QuarantinedStillReady(n) == [n EXCEPT !.trust = "quarantined"]

Quarantined(n) ==
    [n EXCEPT !.trust = "quarantined",
              !.status = IF @ = "ready" THEN "draining" ELSE @]

Revoked(n) == [n EXCEPT !.trust = "revoked", !.status = "offline"]

(* The request ends with its one save.                                     *)
Single(next) ==
    \/ Saved(next) /\ NoFault
    \/ NotSaved(next) /\ Fault

WithNode(s, i, n) == [j \in DOMAIN s \cup {i} |-> IF j = i THEN n ELSE s[j]]

Register ==
    /\ up
    /\ registered < MaxNodes
    /\ registered' = registered + 1
    /\ \E placed \in BOOLEAN :
          Single(WithNode(mem, registered + 1, Registered(placed)))
    /\ NoAnswer
    /\ UNCHANGED <<clock, up, refused>>

(* Mutant: no event is stored, the backup keeps the state before.          *)
ActWithoutEvent(i, after, barred) ==
    Saved([mem EXCEPT ![i] = after]) /\ NoFault /\ refused' = barred

(* handleNodeTrustAction, and each operation of handleNodeTrustBulk: the   *)
(* action, then its event.  "barred" is "refused" if it is answered 200.   *)
Act(i, after, barred) ==
    LET next == [mem EXCEPT ![i] = after] IN
    \/ SavedTwice(next) /\ NoFault /\ refused' = barred
    \/ (SavedOnce(next) \/ NotSaved(next)) /\ Fault /\ refused' = refused \cap barred

Promote(i) == Act(i, Promoted(mem[i]), refused \ {i})
Quarantine(i) == Act(i, Quarantined(mem[i]), refused \cup {i})
Revoke(i) == Act(i, Revoked(mem[i]), refused \cup {i})

TrustAction ==
    /\ up
    /\ \E i \in DOMAIN mem : Promote(i) \/ Quarantine(i) \/ Revoke(i)
    /\ NoAnswer
    /\ UNCHANGED <<clock, up, registered>>

-----------------------------------------------------------------------------
(* Planning: policy, quota, then the workload is stored and scheduled.     *)

Eligible(n) == n.trust \notin {"quarantined", "revoked", "expired"}
Schedulable(n) == n.status = "ready" /\ Eligible(n)

ReadyNodes == {i \in DOMAIN mem : Schedulable(mem[i])}

(* Where the filter of the scheduler puts node i among the ready ones.     *)
Index(i) == Cardinality({j \in ReadyNodes : j < i})

(* Mutant: whole replicas are assumed.                                     *)
ShareTruncated(asked, i) ==
    LET n == Cardinality(ReadyNodes)
        base == asked \div (2 * n)
        remainder == (asked \div 2) % n
    IN  base + (IF Index(i) < remainder THEN 1 ELSE 0)

(* What ready node i is given.                                             *)
Share(asked, i) ==
    LET n == Cardinality(ReadyNodes)
        base == asked \div (2 * n)
        remainder == asked % (2 * n)
    IN  base + (IF 2 * Index(i) < remainder THEN 1 ELSE 0)

(* Nodes that are given nothing are left out.                              *)
Decisions(asked) ==
    [i \in {j \in ReadyNodes : Share(asked, j) > 0} |-> Share(asked, i)]

Answer(status, asked, decisions) ==
    plan' = [status |-> status, asked |-> asked, decisions |-> decisions]

PolicyAllows(asked) == asked >= 2 /\ \E i \in DOMAIN mem : Eligible(mem[i])

PolicyRefuses(asked) ==
    /\ ~PolicyAllows(asked)
    /\ Answer(409, asked, NoDecisions)
    /\ UNCHANGED <<cell, faults>>

QuotaRefuses(asked) ==
    /\ PolicyAllows(asked)
    /\ Answer(422, asked, NoDecisions)
    /\ UNCHANGED <<cell, faults>>

(* The workload is stored before there is a node for it.                   *)
Schedule(asked) ==
    /\ PolicyAllows(asked)
    /\ \/ /\ Saved(mem) /\ NoFault
          /\ Answer(IF DOMAIN Decisions(asked) = {} THEN 503 ELSE 200, asked, Decisions(asked))
       \/ NotSaved(mem) /\ Fault /\ plan' = NoPlan

Plan ==
    /\ up
    /\ \E asked \in Replicas :
          PolicyRefuses(asked) \/ QuotaRefuses(asked) \/ Schedule(asked)
    /\ UNCHANGED <<clock, up, registered, refused>>

-----------------------------------------------------------------------------
(* The 30-second interval: four functions in one callback.                 *)

Lapsed(n) == n.lease <= clock

(* Mutant: the loop leaves quarantined nodes alone as well.                *)
ExpiredUnlessQuarantined(n) ==
    IF Lapsed(n) /\ Eligible(n)
    THEN [n EXCEPT !.trust = "expired", !.status = IF @ = "ready" THEN "pending" ELSE @]
    ELSE n

Expired(n) ==
    IF Lapsed(n) /\ n.trust \notin {"revoked", "expired"}
    THEN [n EXCEPT !.trust = "expired", !.status = IF @ = "ready" THEN "pending" ELSE @]
    ELSE n

AfterExpiry == [i \in DOMAIN mem |-> Expired(mem[i])]

(* The expiry of nodes is stored, then that of peers.                      *)
Interval ==
    /\ up
    /\ SavedTwice(AfterExpiry)
    /\ NoAnswer
    /\ UNCHANGED <<clock, up, faults, registered, refused>>

(* An earlier function throws, the expiry of nodes does, or that of peers. *)
(* Nothing catches it: the process may end or go on.                       *)
IntervalThrows ==
    /\ up
    /\ Fault
    /\ \/ UNCHANGED cell
       \/ NotSaved(AfterExpiry)
       \/ SavedOnce(AfterExpiry)
    /\ up' \in BOOLEAN
    /\ NoAnswer
    /\ UNCHANGED <<clock, registered, refused>>

-----------------------------------------------------------------------------
Tick ==
    /\ clock < MaxClock
    /\ clock' = clock + 1
    /\ NoAnswer
    /\ UNCHANGED <<cell, up, faults, registered, refused>>

(* Killed between two requests; within one it is the failure of its next   *)
(* save, followed by this.                                                 *)
Kill ==
    /\ up
    /\ up' = FALSE
    /\ NoAnswer
    /\ UNCHANGED <<cell, clock, faults, registered, refused>>

(* sanitizeNodeSpec: a status or a trust state of another program's file   *)
(* is as good as none.                                                     *)
NodeLoaded(n) ==
    [n EXCEPT !.status = IF @ \in Status THEN @ ELSE "pending",
              !.trust = IF @ \in Trust THEN @ ELSE "pending"]

(* sanitizeState.                                                          *)
NodesLoaded(s) == [i \in {j \in DOMAIN s : s[j].placed} |-> NodeLoaded(s[i])]

Start ==
    /\ ~up
    /\ up' = TRUE
    /\ LoadedAs(NodesLoaded(disk), NodesLoaded(older))
    /\ NoAnswer
    /\ UNCHANGED <<clock, faults, registered, refused>>

Next ==
    \/ Register \/ TrustAction \/ Plan
    \/ Interval \/ IntervalThrows
    \/ Tick \/ Kill \/ Start

Spec == Init /\ [][Next]_vars

(* The event loop keeps firing the interval while the process runs; faults *)
(* are finite.  Nothing is assumed of clients, operators or a supervisor.  *)
FairSpec == Spec /\ WF_vars(Interval)

-----------------------------------------------------------------------------
(* runWorkload of the data plane takes the first node whose status is      *)
(* "ready" and does not look at its trust (src/data-plane/service.ts:197): *)
(* that is right only if no sequence of trust actions, expiries, failed    *)
(* saves and restarts makes a ready node that is not trusted.              *)
Trusting(s) ==
    \A i \in DOMAIN s :
        s[i].status = "ready" => s[i].trust \in {"verified", "trusted"}

ReadyIsTrusted == \A s \in Views : Trusting(s)

(* A node whose quarantine or revocation was answered 200 is given no work *)
(* until an operator asks to promote it, not even after a restart that     *)
(* loads the backup: the event stored after the action carries it there.   *)
Keeps(s, barred) ==
    \A i \in barred \cap DOMAIN s :
        /\ s[i].status # "ready"
        /\ ~Eligible(s[i])

RefusalHolds == \A s \in Views : Keeps(s, refused)

(* The replicas a plan places, one by one, and how many node i gets.       *)
Placed(given) == UNION {{i} \X (1..given[i]) : i \in DOMAIN given}
Given(given, i) == IF i \in DOMAIN given THEN given[i] ELSE 0

(* An accepted plan gives ready, eligible nodes, and no others, together   *)
(* the smallest whole number of replicas that covers the request, no two   *)
(* of them more than one apart, and it is 503 only if there is no such     *)
(* node: planWorkload of the scheduler, also for a request of 1.5 replicas *)
(* or for fewer replicas than nodes.                                       *)
PlanCoversRequest ==
    LET able == ReadyNodes
        given == plan.decisions
    IN  plan.status \in {200, 503} =>
          /\ (plan.status = 503) = (able = {})
          /\ DOMAIN given \subseteq able
          /\ able # {} => Cardinality(Placed(given)) = (plan.asked + 1) \div 2
          /\ \A i, j \in able : Given(given, i) - Given(given, j) \in -1..1

(* While the process runs, a node whose lease has lapsed is eventually     *)
(* expired, revoked or promoted: nothing but the interval notices a lapse. *)
Unnoticed(i) ==
    /\ up
    /\ i \in DOMAIN mem
    /\ Lapsed(mem[i])
    /\ mem[i].trust \notin {"revoked", "expired"}

LapseIsNoticed == \A i \in 1..MaxNodes : Unnoticed(i) ~> ~Unnoticed(i)
=============================================================================
