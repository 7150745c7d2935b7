------------------------- MODULE ControlPlaneProofs -------------------------
(***************************************************************************)
(* Proofs about ControlPlane, for any number of nodes, faults and          *)
(* restarts.  Each property is one of every view of the state, so the       *)
(* argument has two halves: what a save, whatever becomes of it, leaves in *)
(* the views, and that each operation turns a good state into a good one.  *)
(***************************************************************************)
EXTENDS ControlPlane, FiniteSetTheorems, TLAPS

(* A view that is well formed, trusts its ready nodes and keeps refusals.  *)
Good(s, barred) == IsState(s) /\ Trusting(s) /\ Keeps(s, barred)

AllGood == \A s \in Views : Good(s, refused) /\ DOMAIN s \subseteq 1..registered

LocalType ==
    /\ clock \in Nat
    /\ up \in BOOLEAN
    /\ faults \in Nat
    /\ registered \in Nat
    /\ plan.status \in {0, 200, 409, 422, 503}
    /\ plan.asked \in Int
    /\ refused \subseteq 1..registered

IInv == LocalType /\ AllGood

-----------------------------------------------------------------------------
(* One save leaves nothing in the views but the state before and the new   *)
(* one (mutateState).                                                      *)
LEMMA OneSave ==
    ASSUME NEW next, Saved(next) \/ SavedOnce(next) \/ NotSaved(next)
    PROVE  Views' \subseteq Views \cup {next}
BY DEF Saved, SavedOnce, NotSaved, Interrupted, Undone, Views

(* Two saves leave nothing but the new state.                              *)
LEMMA TwoSaves ==
    ASSUME NEW next, SavedTwice(next)
    PROVE  Views' = {next}
BY DEF SavedTwice, Views

(* What is read back of a file is part of it, as it was (sanitizeState).   *)
LEMMA LoadedPart ==
    ASSUME NEW s, IsState(s)
    PROVE  /\ DOMAIN NodesLoaded(s) = {i \in DOMAIN s : s[i].placed}
           /\ \A i \in DOMAIN NodesLoaded(s) : NodesLoaded(s)[i] = s[i]
           /\ IsState(NodesLoaded(s))
<1>1. DOMAIN NodesLoaded(s) = {i \in DOMAIN s : s[i].placed}
  BY DEF NodesLoaded
<1>2. ASSUME NEW i \in DOMAIN NodesLoaded(s) PROVE NodesLoaded(s)[i] = s[i] /\ s[i] \in Node
  <2>1. s[i] \in Node
    BY <1>1 DEF IsState
  <2>2. NodeLoaded(s[i]) = s[i]
    BY <2>1 DEF Node, NodeLoaded
  <2> QED BY <1>1, <2>1, <2>2 DEF NodesLoaded
<1>3. IsState(NodesLoaded(s))
  BY <1>2 DEF NodesLoaded, IsState
<1> QED BY <1>1, <1>2, <1>3

(* So the nodes that sanitizeNodeSpec keeps of a good list are a good list. *)
LEMMA LoadedGood ==
    ASSUME NEW s, NEW barred, NEW n, Good(s, barred), DOMAIN s \subseteq 1..n
    PROVE  Good(NodesLoaded(s), barred) /\ DOMAIN NodesLoaded(s) \subseteq 1..n
<1>1. IsState(s)
  BY DEF Good
<1> QED BY <1>1, LoadedPart DEF Good, Trusting, Keeps

(* A start brings nothing that the files do not have (loadStateWithRecovery). *)
LEMMA LoadAddsNothing ==
    ASSUME NEW primary, NEW backup, LoadedAs(primary, backup)
    PROVE  Views' \subseteq Views \cup {primary, backup}
BY DEF LoadedAs, Views

(* Fewer refusals are easier to keep.                                      *)
LEMMA FewerRefusals ==
    ASSUME NEW s, NEW barred, NEW fewer \in SUBSET barred, Good(s, barred)
    PROVE  Good(s, fewer)
BY DEF Good, Keeps

-----------------------------------------------------------------------------
(* What each operation makes of one node.                                  *)
LEMMA NodeSteps ==
    ASSUME NEW n \in Node, clock \in Nat
    PROVE  /\ Promoted(n) \in Node
           /\ Quarantined(n) \in Node
           /\ Revoked(n) \in Node
           /\ Expired(n) \in Node
           /\ \A placed \in BOOLEAN :
                 Registered(placed) \in Node /\ Registered(placed).trust = "verified"
           /\ Promoted(n).trust = "trusted"
           /\ Quarantined(n).status # "ready" /\ ~Eligible(Quarantined(n))
           /\ Revoked(n).status # "ready" /\ ~Eligible(Revoked(n))
           /\ Expired(n).status = "ready" => Expired(n) = n
           /\ ~Eligible(n) => ~Eligible(Expired(n))
           /\ n.status # "ready" => Expired(n).status # "ready"
<1>1. clock + Ttl \in Nat /\ n = [placed |-> n.placed, status |-> n.status, trust |-> n.trust, lease |-> n.lease]
  BY NumbersAssumption DEF Node
<1>2. /\ \A placed \in BOOLEAN :
            Registered(placed) \in Node /\ Registered(placed).trust = "verified"
      /\ Promoted(n) \in Node /\ Promoted(n).trust = "trusted"
  BY <1>1 DEF Node, Status, Trust, Promoted, Registered
<1>3. Quarantined(n) \in Node /\ Quarantined(n).status # "ready" /\ ~Eligible(Quarantined(n))
  BY <1>1 DEF Node, Status, Trust, Quarantined, Eligible
<1>4. Revoked(n) \in Node /\ Revoked(n).status # "ready" /\ ~Eligible(Revoked(n))
  BY <1>1 DEF Node, Status, Trust, Revoked, Eligible
<1>5. CASE Lapsed(n) /\ n.trust \notin {"revoked", "expired"}
  BY <1>1, <1>2, <1>3, <1>4, <1>5 DEF Node, Status, Trust, Expired, Eligible
<1>6. CASE ~(Lapsed(n) /\ n.trust \notin {"revoked", "expired"})
  BY <1>2, <1>3, <1>4, <1>6 DEF Expired
<1> QED BY <1>5, <1>6

(* Putting one good node in place of another.                              *)
LEMMA PutNode ==
    ASSUME NEW s, NEW barred, Good(s, barred),
           NEW i \in DOMAIN s, NEW after \in Node,
           after.status = "ready" => after.trust \in {"verified", "trusted"}
    PROVE  /\ DOMAIN [s EXCEPT ![i] = after] = DOMAIN s
           /\ Good([s EXCEPT ![i] = after], barred \ {i})
           /\ after.status # "ready" /\ ~Eligible(after)
                => Good([s EXCEPT ![i] = after], barred \cup {i})
<1> DEFINE t == [s EXCEPT ![i] = after]
<1>1. s \in [DOMAIN s -> Node]
  BY DEF Good, IsState
<1>2. /\ IsState(t)
      /\ DOMAIN t = DOMAIN s
      /\ t[i] = after
      /\ \A j \in DOMAIN s : j # i => t[j] = s[j]
  BY <1>1 DEF IsState
<1>3. Trusting(t)
  BY <1>2 DEF Good, Trusting
<1>4. Keeps(t, barred \ {i})
  BY <1>2 DEF Good, Keeps
<1>5. ASSUME after.status # "ready", ~Eligible(after) PROVE Keeps(t, barred \cup {i})
  BY <1>2, <1>5 DEF Good, Keeps
<1> QED BY <1>2, <1>3, <1>4, <1>5 DEF Good

(* A registration adds a verified node, which nobody has refused.          *)
LEMMA AddNode ==
    ASSUME NEW s, NEW barred, Good(s, barred), NEW i, i \notin barred,
           NEW n \in Node, n.trust = "verified"
    PROVE  Good(WithNode(s, i, n), barred) /\ DOMAIN WithNode(s, i, n) = DOMAIN s \cup {i}
<1> DEFINE t == WithNode(s, i, n)
<1>1. /\ DOMAIN t = DOMAIN s \cup {i}
      /\ t[i] = n
      /\ \A j \in DOMAIN s : j # i => t[j] = s[j]
  BY DEF WithNode
<1>2. \A j \in DOMAIN t : t[j] \in Node
  BY <1>1 DEF Good, IsState
<1>3. IsState(t)
  BY <1>2 DEF IsState, WithNode
<1>4. Trusting(t)
  BY <1>1 DEF Good, Trusting
<1>5. Keeps(t, barred)
  BY <1>1 DEF Good, Keeps
<1> QED BY <1>1, <1>3, <1>4, <1>5 DEF Good

(* An expiry makes no node ready and none eligible.                        *)
LEMMA ExpireNodes ==
    ASSUME clock \in Nat, Good(mem, refused)
    PROVE  Good(AfterExpiry, refused) /\ DOMAIN AfterExpiry = DOMAIN mem
<1>1. \A i \in DOMAIN mem : mem[i] \in Node
  BY DEF Good, IsState
<1>2. /\ DOMAIN AfterExpiry = DOMAIN mem
      /\ \A i \in DOMAIN mem : AfterExpiry[i] = Expired(mem[i])
  BY DEF AfterExpiry
<1>3. \A i \in DOMAIN mem : Expired(mem[i]) \in Node
  BY <1>1, NodeSteps
<1>4. IsState(AfterExpiry)
  BY <1>3 DEF AfterExpiry, IsState
<1>5. Trusting(AfterExpiry)
  BY <1>1, <1>2, NodeSteps DEF Good, Trusting
<1>6. Keeps(AfterExpiry, refused)
  <2> SUFFICES ASSUME NEW i \in refused \cap DOMAIN mem
               PROVE  AfterExpiry[i].status # "ready" /\ ~Eligible(AfterExpiry[i])
    BY <1>2 DEF Keeps
  <2>1. mem[i].status # "ready" /\ ~Eligible(mem[i])
    BY DEF Good, Keeps
  <2> QED BY <1>1, <1>2, <2>1, NodeSteps
<1> QED BY <1>2, <1>4, <1>5, <1>6 DEF Good

-----------------------------------------------------------------------------
(* Arithmetic of the scheduler, for any finite set of nodes.               *)

(* How many elements of S come before i.                                   *)
Rank(S, i) == Cardinality({j \in S : j < i})

(* The first c indices of an array.                                        *)
LEMMA IndexCount ==
    ASSUME NEW c \in Nat
    PROVE  IsFiniteSet(0..(c - 1)) /\ Cardinality(0..(c - 1)) = c
<1>1. 0 \in Int /\ c - 1 \in Int
  OBVIOUS
<1>2. /\ IsFiniteSet(0..(c - 1))
      /\ Cardinality(0..(c - 1)) = IF 0 > c - 1 THEN 0 ELSE (c - 1) - 0 + 1
  BY <1>1, FS_Interval
<1> QED BY <1>2

(* The ranks of a finite set count it off.                                 *)
LEMMA RanksCount ==
    ASSUME NEW S \in SUBSET Nat, IsFiniteSet(S)
    PROVE  /\ Cardinality(S) \in Nat
           /\ [i \in S |-> Rank(S, i)] \in Bijection(S, 0..(Cardinality(S) - 1))
<1> DEFINE n == Cardinality(S)
           T == 0..(n - 1)
           f == [i \in S |-> Rank(S, i)]
<1>1. n \in Nat
  BY FS_CardinalityType
<1>2. \A i \in S : IsFiniteSet({j \in S : j < i}) /\ Rank(S, i) \in Nat
  BY FS_Subset, FS_CardinalityType DEF Rank
<1>r. \A i \in S : i \in Nat /\ Rank(S, i) \in Nat
  BY <1>2
<1>3. ASSUME NEW i \in S PROVE Rank(S, i) < n
  <2>1. {j \in S : j < i} \subseteq S \ {i}
    OBVIOUS
  <2>2. IsFiniteSet(S \ {i}) /\ Cardinality(S \ {i}) = n - 1
    BY FS_RemoveElement
  <2>3. Rank(S, i) <= n - 1
    BY <2>1, <2>2, FS_Subset DEF Rank
  <2> HIDE DEF n
  <2> QED BY <1>1, <1>r, <2>3
<1>4. ASSUME NEW i \in S, NEW k \in S, i < k PROVE Rank(S, i) < Rank(S, k)
  <2> DEFINE A == {j \in S : j < i}
             B == {j \in S : j < k}
  <2>1. IsFiniteSet(A) /\ i \notin A
    BY <1>2
  <2>2. IsFiniteSet(A \cup {i}) /\ Cardinality(A \cup {i}) = Cardinality(A) + 1
    BY <2>1, FS_AddElement
  <2>3. A \cup {i} \subseteq B /\ IsFiniteSet(B)
    <3>1. \A j \in S : j < i => j < k
      BY <1>4
    <3>2. IsFiniteSet(B)
      BY <1>2
    <3> QED BY <1>4, <3>1, <3>2
  <2>4. Cardinality(A \cup {i}) <= Cardinality(B)
    BY <2>3, FS_Subset
  <2>5. Cardinality(A) = Rank(S, i) /\ Cardinality(B) = Rank(S, k)
    BY DEF Rank
  <2> QED BY <1>2, <2>2, <2>4, <2>5
<1>5. f \in Injection(S, T)
  <2>1. f \in [S -> T]
    <3>1. ASSUME NEW i \in S PROVE Rank(S, i) \in T
      <4> HIDE DEF n
      <4> QED BY <1>1, <1>r, <1>3
    <3> QED BY <3>1
  <2>2. \A i, k \in S : f[i] = f[k] => i = k
    <3>1. ASSUME NEW i \in S, NEW k \in S, Rank(S, i) = Rank(S, k) PROVE i = k
      <4>1. i \in Nat /\ k \in Nat /\ Rank(S, i) \in Nat /\ Rank(S, k) \in Nat
        BY <1>2
      <4>2. ~(i < k) /\ ~(k < i)
        BY <1>4, <3>1, <4>1
      <4> QED BY <4>1, <4>2
    <3> QED BY <3>1
  <2> QED BY <2>1, <2>2 DEF Injection, IsInjective
<1>6. IsFiniteSet(T) /\ Cardinality(T) = n
  BY <1>1, IndexCount
<1>7. f \in Surjection(S, T)
  BY <1>5, <1>6, FS_Injection
<1> QED BY <1>1, <1>5, <1>7 DEF Bijection

(* So exactly c elements come first, second, ... or c-th.                  *)
LEMMA FirstRanks ==
    ASSUME NEW S \in SUBSET Nat, IsFiniteSet(S), NEW c \in Nat, c <= Cardinality(S)
    PROVE  /\ IsFiniteSet({i \in S : Rank(S, i) < c})
           /\ Cardinality({i \in S : Rank(S, i) < c}) = c
<1> DEFINE U == {i \in S : Rank(S, i) < c}
           f == [i \in S |-> Rank(S, i)]
           g == [i \in U |-> Rank(S, i)]
           T == 0..(c - 1)
<1>1. /\ Cardinality(S) \in Nat
      /\ \A i \in S : Rank(S, i) \in 0..(Cardinality(S) - 1)
      /\ \A i, k \in S : Rank(S, i) = Rank(S, k) => i = k
      /\ \A t \in 0..(Cardinality(S) - 1) : \E i \in S : Rank(S, i) = t
  <2>1. Cardinality(S) \in Nat /\ f \in Bijection(S, 0..(Cardinality(S) - 1))
    BY RanksCount
  <2>2. \A i \in S : f[i] = Rank(S, i)
    OBVIOUS
  <2> HIDE DEF f
  <2>3. /\ f \in [S -> 0..(Cardinality(S) - 1)]
        /\ \A i, k \in S : f[i] = f[k] => i = k
        /\ \A t \in 0..(Cardinality(S) - 1) : \E i \in S : f[i] = t
    BY <2>1 DEF Bijection, Injection, Surjection, IsInjective
  <2> QED BY <2>1, <2>2, <2>3
<1>2. g \in [U -> T]
  <2>1. \A i \in U : Rank(S, i) \in T
    BY <1>1
  <2> QED BY <2>1
<1>3. \A i, k \in U : g[i] = g[k] => i = k
  BY <1>1
<1>4. \A t \in T : \E i \in U : g[i] = t
  <2> SUFFICES ASSUME NEW t \in T PROVE \E i \in U : g[i] = t
    OBVIOUS
  <2>1. PICK i \in S : Rank(S, i) = t
    BY <1>1
  <2> QED BY <2>1
<1>5. g \in Injection(U, T) /\ g \in Surjection(U, T)
  BY <1>2, <1>3, <1>4 DEF Injection, Surjection, IsInjective
<1>6. IsFiniteSet(T) /\ Cardinality(T) = c
  BY IndexCount
<1>7. IsFiniteSet(U) /\ Cardinality(U) = Cardinality(T)
  BY <1>5, <1>6, FS_Injection
<1> QED BY <1>6, <1>7

(* The replicas placed when each node of S is given "base" of them and the *)
(* first c of S one more, those that are given nothing being left out.     *)
LEMMA SpreadCount ==
    ASSUME NEW S \in SUBSET Nat, IsFiniteSet(S), NEW base \in Nat,
           NEW c \in Nat, c <= Cardinality(S), NEW given,
           DOMAIN given = {i \in S : base + (IF Rank(S, i) < c THEN 1 ELSE 0) > 0},
           \A i \in DOMAIN given : given[i] = base + (IF Rank(S, i) < c THEN 1 ELSE 0)
    PROVE  Cardinality(Placed(given)) = Cardinality(S) * base + c
<1> DEFINE U == {i \in S : Rank(S, i) < c}
           A == S \X (1..base)
           f == [i \in U |-> <<i, base + 1>>]
           B == {<<i, base + 1>> : i \in U}
<1>1. IsFiniteSet(U) /\ Cardinality(U) = c
  BY FirstRanks
<1>2. IsFiniteSet(B) /\ Cardinality(B) = c
  <2>1. f \in Surjection(U, B) /\ f \in Injection(U, B)
    BY DEF Surjection, Injection, IsInjective
  <2> QED BY <1>1, <2>1, FS_Surjection
<1>3. IsFiniteSet(A) /\ Cardinality(A) = Cardinality(S) * base
  <2>1. IsFiniteSet(1..base) /\ Cardinality(1..base) = base
    BY FS_Interval
  <2> QED BY <2>1, FS_Product
<1>4. A \cap B = {}
  OBVIOUS
<1>5. Placed(given) = A \cup B
  <2>1. ASSUME NEW x \in Placed(given) PROVE x \in A \cup B
    <3>1. PICK i \in DOMAIN given : x \in {i} \X (1..given[i])
      BY DEF Placed
    <3>2. PICK r \in 1..given[i] : x = <<i, r>>
      BY <3>1
    <3>3. i \in S /\ (r \in 1..base \/ (r = base + 1 /\ i \in U))
      OBVIOUS
    <3> QED BY <3>2, <3>3
  <2>2. ASSUME NEW x \in A PROVE x \in Placed(given)
    <3>1. x[1] \in S /\ x[2] \in 1..base /\ x = <<x[1], x[2]>>
      OBVIOUS
    <3> DEFINE i == x[1]
               r == x[2]
    <3>2. i \in DOMAIN given /\ r \in 1..given[i]
      BY <3>1
    <3> QED BY <3>1, <3>2 DEF Placed
  <2>3. ASSUME NEW x \in B PROVE x \in Placed(given)
    <3>1. PICK i \in U : x = <<i, base + 1>>
      OBVIOUS
    <3>2. i \in DOMAIN given /\ base + 1 \in 1..given[i]
      OBVIOUS
    <3> QED BY <3>1, <3>2 DEF Placed
  <2> QED BY <2>1, <2>2, <2>3
<1>6. Cardinality(A \cup B) = Cardinality(A) + Cardinality(B) - Cardinality(A \cap B)
  BY <1>2, <1>3, FS_Union
<1>7. Cardinality(A \cap B) = 0
  BY <1>4, FS_EmptySet
<1>8. Cardinality(S) \in Nat
  BY FS_CardinalityType
<1> QED BY <1>2, <1>3, <1>5, <1>6, <1>7, <1>8

(* Whole shares of a request in halves.                                    *)
LEMMA HalvesDivide ==
    ASSUME NEW asked \in Nat, NEW n \in Nat \ {0}
    PROVE  LET base == asked \div (2 * n)
               remainder == asked % (2 * n)
               c == (remainder + 1) \div 2
           IN  /\ base \in Nat
               /\ c \in Nat /\ c <= n
               /\ \A k \in Nat : 2 * k < remainder <=> k < c
               /\ (asked + 1) \div 2 = n * base + c
<1> DEFINE base == asked \div (2 * n)
           remainder == asked % (2 * n)
           c == (remainder + 1) \div 2
<1>1. base \in Nat /\ remainder \in 0..(2 * n - 1) /\ asked = (2 * n) * base + remainder
  <2> DEFINE d == 2 * n
  <2>1. d \in Nat \ {0}
    OBVIOUS
  <2> HIDE DEF d
  <2>2. asked \div d \in Nat /\ asked % d \in 0..(d - 1) /\ asked = d * (asked \div d) + (asked % d)
    BY <2>1
  <2> QED BY <2>2 DEF d
<1> HIDE DEF base, remainder
<1>2. c \in Nat /\ c <= n /\ \A k \in Nat : 2 * k < remainder <=> k < c
  BY <1>1
<1>3. \A p \in Nat : (2 * p + remainder + 1) \div 2 = p + c
  BY <1>1
<1>4. n * base \in Nat /\ asked = 2 * (n * base) + remainder
  BY <1>1
<1>5. (asked + 1) \div 2 = n * base + c
  BY <1>3, <1>4
<1> QED BY <1>1, <1>2, <1>5 DEF base, remainder

(* A plan for any number of half replicas over any ready nodes.            *)
LEMMA DecisionsCover ==
    ASSUME NEW asked \in Nat, ReadyNodes \in SUBSET Nat, IsFiniteSet(ReadyNodes),
           asked >= 2
    PROVE  LET given == Decisions(asked)
           IN  /\ DOMAIN given \subseteq ReadyNodes
               /\ DOMAIN given = {} <=> ReadyNodes = {}
               /\ ReadyNodes # {} => Cardinality(Placed(given)) = (asked + 1) \div 2
               /\ \A i, j \in ReadyNodes : Given(given, i) - Given(given, j) \in -1..1
<1> DEFINE given == Decisions(asked)
           n == Cardinality(ReadyNodes)
           base == asked \div (2 * n)
           remainder == asked % (2 * n)
           c == (remainder + 1) \div 2
<1>1. CASE ReadyNodes = {}
  BY <1>1 DEF Decisions
<1>2. CASE ReadyNodes # {}
  <2>1. n \in Nat \ {0}
    BY <1>2, FS_CardinalityType, FS_EmptySet
  <2>2. /\ base \in Nat
        /\ c \in Nat /\ c <= n
        /\ \A k \in Nat : 2 * k < remainder <=> k < c
        /\ (asked + 1) \div 2 = n * base + c
    BY <2>1, HalvesDivide
  <2>3. \A i \in ReadyNodes : Index(i) = Rank(ReadyNodes, i) /\ Index(i) \in Nat
    BY FS_Subset, FS_CardinalityType DEF Index, Rank
  <2>4. \A i \in ReadyNodes :
            Share(asked, i) = base + (IF Rank(ReadyNodes, i) < c THEN 1 ELSE 0)
    BY <2>2, <2>3 DEF Share
  <2> HIDE DEF base, remainder, c, n
  <2>5. /\ DOMAIN given = {i \in ReadyNodes : base + (IF Rank(ReadyNodes, i) < c THEN 1 ELSE 0) > 0}
        /\ \A i \in DOMAIN given : given[i] = base + (IF Rank(ReadyNodes, i) < c THEN 1 ELSE 0)
    BY <2>4 DEF Decisions
  <2>6. Cardinality(Placed(given)) = n * base + c
    BY <2>2, <2>5, SpreadCount DEF n
  <2>7. \A i \in ReadyNodes : Given(given, i) \in {base, base + 1}
    BY <2>2, <2>5 DEF Given
  <2>8. (asked + 1) \div 2 >= 1
    OBVIOUS
  <2>9. DOMAIN given # {}
    <3>1. DOMAIN given = {} => Placed(given) = {}
      BY DEF Placed
    <3>2. Cardinality(Placed(given)) >= 1
      BY <2>2, <2>6, <2>8
    <3>3. Cardinality({}) = 0
      BY FS_EmptySet
    <3>4. Placed(given) # {}
      BY <3>2, <3>3
    <3> HIDE DEF given
    <3> QED BY <3>1, <3>4
  <2>10. /\ DOMAIN given \subseteq ReadyNodes
         /\ Cardinality(Placed(given)) = (asked + 1) \div 2
    BY <2>2, <2>5, <2>6
  <2>11. \A i, j \in ReadyNodes : Given(given, i) - Given(given, j) \in -1..1
    BY <2>2, <2>7
  <2> HIDE DEF given
  <2>12. /\ DOMAIN given \subseteq ReadyNodes
         /\ DOMAIN given = {} <=> ReadyNodes = {}
         /\ ReadyNodes # {} => Cardinality(Placed(given)) = (asked + 1) \div 2
         /\ \A i, j \in ReadyNodes : Given(given, i) - Given(given, j) \in -1..1
    BY <1>2, <2>9, <2>10, <2>11
  <2> QED BY <2>12 DEF given
<1> QED BY <1>1, <1>2

-----------------------------------------------------------------------------
(* Nothing is registered at a first start.                                 *)
LEMMA InitGood == Init => IInv
<1> SUFFICES ASSUME Init PROVE IInv
  OBVIOUS
<1>1. LocalType
  BY DEF Init, NoPlan, LocalType
<1>2. DOMAIN NoNodes = {}
  BY DEF NoNodes
<1>3. Good(NoNodes, {})
  <2>1. NoNodes \in [{} -> Node]
    BY DEF NoNodes
  <2> QED BY <1>2, <2>1 DEF Good, Trusting, Keeps, IsState
<1>4. Views = {NoNodes} /\ refused = {}
  BY DEF Init, StartsWith, Views
<1> QED BY <1>1, <1>2, <1>3, <1>4 DEF IInv, AllGood

(* The memory is one of the views.                                         *)
LEMMA MemoryGood ==
    ASSUME AllGood
    PROVE  /\ Good(mem, refused)
           /\ DOMAIN mem \subseteq 1..registered
           /\ \A i \in DOMAIN mem : mem[i] \in Node
BY DEF AllGood, Views, Good, IsState

(* A trust action: either both of its saves succeed, and only the new      *)
(* state is left, or the caller is answered 500 and refuses no more.       *)
LEMMA ActGood ==
    ASSUME IInv, NEW i \in DOMAIN mem, NEW after \in Node,
           NEW barred \in SUBSET (1..registered), Act(i, after, barred),
           registered' = registered,
           Good([mem EXCEPT ![i] = after], barred),
           Good([mem EXCEPT ![i] = after], refused \cap barred)
    PROVE  /\ AllGood'
           /\ faults' \in Nat
           /\ refused' \subseteq 1..registered
<1> DEFINE next == [mem EXCEPT ![i] = after]
<1>1. /\ refused \subseteq 1..registered /\ faults \in Nat
      /\ DOMAIN next \subseteq 1..registered
  BY MemoryGood DEF IInv, LocalType
<1>2. CASE SavedTwice(next) /\ NoFault /\ refused' = barred
  BY <1>1, <1>2, TwoSaves DEF AllGood, NoFault
<1>3. CASE (SavedOnce(next) \/ NotSaved(next)) /\ Fault /\ refused' = refused \cap barred
  <2>1. \A s \in Views : Good(s, refused \cap barred)
    BY FewerRefusals DEF IInv, AllGood
  <2>2. Views' \subseteq Views \cup {next}
    BY <1>3, OneSave
  <2>3. AllGood'
    BY <1>1, <1>3, <2>1, <2>2 DEF IInv, AllGood
  <2> QED BY <1>1, <1>3, <2>3 DEF Fault
<1> QED BY <1>2, <1>3 DEF Act

(* Registration, trust actions and plans.                                  *)
LEMMA RequestsGood ==
    ASSUME IInv, Register \/ TrustAction \/ Plan
    PROVE  IInv'
<1> USE DEF IInv
<1>1. Good(mem, refused) /\ DOMAIN mem \subseteq 1..registered
  BY MemoryGood
<1>2. \A i \in DOMAIN mem : mem[i] \in Node
  BY MemoryGood
<1>3. NoPlan.status = 0 /\ NoPlan.asked = 0
  BY DEF NoPlan
<1>4. CASE Register
  <2> DEFINE i == registered + 1
  <2>1. PICK placed \in BOOLEAN : Single(WithNode(mem, i, Registered(placed)))
    BY <1>4 DEF Register
  <2> DEFINE next == WithNode(mem, i, Registered(placed))
  <2>2. Registered(placed) \in Node /\ Registered(placed).trust = "verified"
    BY NumbersAssumption DEF LocalType, Registered, Node, Status, Trust
  <2>3. /\ registered \in Nat /\ registered' = i /\ refused' = refused
        /\ refused \subseteq 1..registered
        /\ i \notin refused
    BY <1>4 DEF Register, LocalType
  <2>4. Good(next, refused) /\ DOMAIN next = DOMAIN mem \cup {i}
    BY <1>1, <2>2, <2>3, AddNode
  <2>5. Views' \subseteq Views \cup {next} /\ faults' \in Nat
    <3>1. Saved(next) \/ NotSaved(next)
      BY <2>1 DEF Single
    <3>2. Views' \subseteq Views \cup {next}
      BY <3>1, OneSave
    <3> QED BY <2>1, <3>2 DEF Single, NoFault, Fault, LocalType
  <2>6. 1..registered \subseteq 1..registered' /\ i \in 1..registered'
    BY <2>3
  <2>7. AllGood'
    BY <1>1, <2>3, <2>4, <2>5, <2>6 DEF AllGood
  <2>8. LocalType'
    BY <1>3, <1>4, <2>3, <2>5, <2>6 DEF Register, NoAnswer, LocalType
  <2> QED BY <2>7, <2>8
<1>5. CASE TrustAction
  <2>1. PICK i \in DOMAIN mem : Promote(i) \/ Quarantine(i) \/ Revoke(i)
    BY <1>5 DEF TrustAction
  <2> DEFINE n == mem[i]
  <2>2. /\ n \in Node /\ i \in 1..registered /\ clock \in Nat
        /\ refused \in SUBSET (1..registered) /\ registered' = registered
    BY <1>1, <1>2, <1>5 DEF LocalType, TrustAction
  <2>3. /\ AllGood'
        /\ faults' \in Nat
        /\ refused' \subseteq 1..registered
    <3>1. CASE Promote(i)
      <4>1. Promoted(n) \in Node /\ Promoted(n).trust = "trusted"
        BY <2>2, NodeSteps
      <4>2. Good([mem EXCEPT ![i] = Promoted(n)], refused \ {i})
        BY <1>1, <2>2, <4>1, PutNode
      <4>3. refused \cap (refused \ {i}) = refused \ {i}
        OBVIOUS
      <4> QED BY <2>2, <3>1, <4>1, <4>2, <4>3, ActGood DEF Promote
    <3>2. CASE Quarantine(i)
      <4>1. Quarantined(n) \in Node /\ Quarantined(n).status # "ready" /\ ~Eligible(Quarantined(n))
        BY <2>2, NodeSteps
      <4>2. Good([mem EXCEPT ![i] = Quarantined(n)], refused \cup {i})
        BY <1>1, <2>2, <4>1, PutNode
      <4>3. Good([mem EXCEPT ![i] = Quarantined(n)], refused \cap (refused \cup {i}))
        BY <4>2, FewerRefusals
      <4> QED BY <2>2, <3>2, <4>1, <4>2, <4>3, ActGood DEF Quarantine
    <3>3. CASE Revoke(i)
      <4>1. Revoked(n) \in Node /\ Revoked(n).status # "ready" /\ ~Eligible(Revoked(n))
        BY <2>2, NodeSteps
      <4>2. Good([mem EXCEPT ![i] = Revoked(n)], refused \cup {i})
        BY <1>1, <2>2, <4>1, PutNode
      <4>3. Good([mem EXCEPT ![i] = Revoked(n)], refused \cap (refused \cup {i}))
        BY <4>2, FewerRefusals
      <4> QED BY <2>2, <3>3, <4>1, <4>2, <4>3, ActGood DEF Revoke
    <3> QED BY <2>1, <3>1, <3>2, <3>3
  <2>4. LocalType'
    BY <1>3, <1>5, <2>2, <2>3 DEF TrustAction, NoAnswer, LocalType
  <2> QED BY <2>3, <2>4
<1>6. CASE Plan
  <2>1. PICK asked \in Replicas :
            PolicyRefuses(asked) \/ QuotaRefuses(asked) \/ Schedule(asked)
    BY <1>6 DEF Plan
  <2>2. asked \in Int
    BY NumbersAssumption
  <2>4. /\ Views' \subseteq Views \cup {mem}
        /\ faults' \in Nat
        /\ plan'.status \in {0, 200, 409, 422, 503}
        /\ plan'.asked \in Int
    <3>1. CASE PolicyRefuses(asked) \/ QuotaRefuses(asked)
      BY <2>2, <3>1 DEF PolicyRefuses, QuotaRefuses, Answer, cell, Views, LocalType
    <3>2. CASE Schedule(asked)
      BY <1>3, <2>2, <3>2, OneSave DEF Schedule, Answer, Fault, NoFault, LocalType
    <3> QED BY <2>1, <3>1, <3>2
  <2>5. AllGood'
    BY <1>1, <1>6, <2>4 DEF AllGood, Plan
  <2>6. LocalType'
    BY <1>3, <1>6, <2>4 DEF Plan, LocalType
  <2> QED BY <2>5, <2>6
<1> QED BY <1>4, <1>5, <1>6

(* The interval, time, and the end and start of the process.               *)
LEMMA TimersGood ==
    ASSUME IInv, Interval \/ IntervalThrows \/ Tick \/ Kill \/ Start
    PROVE  IInv'
<1> USE DEF IInv
<1>1. Good(AfterExpiry, refused) /\ DOMAIN AfterExpiry \subseteq 1..registered
  BY MemoryGood, ExpireNodes DEF LocalType
<1>2. /\ Good(NodesLoaded(disk), refused) /\ DOMAIN NodesLoaded(disk) \subseteq 1..registered
      /\ Good(NodesLoaded(older), refused) /\ DOMAIN NodesLoaded(older) \subseteq 1..registered
  BY LoadedGood DEF AllGood, Views
<1>3. NoPlan.status = 0 /\ NoPlan.asked = 0
  BY DEF NoPlan
<1>4. refused' = refused /\ registered' = registered
  BY DEF Interval, IntervalThrows, Tick, Kill, Start
<1>5. CASE Start
  <2>1. Views' \subseteq Views \cup {NodesLoaded(disk), NodesLoaded(older)}
    BY <1>5, LoadAddsNothing DEF Start
  <2> QED BY <1>2, <1>3, <1>4, <1>5, <2>1 DEF AllGood, LocalType, Start, NoAnswer
<1>6. CASE Interval \/ IntervalThrows \/ Tick \/ Kill
  <2>1. Views' \subseteq Views \cup {AfterExpiry}
    BY <1>6, TwoSaves, OneSave DEF Interval, IntervalThrows, Tick, Kill, cell, Views
  <2>2. AllGood'
    BY <1>1, <1>4, <2>1 DEF AllGood
  <2>3. up' \in BOOLEAN
    BY <1>6 DEF Interval, IntervalThrows, Tick, Kill, LocalType
  <2>4. clock' \in Nat /\ faults' \in Nat
    BY <1>6 DEF Interval, IntervalThrows, Tick, Kill, Fault, LocalType
  <2>5. NoAnswer
    BY <1>6 DEF Interval, IntervalThrows, Tick, Kill
  <2>6. LocalType'
    BY <1>3, <1>4, <2>3, <2>4, <2>5 DEF NoAnswer, LocalType
  <2> QED BY <2>2, <2>6
<1> QED BY <1>5, <1>6

(* Every step keeps the invariant.                                         *)
LEMMA NextGood == IInv /\ [Next]_vars => IInv'
<1>1. ASSUME IInv, UNCHANGED vars PROVE IInv'
  BY <1>1 DEF IInv, LocalType, AllGood, Views, vars, cell
<1> QED BY <1>1, RequestsGood, TimersGood DEF Next

-----------------------------------------------------------------------------
(* The invariant holds throughout.                                         *)
LEMMA Invariant == Spec => []IInv
BY InitGood, NextGood, PTL DEF Spec

(* Nodes and answers keep their types under every       *)
(* request, expiry, failed save and restart.                               *)
THEOREM TypeCorrect == Spec => []TypeOK
<1>1. IInv => TypeOK
  BY DEF IInv, LocalType, AllGood, Good, TypeOK
<1> QED BY <1>1, Invariant, PTL

(* A ready node is verified or trusted, in memory and in whatever a start  *)
(* loads: the data plane's look at the status alone is enough.             *)
THEOREM ReadyNodesTrusted == Spec => []ReadyIsTrusted
<1>1. IInv => ReadyIsTrusted
  BY DEF IInv, AllGood, Good, ReadyIsTrusted
<1> QED BY <1>1, Invariant, PTL

(* A quarantine or revocation answered 200 keeps work from the node until  *)
(* a promotion is asked for, through failures, expiries and restarts.      *)
THEOREM RefusalsHold == Spec => []RefusalHolds
<1>1. IInv => RefusalHolds
  BY DEF IInv, AllGood, Good, RefusalHolds
<1> QED BY <1>1, Invariant, PTL

-----------------------------------------------------------------------------
(* A step answers a plan only in Plan, which leaves the nodes as they are. *)
LEMMA PlanStep ==
    ASSUME IInv, PlanCoversRequest, [Next]_vars
    PROVE  PlanCoversRequest'
<1>1. ReadyNodes \in SUBSET Nat /\ IsFiniteSet(ReadyNodes)
  <2>1. IsFiniteSet(1..registered)
    BY FS_Interval DEF IInv, LocalType
  <2>2. ReadyNodes \subseteq 1..registered
    BY MemoryGood DEF IInv, ReadyNodes
  <2>3. IsFiniteSet(ReadyNodes)
    BY <2>1, <2>2, FS_Subset
  <2>4. 1..registered \subseteq Nat
    BY DEF IInv, LocalType
  <2> QED BY <2>2, <2>3, <2>4
<1>2. CASE NoAnswer
  BY <1>2 DEF NoAnswer, NoPlan, PlanCoversRequest
<1>3. CASE UNCHANGED vars
  BY <1>3 DEF vars, cell, PlanCoversRequest, ReadyNodes
<1>4. CASE Plan
  <2>1. PICK asked \in Replicas :
            PolicyRefuses(asked) \/ QuotaRefuses(asked) \/ Schedule(asked)
    BY <1>4 DEF Plan
  <2>2. CASE PolicyRefuses(asked) \/ QuotaRefuses(asked)
    BY <2>2 DEF PolicyRefuses, QuotaRefuses, Answer, PlanCoversRequest
  <2>3. CASE Schedule(asked) /\ plan' = NoPlan
    BY <2>3 DEF NoPlan, PlanCoversRequest
  <2>4. CASE /\ PolicyAllows(asked)
             /\ Saved(mem)
             /\ Answer(IF DOMAIN Decisions(asked) = {} THEN 503 ELSE 200, asked, Decisions(asked))
    <3> DEFINE given == Decisions(asked)
    <3>1. asked \in Nat /\ asked >= 2
      BY <2>4, NumbersAssumption DEF PolicyAllows
    <3>2. /\ DOMAIN given \subseteq ReadyNodes
          /\ DOMAIN given = {} <=> ReadyNodes = {}
          /\ ReadyNodes # {} => Cardinality(Placed(given)) = (asked + 1) \div 2
          /\ \A i, j \in ReadyNodes : Given(given, i) - Given(given, j) \in -1..1
      BY <1>1, <3>1, DecisionsCover
    <3>3. /\ plan'.status = (IF DOMAIN given = {} THEN 503 ELSE 200)
          /\ plan'.asked = asked
          /\ plan'.decisions = given
      BY <2>4 DEF Answer
    <3>4. ReadyNodes' = ReadyNodes
      BY <2>4 DEF Saved, ReadyNodes
    <3> HIDE DEF given
    <3> QED BY <3>2, <3>3, <3>4 DEF PlanCoversRequest, Placed, Given
  <2> QED BY <2>1, <2>2, <2>3, <2>4 DEF Schedule
<1> QED
  BY <1>2, <1>3, <1>4
  DEF Next, Register, TrustAction, Interval, IntervalThrows, Tick, Kill, Start

(* Whatever a plan asks for, in halves of replicas, and over any number of *)
(* ready nodes: an accepted plan covers it exactly, evenly and only with   *)
(* nodes that may run it, and is refused only when there is none.          *)
THEOREM PlansCover == Spec => []PlanCoversRequest
<1>1. Init => PlanCoversRequest
  BY DEF Init, NoPlan, PlanCoversRequest
<1>2. IInv /\ PlanCoversRequest /\ [Next]_vars => PlanCoversRequest'
  BY PlanStep
<1> QED BY <1>1, <1>2, Invariant, PTL DEF Spec
=============================================================================
