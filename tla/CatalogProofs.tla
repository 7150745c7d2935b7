--------------------------- MODULE CatalogProofs ---------------------------
(***************************************************************************)
(* Theorems about CatalogDecisions, for any tools, operators, keys,        *)
(* proposals, requests and bounds.                                         *)
(*                                                                         *)
(* The argument has two levels.  The operators of Catalog carry a good     *)
(* catalog to a good one ("Grown" collects the three ways a catalog        *)
(* grows).  A step of the node only moves catalogs between memory, disk    *)
(* and the contents a power loss may leave, or grows the one in memory.    *)
(***************************************************************************)
EXTENDS CatalogDecisions, SequenceTheorems, TLAPS

(* The decisions, submissions and seedings that lead from a catalog.       *)
Grown(c, n) ==
    \/ \E d \in Offered :
         CanDecide(c, d) /\ ~KnownKey(c, d.key) /\ n = Decided(c, d)
    \/ \E t \in Tools, p \in Proposal : CanSubmit(c, t, p) /\ n = Submitted(c, t, p)
    \/ \E t \in Tools : NeedsSeed(c, t) /\ n = Seeded(c, t)

-----------------------------------------------------------------------------
(* The empty catalog is a catalog.                                         *)
LEMMA EmptyIsCatalog == EmptyCatalog \in CatalogType
  BY DEF EmptyCatalog, CatalogType, Review

(* Approving keeps a catalog a catalog.                                    *)
LEMMA ApprovedType ==
  ASSUME NEW c \in CatalogType, NEW t \in Tools, NEW a \in Approval
  PROVE  Approved(c, t, a) \in CatalogType
  <1>1. Append(c.history[t], c.approved[t]) \in Seq(Approval \cup {None})
    BY DEF CatalogType
  <1> QED
    BY <1>1 DEF Approved, CatalogType, Review

(* The top of a non-empty stack is an approval or the mark for none, and   *)
(* the rest is a stack.                                                    *)
LEMMA PoppedStack ==
  ASSUME NEW S, NEW h \in Seq(S), h # << >>
  PROVE  /\ h[Len(h)] \in S
         /\ SubSeq(h, 1, Len(h) - 1) \in Seq(S)
         /\ Len(SubSeq(h, 1, Len(h) - 1)) = Len(h) - 1
         /\ \A i \in 1..(Len(h) - 1) : SubSeq(h, 1, Len(h) - 1)[i] = h[i]
  <1>1. Len(h) \in Nat \ {0}
    BY EmptySeq
  <1>2. \A i \in 1..Len(h) : h[i] \in S
    BY ElementOfSeq
  <1> DEFINE m == Len(h) - 1
             front == SubSeq(h, 1, m)
  <1>3. 1 \in Int /\ m \in Int /\ \A i \in 1..m : h[i] \in S
    BY <1>1, <1>2
  <1>4. /\ front \in Seq(S)
        /\ Len(front) = IF 1 <= m THEN m - 1 + 1 ELSE 0
        /\ \A i \in 1..(m - 1 + 1) : front[i] = h[1 + i - 1]
    BY <1>3, SubSeqProperties
  <1>5. m \in Nat /\ m = Len(h) - 1
    BY <1>1
  <1> HIDE DEF front, m
  <1>6. /\ front \in Seq(S)
        /\ Len(front) = m
        /\ \A i \in 1..m : front[i] = h[i]
    BY <1>4, <1>5
  <1>7. h[Len(h)] \in S
    BY <1>1, <1>2
  <1> QED
    BY <1>6, <1>7 DEF front, m

(* A rollback keeps a catalog a catalog.                                   *)
LEMMA RolledBackType ==
  ASSUME NEW c \in CatalogType, NEW t \in Tools, c.history[t] # << >>
  PROVE  RolledBack(c, t) \in CatalogType
  <1> DEFINE h == c.history[t]
  <1>1. h \in Seq(Approval \cup {None})
    BY DEF CatalogType
  <1>2. /\ h[Len(h)] \in Approval \cup {None}
        /\ SubSeq(h, 1, Len(h) - 1) \in Seq(Approval \cup {None})
    BY <1>1, PoppedStack
  <1> QED
    BY <1>2 DEF RolledBack, CatalogType, Review

(* The approval a decision makes of the proposal on file.                  *)
LEMMA ApprovalOfType ==
  ASSUME NEW c \in CatalogType, NEW t \in Tools, NEW actor \in Actors,
         c.proposals[t] # None
  PROVE  ApprovalOf(c, t, actor) \in Approval
  BY DEF CatalogType, Proposal, Approval, ApprovalOf

(* A decision that applies keeps a catalog a catalog.                      *)
LEMMA AppliedType ==
  ASSUME NEW c \in CatalogType, NEW d \in Decision, CanDecide(c, d)
  PROVE  Applied(c, d) \in CatalogType
  <1>1. d.tool \in Tools /\ d.actor \in Actors /\ d.action \in Action
    BY DEF Decision
  <1>2. CASE d.action = "approve"
    <2>1. c.proposals[d.tool] # None
      BY <1>2 DEF CanDecide, Reviewable
    <2> QED
      BY <2>1, <1>1, <1>2, ApprovalOfType, ApprovedType DEF Applied
  <1>3. CASE d.action = "rollback"
    BY <1>1, <1>3, RolledBackType DEF Applied, CanDecide
  <1>4. CASE d.action = "defer"
    BY <1>1, <1>4 DEF Applied, Reviewed, CatalogType, Review
  <1>5. CASE d.action = "reject"
    BY <1>1, <1>5 DEF Applied, Reviewed, CatalogType, Review
  <1> QED
    BY <1>1, <1>2, <1>3, <1>4, <1>5 DEF Action

(* What a decision leaves: the applied change, and one more event that     *)
(* says what is approved now.                                              *)
LEMMA DecidedFacts ==
  ASSUME NEW c \in CatalogType, NEW d \in Decision, CanDecide(c, d)
  PROVE  /\ Decided(c, d) \in CatalogType
         /\ Applied(c, d).ledger = c.ledger
         /\ Decided(c, d).ledger = Append(c.ledger, EventOf(Applied(c, d), d))
         /\ EventOf(Applied(c, d), d) \in Event
         /\ Decided(c, d).proposals = Applied(c, d).proposals
         /\ Decided(c, d).approved = Applied(c, d).approved
         /\ Decided(c, d).history = Applied(c, d).history
         /\ Decided(c, d).reviews = Applied(c, d).reviews
  <1> DEFINE n == Applied(c, d)
  <1>1. n \in CatalogType
    BY AppliedType
  <1>2. n.ledger = c.ledger
    <2>1. d.action \in Action
      BY DEF Decision
    <2> QED
      BY <2>1 DEF Action, Applied, Approved, RolledBack, Reviewed, CatalogType
  <1>3. EventOf(n, d) \in Event
    BY <1>1 DEF EventOf, Event, Decision, CatalogType
  <1>4. Append(n.ledger, EventOf(n, d)) \in Seq(Event)
    BY <1>1, <1>3 DEF CatalogType
  <1> HIDE DEF n
  <1> QED
    BY <1>1, <1>2, <1>3, <1>4 DEF n, Decided, CatalogType

(* Growing keeps a catalog a catalog.                                      *)
LEMMA GrownType ==
  ASSUME NEW c \in CatalogType, NEW n, Grown(c, n)
  PROVE  n \in CatalogType
  <1>1. ASSUME NEW d \in Offered, CanDecide(c, d), n = Decided(c, d)
        PROVE  n \in CatalogType
    BY <1>1, DecidedFacts, OfferedAssumption
  <1>2. ASSUME NEW t \in Tools, NEW p \in Proposal, n = Submitted(c, t, p)
        PROVE  n \in CatalogType
    BY <1>2 DEF Submitted, CatalogType, Review
  <1>3. ASSUME NEW t \in Tools, n = Seeded(c, t)
        PROVE  n \in CatalogType
    <2>1. SeedApproval \in Approval
      BY CatalogAssumption DEF SeedApproval, Approval, Version
    <2> QED
      BY <2>1, <1>3, ApprovedType DEF Seeded
  <1> QED
    BY <1>1, <1>2, <1>3 DEF Grown


-----------------------------------------------------------------------------
(* Ledgers.                                                                *)

(* What appending does to a sequence.                                      *)
LEMMA AppendFacts ==
  ASSUME NEW S, NEW s \in Seq(S), NEW e \in S
  PROVE  /\ Append(s, e) \in Seq(S)
         /\ Len(s) \in Nat
         /\ Len(Append(s, e)) = Len(s) + 1
         /\ Append(s, e)[Len(s) + 1] = e
         /\ \A i \in 1..Len(s) : Append(s, e)[i] = s[i]
  OBVIOUS

(* A prefix, entry by entry.                                               *)
LEMMA PrefixIsPointwise ==
  ASSUME NEW S, NEW s \in Seq(S), NEW t \in Seq(S)
  PROVE  IsPrefix(s, t) <=>
           (Len(s) <= Len(t) /\ \A i \in 1..Len(s) : s[i] = t[i])
  <1>1. Len(s) \in Nat /\ Len(t) \in Nat
    BY LenProperties
  <1>2. SubSeq(s, 1, Len(s)) = s
    BY SubSeqFull
  <1>3. ASSUME Len(s) <= Len(t)
        PROVE  /\ SubSeq(t, 1, Len(s)) \in Seq(S)
               /\ Len(SubSeq(t, 1, Len(s))) = Len(s)
               /\ \A i \in 1..Len(s) : SubSeq(t, 1, Len(s))[i] = t[i]
    <2>1. 1 \in Int /\ Len(s) \in Int /\ \A i \in 1..Len(s) : t[i] \in S
      BY <1>1, <1>3, ElementOfSeq
    <2>2. /\ SubSeq(t, 1, Len(s)) \in Seq(S)
          /\ Len(SubSeq(t, 1, Len(s))) =
               IF 1 <= Len(s) THEN Len(s) - 1 + 1 ELSE 0
          /\ \A i \in 1..(Len(s) - 1 + 1) : SubSeq(t, 1, Len(s))[i] = t[1 + i - 1]
      BY <2>1, SubSeqProperties
    <2> QED
      BY <1>1, <2>2
  <1>4. ASSUME Len(s) <= Len(t), \A i \in 1..Len(s) : s[i] = t[i]
        PROVE  s = SubSeq(t, 1, Len(s))
    <2>1. \A i \in 1..Len(s) : s[i] = SubSeq(t, 1, Len(s))[i]
      BY <1>3, <1>4
    <2> QED
      BY <1>3, <1>4, <2>1, SeqEqual
  <1>5. ASSUME Len(s) <= Len(t), s = SubSeq(t, 1, Len(s))
        PROVE  \A i \in 1..Len(s) : s[i] = t[i]
    BY <1>3, <1>5
  <1> QED
    BY <1>2, <1>4, <1>5 DEF IsPrefix

(* A ledger is a prefix of itself.                                         *)
LEMMA PrefixOfItself ==
  ASSUME NEW S, NEW s \in Seq(S)
  PROVE  IsPrefix(s, s)
  BY PrefixIsPointwise, LenProperties

(* Growing appends to the ledger or leaves it alone.                       *)
LEMMA GrownLedger ==
  ASSUME NEW c \in CatalogType, NEW n, Grown(c, n)
  PROVE  \/ n.ledger = c.ledger
         \/ \E e \in Event : /\ ~KnownKey(c, e.key)
                             /\ n.ledger = Append(c.ledger, e)
  <1>1. ASSUME NEW d \in Offered,
               CanDecide(c, d), ~KnownKey(c, d.key), n = Decided(c, d)
        PROVE  \E e \in Event : ~KnownKey(c, e.key) /\ n.ledger = Append(c.ledger, e)
    <2>1. EventOf(Applied(c, d), d).key = d.key
      BY DEF EventOf
    <2> QED
      BY <1>1, <2>1, DecidedFacts, OfferedAssumption
  <1>2. ASSUME NEW t \in Tools, NEW p \in Proposal, n = Submitted(c, t, p)
        PROVE  n.ledger = c.ledger
    BY <1>2 DEF Submitted, CatalogType
  <1>3. ASSUME NEW t \in Tools, n = Seeded(c, t)
        PROVE  n.ledger = c.ledger
    BY <1>3 DEF Seeded, Approved, CatalogType
  <1> QED
    BY <1>1, <1>2, <1>3 DEF Grown

(* Growing extends the ledger.                                             *)
LEMMA GrownExtends ==
  ASSUME NEW c \in CatalogType, NEW n, Grown(c, n),
         NEW s \in Seq(Event), IsPrefix(s, c.ledger)
  PROVE  IsPrefix(s, n.ledger)
  <1>1. c.ledger \in Seq(Event) /\ n.ledger \in Seq(Event)
    <2>1. n \in CatalogType
      BY GrownType
    <2> QED
      BY <2>1 DEF CatalogType
  <1>2. CASE n.ledger = c.ledger
    BY <1>2
  <1>3. ASSUME NEW e \in Event, n.ledger = Append(c.ledger, e)
        PROVE  IsPrefix(s, n.ledger)
    <2>1. Len(s) \in Nat /\ Len(s) <= Len(c.ledger) /\ Len(c.ledger) \in Nat
      BY <1>1, PrefixIsPointwise, LenProperties
    <2>2. Len(n.ledger) = Len(c.ledger) + 1
      BY <1>1, <1>3, AppendFacts
    <2>3. \A i \in 1..Len(s) : s[i] = n.ledger[i]
      BY <1>1, <1>3, <2>1, PrefixIsPointwise, AppendFacts
    <2> QED
      BY <1>1, <2>1, <2>2, <2>3, PrefixIsPointwise
  <1> QED
    BY <1>2, <1>3, GrownLedger

(* A decision never adds a key that the ledger already holds.              *)
LEMMA GrownOncePerKey ==
  ASSUME NEW c \in CatalogType, NEW n, Grown(c, n), OncePerKey(c)
  PROVE  OncePerKey(n)
  <1>1. c.ledger \in Seq(Event)
    BY DEF CatalogType
  <1>2. CASE n.ledger = c.ledger
    BY <1>2 DEF OncePerKey
  <1>3. ASSUME NEW e \in Event, ~KnownKey(c, e.key), n.ledger = Append(c.ledger, e)
        PROVE  OncePerKey(n)
    <2> DEFINE len == Len(c.ledger)
    <2>1. /\ len \in Nat
          /\ Len(n.ledger) = len + 1
          /\ n.ledger[len + 1] = e
          /\ \A i \in 1..len : n.ledger[i] = c.ledger[i]
      BY <1>1, <1>3, AppendFacts
    <2>2. \A i \in 1..len : e.key # NoKey => c.ledger[i].key # e.key
      BY <1>3 DEF KnownKey, WithKey
    <2>3. ASSUME NEW i \in 1..(len + 1), NEW j \in 1..(len + 1), i # j,
                 n.ledger[i].key = n.ledger[j].key, n.ledger[i].key # NoKey
          PROVE  FALSE
      <3>1. CASE i \in 1..len /\ j \in 1..len
        BY <2>1, <2>3, <3>1 DEF OncePerKey
      <3>2. CASE i = len + 1 /\ j \in 1..len
        BY <2>1, <2>2, <2>3, <3>2
      <3>3. CASE i \in 1..len /\ j = len + 1
        BY <2>1, <2>2, <2>3, <3>3
      <3> QED
        BY <2>1, <2>3, <3>1, <3>2, <3>3
    <2> QED
      BY <2>1, <2>3 DEF OncePerKey
  <1> QED
    BY <1>2, <1>3, GrownLedger

(* A keyed decision is in the ledger that it makes.                        *)
LEMMA DecidedIsShown ==
  ASSUME NEW c \in CatalogType, NEW d \in Decision, CanDecide(c, d)
  PROVE  \E i \in 1..Len(Decided(c, d).ledger) :
            /\ Decided(c, d).ledger[i].key = d.key
            /\ SameDecision(Decided(c, d).ledger[i], d)
  <1> DEFINE e == EventOf(Applied(c, d), d)
             l == Decided(c, d).ledger
  <1>1. c.ledger \in Seq(Event) /\ e \in Event /\ l = Append(c.ledger, e)
    BY DecidedFacts DEF CatalogType
  <1>2. e.key = d.key /\ SameDecision(e, d)
    BY DEF EventOf, SameDecision
  <1>3. Len(c.ledger) + 1 \in 1..Len(l) /\ l[Len(c.ledger) + 1] = e
    BY <1>1, AppendFacts
  <1> HIDE DEF e, l
  <1> QED
    BY <1>2, <1>3 DEF l

(* The key of an event is known, and found at the one event that has it.   *)
LEMMA FoundByKey ==
  ASSUME NEW c, NEW key, key # NoKey, OncePerKey(c), Len(c.ledger) \in Nat,
         NEW i \in 1..Len(c.ledger), c.ledger[i].key = key
  PROVE  KnownKey(c, key) /\ FirstWithKey(c, key) = c.ledger[i]
  <1>1. i \in WithKey(c, key) /\ \A j \in WithKey(c, key) : j = i
    BY DEF WithKey, OncePerKey
  <1>2. i <= i
    OBVIOUS
  <1>3. (CHOOSE k \in WithKey(c, key) : \A j \in WithKey(c, key) : k <= j) = i
    BY <1>1, <1>2
  <1> QED
    BY <1>1, <1>3 DEF KnownKey, FirstWithKey

-----------------------------------------------------------------------------
(* Reviews and approvals.                                                  *)

(* A decision changes one tool, and never a proposal.                      *)
LEMMA AppliedElsewhere ==
  ASSUME NEW c \in CatalogType, NEW d \in Decision, CanDecide(c, d)
  PROVE  /\ Applied(c, d).proposals = c.proposals
         /\ \A t \in Tools \ {d.tool} :
              /\ Applied(c, d).approved[t] = c.approved[t]
              /\ Applied(c, d).history[t] = c.history[t]
              /\ Applied(c, d).reviews[t] = c.reviews[t]
  <1>1. d.action \in Action
    BY DEF Decision
  <1> QED
    BY <1>1 DEF Action, Applied, Approved, RolledBack, Reviewed, CatalogType

(* A decision marks as approved only an approval that is up to date.       *)
LEMMA AppliedReview ==
  ASSUME NEW c \in CatalogType, NEW d \in Decision, CanDecide(c, d),
         Applied(c, d).reviews[d.tool] = "approved"
  PROVE  /\ Applied(c, d).approved[d.tool] # None
         /\ ~Outdated(c, d.tool, Applied(c, d).approved[d.tool])
  <1> DEFINE t == d.tool
             n == Applied(c, d)
  <1>1. t \in Tools /\ d.action \in Action /\ d.actor \in Actors
    BY DEF Decision
  <1>2. CASE d.action = "approve"
    <2>1. ApprovalOf(c, t, d.actor) # None
      BY <1>1, <1>2, ApprovalOfType, CatalogAssumption DEF CanDecide, Reviewable
    <2> QED
      BY <1>1, <1>2, <2>1 DEF Applied, Approved, CatalogType
  <1>3. CASE d.action = "rollback"
    BY <1>1, <1>3 DEF Applied, RolledBack, CatalogType
  <1>4. CASE d.action = "defer" \/ d.action = "reject"
    BY <1>1, <1>4 DEF Applied, Reviewed, CatalogType
  <1> QED
    BY <1>1, <1>2, <1>3, <1>4 DEF Action

(* The review status on file is that of the approval.                      *)
StoredMatches(c) ==
    \A t \in Tools :
        c.reviews[t] = "approved" =>
            c.approved[t] # None /\ ~Outdated(c, t, c.approved[t])

(* Then so is the one that is shown (catalogRecord).                       *)
LEMMA StoredIsShown ==
  ASSUME NEW c, StoredMatches(c)
  PROVE  ReviewMatches(c)
BY DEF StoredMatches, ReviewMatches, ReviewStatus, HasRecord, Outdated

(* Growing keeps the review status true to the approval.                   *)
LEMMA GrownReviews ==
  ASSUME NEW c \in CatalogType, NEW n, Grown(c, n), StoredMatches(c)
  PROVE  StoredMatches(n)
  <1>1. ASSUME NEW d \in Offered, CanDecide(c, d), n = Decided(c, d)
        PROVE  StoredMatches(n)
    <2>1. d \in Decision
      BY OfferedAssumption
    <2>2. /\ n.proposals = c.proposals
          /\ n.approved = Applied(c, d).approved
          /\ n.reviews = Applied(c, d).reviews
      BY <1>1, <2>1, DecidedFacts, AppliedElsewhere
    <2>3. ASSUME NEW t \in Tools, n.reviews[t] = "approved"
          PROVE  n.approved[t] # None /\ ~Outdated(n, t, n.approved[t])
      <3>1. CASE t = d.tool
        BY <1>1, <2>1, <2>2, <2>3, <3>1, AppliedReview DEF Outdated
      <3>2. CASE t # d.tool
        BY <1>1, <2>1, <2>2, <2>3, <3>2, AppliedElsewhere
           DEF Outdated, StoredMatches
      <3> QED
        BY <3>1, <3>2
    <2> QED
      BY <2>3 DEF StoredMatches
  <1>2. ASSUME NEW t \in Tools, NEW p \in Proposal, n = Submitted(c, t, p)
        PROVE  StoredMatches(n)
    <2>1. ASSUME NEW u \in Tools, n.reviews[u] = "approved"
          PROVE  /\ c.reviews[u] = "approved"
                 /\ n.proposals[u] = c.proposals[u]
                 /\ n.approved[u] = c.approved[u]
      BY <1>2, <2>1 DEF Submitted, CatalogType
    <2> QED
      BY <2>1 DEF StoredMatches, Outdated
  <1>3. ASSUME NEW t \in Tools, n = Seeded(c, t)
        PROVE  StoredMatches(n)
    <2>1. SeedApproval # None
      BY CatalogAssumption DEF SeedApproval, Approval, Version
    <2>2. n.proposals = c.proposals
      BY <1>3 DEF Seeded, Approved, CatalogType
    <2>3. ASSUME NEW u \in Tools, n.reviews[u] = "approved"
          PROVE  n.approved[u] # None /\ ~Outdated(c, u, n.approved[u])
      BY <1>3, <2>1, <2>3 DEF Seeded, Approved, CatalogType, StoredMatches
    <2> QED
      BY <2>2, <2>3 DEF StoredMatches, Outdated
  <1> QED
    BY <1>1, <1>2, <1>3 DEF Grown

(* Growing keeps the ledger's account of the approvals true.               *)
LEMMA GrownExplained ==
  ASSUME NEW c \in CatalogType, NEW n, Grown(c, n),
         NEW t \in Tools, Explained(c, t)
  PROVE  Explained(n, t)
  <1>0. c.ledger \in Seq(Event)
    BY DEF CatalogType
  <1>1. ASSUME NEW d \in Offered, CanDecide(c, d), n = Decided(c, d)
        PROVE  Explained(n, t)
    <2> DEFINE e == EventOf(Applied(c, d), d)
               len == Len(c.ledger)
    <2>1. d \in Decision
      BY OfferedAssumption
    <2>2. /\ n.approved = Applied(c, d).approved
          /\ n.ledger = Append(c.ledger, e)
          /\ e \in Event
      BY <1>1, <2>1, DecidedFacts
    <2>3. /\ len \in Nat
          /\ Len(n.ledger) = len + 1
          /\ n.ledger[len + 1] = e
          /\ \A i \in 1..len : n.ledger[i] = c.ledger[i]
      BY <1>0, <2>2, AppendFacts
    <2>4. e.tool = d.tool /\ e.approved = n.approved[d.tool]
      BY <2>2 DEF EventOf
    <2>5. EventsOf(n, d.tool) = EventsOf(c, d.tool) \cup {len + 1}
      BY <2>3, <2>4 DEF EventsOf
    <2>6. LatestFor(n, d.tool, len + 1) /\ len + 1 \in EventsOf(n, d.tool)
      BY <2>3, <2>5 DEF LatestFor, EventsOf
    <2>7. CASE t = d.tool
      BY <2>3, <2>4, <2>6, <2>7 DEF Explained
    <2>8. CASE t # d.tool
      <3>1. n.approved[t] = c.approved[t]
        BY <1>1, <2>1, <2>2, <2>8, AppliedElsewhere
      <3>2. EventsOf(n, t) = EventsOf(c, t)
        BY <2>3, <2>4, <2>8 DEF EventsOf
      <3>3. \A i \in EventsOf(c, t) : n.ledger[i] = c.ledger[i]
        BY <2>3 DEF EventsOf
      <3> QED
        BY <3>1, <3>2, <3>3 DEF Explained, LatestFor
    <2> QED
      BY <2>7, <2>8
  <1>2. ASSUME NEW u \in Tools, NEW p \in Proposal, n = Submitted(c, u, p)
        PROVE  Explained(n, t)
    <2>1. n.ledger = c.ledger /\ n.approved = c.approved
      BY <1>2 DEF Submitted, CatalogType
    <2> QED
      BY <2>1 DEF Explained, LatestFor, EventsOf
  <1>3. ASSUME NEW u \in Tools, n = Seeded(c, u)
        PROVE  Explained(n, t)
    <2>1. /\ n.ledger = c.ledger
          /\ t # u => n.approved[t] = c.approved[t]
          /\ t = u => n.approved[t] = SeedApproval
      BY <1>3 DEF Seeded, Approved, CatalogType
    <2>2. SeedApproval # None /\ SeedApproval.by = Seeder
      BY CatalogAssumption DEF SeedApproval, Approval, Version
    <2> QED
      BY <2>1, <2>2 DEF Explained, LatestFor, EventsOf
  <1> QED
    BY <1>1, <1>2, <1>3 DEF Grown

(* A rollback undoes an approval: the approval in force before it and the  *)
(* stack below it come back (applyRollback after applyApproval).           *)
THEOREM RollbackUndoesApproval ==
  ASSUME NEW c \in CatalogType, NEW t \in Tools, NEW a \in Approval
  PROVE  /\ RolledBack(Approved(c, t, a), t).approved = c.approved
         /\ RolledBack(Approved(c, t, a), t).history = c.history
  <1> DEFINE h == c.history[t]
             g == Append(h, c.approved[t])
             back == SubSeq(g, 1, Len(g) - 1)
  <1>1. h \in Seq(Approval \cup {None}) /\ c.approved[t] \in Approval \cup {None}
    BY DEF CatalogType
  <1>2. /\ g \in Seq(Approval \cup {None})
        /\ Len(h) \in Nat
        /\ Len(g) = Len(h) + 1
        /\ g[Len(g)] = c.approved[t]
        /\ \A i \in 1..Len(h) : g[i] = h[i]
    BY <1>1, AppendFacts
  <1>3. g # << >>
    BY <1>2, EmptySeq
  <1>4. /\ back \in Seq(Approval \cup {None})
        /\ Len(back) = Len(g) - 1
        /\ \A i \in 1..(Len(g) - 1) : back[i] = g[i]
    BY <1>2, <1>3, PoppedStack
  <1> HIDE DEF back
  <1>5. Len(back) = Len(h) /\ \A i \in 1..Len(back) : back[i] = h[i]
    BY <1>2, <1>4
  <1>6. back = h
    BY <1>1, <1>4, <1>5, SeqEqual
  <1> HIDE DEF h, g
  <1>7. /\ Approved(c, t, a).history = [c.history EXCEPT ![t] = g]
        /\ Approved(c, t, a).approved = [c.approved EXCEPT ![t] = a]
    BY DEF Approved, CatalogType, g, h
  <1>8. Approved(c, t, a).history[t] = g
    BY <1>7 DEF CatalogType
  <1>9. /\ RolledBack(Approved(c, t, a), t).history = [c.history EXCEPT ![t] = h]
        /\ RolledBack(Approved(c, t, a), t).approved =
             [c.approved EXCEPT ![t] = c.approved[t]]
    BY <1>2, <1>6, <1>7, <1>8 DEF RolledBack, CatalogType, back, Approved
  <1> QED
    BY <1>9 DEF CatalogType, h

-----------------------------------------------------------------------------
(* Steps.                                                                  *)

(* A catalog a step may store: the one in memory, or one grown from it.    *)
Candidate(n) == n = mem \/ Grown(mem, n)

(* What it answers with: the decision it made, or the one it found.        *)
Answers(n, d) ==
    \/ n = mem /\ KnownKey(mem, d.key)
    \/ n = Decided(mem, d) /\ CanDecide(mem, d) /\ ~KnownKey(mem, d.key)

(* Promises made by a step are of these.                                   *)
PromisesKept(n) ==
    \/ promised' = promised
    \/ \E d \in Offered :
          /\ d.key # NoKey /\ Answers(n, d)
          /\ promised' = promised \cup {[decision |-> d, joined |-> JoinsAnother(d)]}

(* What a step does to the catalogs: nothing; a confirmed save; a save     *)
(* that may be lost; or a restart from what memory, disk or the medium     *)
(* holds.                                                                  *)
Moves ==
    \/ UNCHANGED <<mem, disk, durable, confirmed, promised>>
    \/ \E n : /\ Candidate(n)
              /\ Stored(n)
              /\ PromisesKept(n)
    \/ \E n : /\ Candidate(n)
              /\ mem' \in {mem, n}
              /\ disk' = n
              /\ durable' = durable \cup {n}
              /\ UNCHANGED <<confirmed, promised>>
    \/ /\ mem' \in Snapshots
       /\ disk' \in Snapshots
       /\ durable' \subseteq Snapshots
       /\ UNCHANGED <<confirmed, promised>>

(* A reply to a decision moves the catalogs in one of these ways.          *)
LEMMA CommitAndReplyMoves ==
  ASSUME NEW r, NEW d \in Offered, NEW n, Candidate(n),
         d.key # NoKey => Answers(n, d),
         CommitAndReply(r, d, n)
  PROVE  Moves
  <1>1. CASE Stored(n) /\ Promise(d)
    BY <1>1 DEF Promise, Moves, PromisesKept
  <1>2. CASE Failed /\ UNCHANGED promised
    BY <1>2 DEF Failed, store, Moves
  <1>3. CASE Unconfirmed(n) /\ UNCHANGED promised
    BY <1>3 DEF Unconfirmed, Moves
  <1> QED
    BY <1>1, <1>2, <1>3 DEF CommitAndReply

(* So does a save on behalf of another writer.                             *)
LEMMA CommitMoves ==
  ASSUME NEW n, Candidate(n), Commit(n), UNCHANGED promised
  PROVE  Moves
  BY DEF Commit, Stored, Unconfirmed, Moves, PromisesKept

(* Every step of a request moves the catalogs in one of these ways.        *)
LEMMA HandlerMoves ==
  ASSUME TypeOK, NEW r \in Requests, Handler(r)
  PROVE  Moves
  <1> DEFINE d == req[r].decision
  <1>0. ASSUME req[r].phase \in {"identity", "body"} PROVE d \in Offered
    BY <1>0 DEF TypeOK, Request, Quiet
  <1>1. ASSUME NEW e \in Offered, Arrive(r, e) PROVE Moves
    BY <1>1 DEF Arrive, store, Moves
  <1>2. ASSUME Answer(r) PROVE Moves
    BY <1>2 DEF Answer, store, Moves
  <1>3. CASE Replay(r)
    <2>1. d \in Offered
      BY <1>0, <1>3 DEF Replay, Asked
    <2> QED
      BY <1>3, <2>1, CommitAndReplyMoves DEF Replay, Candidate, Answers
  <1>4. CASE AwaitBody(r)
    BY <1>4 DEF AwaitBody, store, Moves
  <1>5. CASE JoinEarlier(r)
    <2>1. d \in Offered
      BY <1>0, <1>5 DEF JoinEarlier, Asked
    <2> QED
      BY <1>5, <2>1, CommitAndReplyMoves DEF JoinEarlier, Candidate, Answers
  <1>6. CASE Decide(r)
    <2>1. d \in Offered /\ d \in Decision
      BY <1>0, <1>6, OfferedAssumption DEF Decide, Asked
    <2>2. CanDecide(mem, d) /\ ~KnownKey(mem, d.key)
      BY <1>6 DEF Decide
    <2>3. Candidate(Decided(mem, d))
      BY <2>1, <2>2 DEF Candidate, Grown
    <2>4. Answers(Decided(mem, d), d)
      BY <2>2 DEF Answers
    <2> QED
      BY <1>6, <2>1, <2>3, <2>4, CommitAndReplyMoves DEF Decide
  <1> QED
    BY <1>1, <1>2, <1>3, <1>4, <1>5, <1>6
       DEF Handler, RefuseIdentity, RefuseKeyless, RefuseForeignKey, RefuseBody,
           RefuseUndecidable

(* And every step of the node.                                             *)
LEMMA StepMoves ==
  ASSUME TypeOK, [Next]_vars
  PROVE  Moves
  <1>1. ASSUME NEW r \in Requests, Handler(r) PROVE Moves
    BY <1>1, HandlerMoves
  <1>2. ASSUME NEW t \in Tools, NEW p \in ProposalsUpTo(MaxVersion), Submit(t, p)
        PROVE  Moves
    <2>1. p \in Proposal
      BY BoundsAssumption DEF ProposalsUpTo, Proposal, Version
    <2>2. Candidate(Submitted(mem, t, p))
      BY <1>2, <2>1 DEF Submit, Candidate, Grown
    <2> QED
      BY <1>2, <2>2, CommitMoves DEF Submit
  <1>3. CASE Persist
    BY <1>3, CommitMoves DEF Persist, Candidate
  <1>4. ASSUME NEW t \in Tools, SeedTool(t) PROVE Moves
    BY <1>4 DEF SeedTool, Moves, Candidate, Grown, PromisesKept
  <1>5. ASSUME NEW t \in Tools, SeedFails(t) PROVE Moves
    BY <1>5 DEF SeedFails, Moves, Candidate, Grown
  <1>6. CASE Serve
    BY <1>6 DEF Serve, Failed, store, Moves, Candidate, PromisesKept
  <1>7. CASE Kill
    BY <1>7 DEF Kill, Moves, Snapshots
  <1>8. CASE PowerLoss
    BY <1>8 DEF PowerLoss, Moves, Snapshots
  <1>9. CASE UNCHANGED vars
    BY <1>9 DEF vars, store, Moves
  <1> QED
    BY <1>1, <1>2, <1>3, <1>4, <1>5, <1>6, <1>7, <1>8, <1>9 DEF Next, Process

(* So every catalog after a step was there before it or grew from memory.  *)
LEMMA MovedSnapshots ==
  ASSUME Moves, NEW c \in Snapshots'
  PROVE  c \in Snapshots \/ Grown(mem, c)
  <1>1. CASE UNCHANGED <<mem, disk, durable, confirmed, promised>>
    BY <1>1 DEF Snapshots
  <1>2. ASSUME NEW n, Candidate(n), Stored(n) PROVE c \in Snapshots \/ Grown(mem, c)
    BY <1>2 DEF Stored, Candidate, Snapshots
  <1>3. ASSUME NEW n, Candidate(n), mem' \in {mem, n}, disk' = n,
               durable' = durable \cup {n}
        PROVE  c \in Snapshots \/ Grown(mem, c)
    BY <1>3 DEF Candidate, Snapshots
  <1>4. CASE mem' \in Snapshots /\ disk' \in Snapshots /\ durable' \subseteq Snapshots
    BY <1>4 DEF Snapshots
  <1> QED
    BY <1>1, <1>2, <1>3, <1>4 DEF Moves

-----------------------------------------------------------------------------
(* Invariants.                                                             *)

(* Requests in flight stay well formed.                                    *)
LEMMA RequestsTyped ==
  ASSUME TypeOK, [Next]_vars
  PROVE  up' \in BOOLEAN /\ req' \in [Requests -> Request]
  <1> USE DEF TypeOK
  <1>1. ASSUME NEW r \in Requests, Reply(r) PROVE req' \in [Requests -> Request]
    BY <1>1 DEF Reply, Request
  <1>2. ASSUME NEW r \in Requests, NEW d \in Offered, NEW p \in {"identity", "body"},
               req' = [req EXCEPT ![r] = Waiting(p, d)]
        PROVE  req' \in [Requests -> Request]
    BY <1>2 DEF Waiting, Request
  <1>3. ASSUME DropRequests PROVE req' \in [Requests -> Request]
    BY <1>3 DEF DropRequests, Request
  <1>4. ASSUME NEW r \in Requests, Handler(r)
        PROVE  up' \in BOOLEAN /\ req' \in [Requests -> Request]
    <2>1. ASSUME NEW d \in Offered, Arrive(r, d)
          PROVE  up' \in BOOLEAN /\ req' \in [Requests -> Request]
      BY <1>2, <2>1 DEF Arrive
    <2>2. ASSUME Answer(r) PROVE up' \in BOOLEAN /\ req' \in [Requests -> Request]
      BY <1>1, <2>2 DEF Answer
    <2>3. CASE AwaitBody(r)
      <3>1. req[r].decision \in Offered
        BY <2>3 DEF AwaitBody, Asked, Request, Quiet
      <3> QED
        BY <1>2, <2>3, <3>1 DEF AwaitBody
    <2>4. ASSUME NEW d, NEW n, CommitAndReply(r, d, n)
          PROVE  up' \in BOOLEAN /\ req' \in [Requests -> Request]
      BY <1>1, <2>4 DEF CommitAndReply
    <2> QED
      BY <1>4, <2>1, <2>2, <2>3, <2>4
         DEF Handler, RefuseIdentity, RefuseKeyless, RefuseForeignKey, RefuseBody,
             RefuseUndecidable, Replay, JoinEarlier, Decide
  <1>5. ASSUME NEW t \in Tools, NEW p \in ProposalsUpTo(MaxVersion), Submit(t, p)
        PROVE  up' \in BOOLEAN /\ req' \in [Requests -> Request]
    BY <1>5 DEF Submit
  <1>6. CASE Persist
    BY <1>6 DEF Persist
  <1>7. ASSUME NEW t \in Tools, SeedTool(t) \/ SeedFails(t)
        PROVE  up' \in BOOLEAN /\ req' \in [Requests -> Request]
    BY <1>7 DEF SeedTool, SeedFails
  <1>8. CASE Serve
    BY <1>8 DEF Serve
  <1>9. CASE Kill
    BY <1>3, <1>9 DEF Kill
  <1>10. CASE PowerLoss
    BY <1>3, <1>10 DEF PowerLoss
  <1>11. CASE UNCHANGED vars
    BY <1>11 DEF vars
  <1> QED
    BY <1>4, <1>5, <1>6, <1>7, <1>8, <1>9, <1>10, <1>11 DEF Next, Process

(* A step keeps the types.                                                 *)
LEMMA TypeStep ==
  ASSUME TypeOK, [Next]_vars
  PROVE  TypeOK'
  <1>1. Moves
    BY StepMoves
  <1>2. \A c \in Snapshots : c \in CatalogType
    BY DEF TypeOK, Snapshots
  <1>3. \A c \in Snapshots' : c \in CatalogType
    BY <1>1, <1>2, MovedSnapshots, GrownType DEF Snapshots
  <1>4. mem' \in CatalogType /\ disk' \in CatalogType /\ durable' \subseteq CatalogType
    BY <1>3 DEF Snapshots
  <1>5. confirmed' \in Seq(Event)
    BY <1>1, <1>4 DEF Moves, Stored, TypeOK, CatalogType
  <1>6. promised' \subseteq [decision : Offered, joined : BOOLEAN]
    <2>1. ASSUME NEW d \in Offered
          PROVE  [decision |-> d, joined |-> JoinsAnother(d)]
                    \in [decision : Offered, joined : BOOLEAN]
      BY DEF JoinsAnother
    <2> QED
      BY <1>1, <2>1 DEF Moves, PromisesKept, TypeOK
  <1> QED
    BY <1>4, <1>5, <1>6, RequestsTyped DEF TypeOK

(* The node keeps well-formed catalogs, in memory, on disk and in whatever *)
(* a power loss may leave.                                                 *)
THEOREM TypeCorrect == Spec => []TypeOK
  <1>1. Init => TypeOK
    <2>1. Quiet \in Request
      BY DEF Request
    <2>2. << >> \in Seq(Event)
      BY EmptySeq
    <2> QED
      BY <2>1, <2>2, EmptyIsCatalog DEF Init, TypeOK
  <1>2. TypeOK /\ [Next]_vars => TypeOK'
    BY TypeStep
  <1> QED
    BY <1>1, <1>2, PTL DEF Spec

(* No catalog, in memory or recoverable, holds two decisions under one     *)
(* Idempotency-Key.                                                        *)
THEOREM KeysAppliedOnce == Spec => []KeyAppliedOnce
  <1>1. Init => KeyAppliedOnce
    BY DEF Init, KeyAppliedOnce, Snapshots, OncePerKey, EmptyCatalog
  <1>2. TypeOK /\ KeyAppliedOnce /\ [Next]_vars => KeyAppliedOnce'
    <2> SUFFICES ASSUME TypeOK, KeyAppliedOnce, [Next]_vars
                 PROVE  KeyAppliedOnce'
      OBVIOUS
    <2>1. OncePerKey(mem) /\ mem \in CatalogType
      BY DEF KeyAppliedOnce, Snapshots, TypeOK
    <2>2. \A c \in Snapshots' : OncePerKey(c)
      BY <2>1, StepMoves, MovedSnapshots, GrownOncePerKey DEF KeyAppliedOnce
    <2> QED
      BY <2>2 DEF KeyAppliedOnce
  <1> QED
    BY <1>1, <1>2, TypeCorrect, PTL DEF Spec

(* In every catalog the last decision about a tool says what is approved,  *)
(* unless the seed approved it.                                            *)
THEOREM LedgerExplains == Spec => []LedgerExplainsApproval
  <1>1. Init => LedgerExplainsApproval
    <2>1. ASSUME NEW t \in Tools PROVE Explained(EmptyCatalog, t)
      <3>1. EmptyCatalog.ledger = << >> /\ EmptyCatalog.approved[t] = None
        BY DEF EmptyCatalog
      <3>2. EventsOf(EmptyCatalog, t) = {}
        BY <3>1 DEF EventsOf
      <3> QED
        BY <3>1, <3>2 DEF Explained
    <2> QED
      BY <2>1 DEF Init, LedgerExplainsApproval, Snapshots
  <1>2. TypeOK /\ LedgerExplainsApproval /\ [Next]_vars => LedgerExplainsApproval'
    <2> SUFFICES ASSUME TypeOK, LedgerExplainsApproval, [Next]_vars
                 PROVE  LedgerExplainsApproval'
      OBVIOUS
    <2>1. mem \in CatalogType /\ \A t \in Tools : Explained(mem, t)
      BY DEF LedgerExplainsApproval, Snapshots, TypeOK
    <2>2. \A c \in Snapshots', t \in Tools : Explained(c, t)
      BY <2>1, StepMoves, MovedSnapshots, GrownExplained DEF LedgerExplainsApproval
    <2> QED
      BY <2>2 DEF LedgerExplainsApproval
  <1> QED
    BY <1>1, <1>2, TypeCorrect, PTL DEF Spec

(* In every catalog a tool that shows the review status "approved" has an  *)
(* approval that is not behind its proposal.                               *)
THEOREM ReviewsAreTrue == Spec => []ReviewConsistent
  <1> DEFINE Inv == \A c \in Snapshots : StoredMatches(c)
  <1>1. Init => Inv
    BY DEF Init, Snapshots, StoredMatches, EmptyCatalog
  <1>2. TypeOK /\ Inv /\ [Next]_vars => Inv'
    <2> SUFFICES ASSUME TypeOK, Inv, [Next]_vars
                 PROVE  Inv'
      OBVIOUS
    <2>1. mem \in CatalogType /\ StoredMatches(mem)
      BY DEF Snapshots, TypeOK
    <2>2. \A c \in Snapshots' : StoredMatches(c)
      BY <2>1, StepMoves, MovedSnapshots, GrownReviews
    <2> QED
      BY <2>2
  <1>3. Inv => ReviewConsistent
    BY StoredIsShown DEF ReviewConsistent
  <1> HIDE DEF Inv
  <1> QED
    BY <1>1, <1>2, <1>3, TypeCorrect, PTL DEF Spec

-----------------------------------------------------------------------------
(* What was confirmed.                                                     *)

(* The confirmed ledger begins every ledger after a step too.              *)
LEMMA ConfirmedStep ==
  ASSUME TypeOK, ConfirmedLedgerKept, [Next]_vars
  PROVE  ConfirmedLedgerKept'
  <1>1. TypeOK' /\ Moves
    BY TypeStep, StepMoves
  <1>2. \A c \in Snapshots' : c.ledger \in Seq(Event)
    BY <1>1 DEF TypeOK, Snapshots, CatalogType
  <1>3. CASE confirmed' = confirmed
    <2>1. mem \in CatalogType /\ IsPrefix(confirmed, mem.ledger) /\ confirmed \in Seq(Event)
      BY DEF ConfirmedLedgerKept, Snapshots, TypeOK
    <2>2. \A c \in Snapshots' : IsPrefix(confirmed, c.ledger)
      BY <1>1, <2>1, MovedSnapshots, GrownExtends DEF ConfirmedLedgerKept
    <2> QED
      BY <1>3, <2>2 DEF ConfirmedLedgerKept
  <1>4. CASE \E n : Stored(n)
    <2>1. \A c \in Snapshots' : c.ledger = confirmed'
      BY <1>4 DEF Stored, Snapshots
    <2> QED
      BY <1>2, <2>1, PrefixOfItself DEF ConfirmedLedgerKept
  <1> QED
    BY <1>1, <1>3, <1>4 DEF Moves

(* The ledger of the last confirmed save begins every ledger in memory, on *)
(* disk or recoverable.                                                    *)
THEOREM ConfirmedLedgerSurvives == Spec => []ConfirmedLedgerKept
  <1>1. Init => ConfirmedLedgerKept
    <2>1. IsPrefix(<< >>, << >>)
      BY EmptySeq, PrefixOfItself
    <2>2. EmptyCatalog.ledger = << >>
      BY DEF EmptyCatalog
    <2> QED
      BY <2>1, <2>2 DEF Init, ConfirmedLedgerKept, Snapshots
  <1>2. TypeOK /\ ConfirmedLedgerKept /\ [Next]_vars => ConfirmedLedgerKept'
    BY ConfirmedStep
  <1> QED
    BY <1>1, <1>2, TypeCorrect, PTL DEF Spec

(* An event that keeps a promise.                                          *)
Keeps(e, p) ==
    /\ p.decision.key # NoKey
    /\ e.key = p.decision.key
    /\ ~p.joined => SameDecision(e, p.decision)

(* The strengthening: promises are kept by the confirmed ledger itself.    *)
PromisedIsConfirmed ==
    \A p \in promised : \E i \in 1..Len(confirmed) : Keeps(confirmed[i], p)

(* A new promise is kept by the ledger that was saved with it.             *)
LEMMA NewPromise ==
  ASSUME TypeOK, KeyAppliedOnce, NEW n, NEW d \in Offered, d.key # NoKey, Answers(n, d)
  PROVE  \E i \in 1..Len(n.ledger) :
            Keeps(n.ledger[i], [decision |-> d, joined |-> JoinsAnother(d)])
  <1>1. mem \in CatalogType /\ OncePerKey(mem) /\ Len(mem.ledger) \in Nat
    BY LenProperties DEF TypeOK, KeyAppliedOnce, Snapshots, CatalogType
  <1>2. CASE n = mem /\ KnownKey(mem, d.key)
    <2>1. PICK i \in 1..Len(mem.ledger) : mem.ledger[i].key = d.key
      BY <1>2 DEF KnownKey, WithKey
    <2>2. FirstWithKey(mem, d.key) = mem.ledger[i]
      BY <1>1, <2>1, FoundByKey
    <2> QED
      BY <1>2, <2>1, <2>2 DEF Keeps, JoinsAnother
  <1>3. CASE n = Decided(mem, d) /\ CanDecide(mem, d)
    <2>1. d \in Decision
      BY OfferedAssumption
    <2> QED
      BY <1>1, <1>3, <2>1, DecidedIsShown DEF Keeps
  <1> QED
    BY <1>2, <1>3 DEF Answers

(* A step promises only what its save confirmed, and keeps the older       *)
(* promises, because the confirmed ledger only grows.                      *)
LEMMA PromisedStep ==
  ASSUME TypeOK, KeyAppliedOnce, ConfirmedLedgerKept, PromisedIsConfirmed, [Next]_vars
  PROVE  PromisedIsConfirmed'
  <1>1. Moves
    BY StepMoves
  <1>2. CASE confirmed' = confirmed /\ promised' = promised
    BY <1>2 DEF PromisedIsConfirmed
  <1>3. ASSUME NEW n, Candidate(n), Stored(n), PromisesKept(n)
        PROVE  PromisedIsConfirmed'
    <2>1. confirmed' = n.ledger
      BY <1>3 DEF Stored
    <2>2. confirmed \in Seq(Event) /\ mem \in CatalogType /\ IsPrefix(confirmed, mem.ledger)
      BY DEF TypeOK, ConfirmedLedgerKept, Snapshots
    <2>3. n \in CatalogType /\ IsPrefix(confirmed, n.ledger)
      BY <1>3, <2>2, GrownType, GrownExtends DEF Candidate
    <2>4. n.ledger \in Seq(Event)
      BY <2>3 DEF CatalogType
    <2>5. /\ Len(confirmed) \in Nat /\ Len(n.ledger) \in Nat
          /\ Len(confirmed) <= Len(n.ledger)
          /\ \A i \in 1..Len(confirmed) : confirmed[i] = n.ledger[i]
      BY <2>2, <2>3, <2>4, PrefixIsPointwise, LenProperties
    <2>6. ASSUME NEW p \in promised
          PROVE  \E i \in 1..Len(n.ledger) : Keeps(n.ledger[i], p)
      BY <2>5 DEF PromisedIsConfirmed
    <2>7. \A p \in promised' : \E i \in 1..Len(n.ledger) : Keeps(n.ledger[i], p)
      BY <1>3, <2>6, NewPromise DEF PromisesKept
    <2> QED
      BY <2>1, <2>7 DEF PromisedIsConfirmed
  <1> QED
    BY <1>1, <1>2, <1>3 DEF Moves

(* A keyed decision answered 200 is found under its key in every catalog a *)
(* restart can bring back.  Of a request that was answered with another's  *)
(* decision, because that one took the key while the body was awaited, it  *)
(* is only the key that is found.                                          *)
THEOREM ConfirmedKeysSurvive == Spec => []ConfirmedKeySurvives
  <1>1. Init => PromisedIsConfirmed
    BY DEF Init, PromisedIsConfirmed
  <1>2. TypeOK /\ KeyAppliedOnce /\ ConfirmedLedgerKept /\ PromisedIsConfirmed /\ [Next]_vars
          => PromisedIsConfirmed'
    BY PromisedStep
  <1>3. TypeOK /\ KeyAppliedOnce /\ ConfirmedLedgerKept /\ PromisedIsConfirmed
          => ConfirmedKeySurvives
    <2> SUFFICES ASSUME TypeOK, KeyAppliedOnce, ConfirmedLedgerKept, PromisedIsConfirmed,
                        NEW p \in promised, NEW c \in Snapshots
                 PROVE  /\ KnownKey(c, p.decision.key)
                        /\ ~p.joined =>
                              SameDecision(FirstWithKey(c, p.decision.key), p.decision)
      BY DEF ConfirmedKeySurvives
    <2>1. confirmed \in Seq(Event) /\ c.ledger \in Seq(Event) /\ OncePerKey(c)
      BY DEF TypeOK, Snapshots, CatalogType, KeyAppliedOnce
    <2>2. IsPrefix(confirmed, c.ledger)
      BY DEF ConfirmedLedgerKept
    <2>3. /\ Len(confirmed) \in Nat /\ Len(c.ledger) \in Nat
          /\ Len(confirmed) <= Len(c.ledger)
          /\ \A i \in 1..Len(confirmed) : confirmed[i] = c.ledger[i]
      BY <2>1, <2>2, PrefixIsPointwise, LenProperties
    <2>4. PICK i \in 1..Len(c.ledger) : Keeps(c.ledger[i], p)
      BY <2>3 DEF PromisedIsConfirmed
    <2>5. KnownKey(c, p.decision.key) /\ FirstWithKey(c, p.decision.key) = c.ledger[i]
      BY <2>1, <2>3, <2>4, FoundByKey DEF Keeps
    <2> QED
      BY <2>4, <2>5 DEF Keeps
  <1> QED
    BY <1>1, <1>2, <1>3, TypeCorrect, KeysAppliedOnce, ConfirmedLedgerSurvives, PTL DEF Spec

-----------------------------------------------------------------------------
(* No swap behind an approval.  The stack and the approval in force are    *)
(* read as one sequence of grants.  The strengthening says how an          *)
(* operator's grant relates to the grants above it and to the proposal on  *)
(* file; the seed may sit anywhere and is bound to nothing.                *)

Grants(c, t) == Append(c.history[t], c.approved[t])

ByOperator(a) == a # None /\ a.by # Seeder

(* Nothing above an operator's grant has a smaller version.                *)
Ordered(g) ==
    \A i, j \in 1..Len(g) : (i < j /\ ByOperator(g[i])) =>
        g[j] # None /\ g[i].version <= g[j].version

(* The proposal on file is as new as any grant, or is the one granted.     *)
Backed(g, p) ==
    \A i \in 1..Len(g) : ByOperator(g[i]) =>
        /\ p # None
        /\ g[i].version <= p.version
        /\ g[i].version = p.version => p.body = g[i].body

Accountable(c, t) == Ordered(Grants(c, t)) /\ Backed(Grants(c, t), c.proposals[t])

(* The grants of a catalog are approvals or the mark for none.             *)
LEMMA GrantsFacts ==
  ASSUME NEW c \in CatalogType, NEW t \in Tools
  PROVE  /\ Grants(c, t) \in Seq(Approval \cup {None})
         /\ Len(c.history[t]) \in Nat
         /\ Len(Grants(c, t)) = Len(c.history[t]) + 1
         /\ Grants(c, t)[Len(Grants(c, t))] = c.approved[t]
         /\ \A i \in 1..Len(c.history[t]) : Grants(c, t)[i] = c.history[t][i]
         /\ \A i \in 1..Len(Grants(c, t)) : Grants(c, t)[i] \in Approval \cup {None}
  <1>1. /\ c.history[t] \in Seq(Approval \cup {None})
        /\ c.approved[t] \in Approval \cup {None}
    BY DEF CatalogType
  <1>2. /\ Grants(c, t) \in Seq(Approval \cup {None})
        /\ Len(c.history[t]) \in Nat
        /\ Len(Grants(c, t)) = Len(c.history[t]) + 1
        /\ Grants(c, t)[Len(c.history[t]) + 1] = c.approved[t]
        /\ \A i \in 1..Len(c.history[t]) : Grants(c, t)[i] = c.history[t][i]
    BY <1>1, AppendFacts DEF Grants
  <1> QED
    BY <1>2, ElementOfSeq

(* The version of an approval is a number.                                 *)
LEMMA VersionFact ==
  ASSUME NEW a \in Approval \cup {None}, a # None
  PROVE  a.version \in Nat
  BY DEF Approval, Version

(* In an ordered stack nothing an operator granted is newer than the       *)
(* approval in force, and without one nothing granted is left.             *)
LEMMA TopIsNewest ==
  ASSUME NEW c \in CatalogType, NEW t \in Tools, Ordered(Grants(c, t)),
         NEW i \in 1..Len(Grants(c, t)), ByOperator(Grants(c, t)[i])
  PROVE  c.approved[t] # None /\ Grants(c, t)[i].version <= c.approved[t].version
  <1> DEFINE g == Grants(c, t)
  <1>1. /\ Len(g) \in Nat \ {0}
        /\ g[Len(g)] = c.approved[t]
        /\ g[i] \in Approval \cup {None}
    BY GrantsFacts
  <1> HIDE DEF g
  <1>2. CASE i = Len(g)
    BY <1>1, <1>2, VersionFact DEF ByOperator, g
  <1>3. CASE i < Len(g)
    BY <1>1, <1>3 DEF Ordered, g
  <1> QED
    BY <1>1, <1>2, <1>3 DEF g

(* Granting on top of an accountable stack.                                *)
LEMMA PushedGrant ==
  ASSUME NEW g \in Seq(Approval \cup {None}), NEW a \in Approval,
         Ordered(g),
         \A i \in 1..Len(g) : ByOperator(g[i]) => g[i].version <= a.version
  PROVE  Ordered(Append(g, a))
  <1> DEFINE n == Append(g, a)
  <1>1. /\ Len(g) \in Nat
        /\ Len(n) = Len(g) + 1
        /\ n[Len(g) + 1] = a
        /\ \A i \in 1..Len(g) : n[i] = g[i]
    BY AppendFacts
  <1>2. a # None
    BY CatalogAssumption
  <1> HIDE DEF n
  <1>3. ASSUME NEW i \in 1..Len(n), NEW j \in 1..Len(n), i < j, ByOperator(n[i])
        PROVE  n[j] # None /\ n[i].version <= n[j].version
    <2>1. i \in 1..Len(g) /\ n[i] = g[i]
      BY <1>1, <1>3
    <2>2. CASE j \in 1..Len(g)
      BY <1>1, <1>3, <2>1, <2>2 DEF Ordered
    <2>3. CASE j = Len(g) + 1
      BY <1>1, <1>2, <1>3, <2>1, <2>3
    <2> QED
      BY <1>1, <1>3, <2>2, <2>3
  <1> QED
    BY <1>3 DEF Ordered, n

(* The same, for the relation of the grants to the proposal on file.       *)
LEMMA PushedBacked ==
  ASSUME NEW g \in Seq(Approval \cup {None}), NEW a \in Approval, NEW p,
         Backed(g, p),
         ByOperator(a) => p # None /\ p.version = a.version /\ p.body = a.body
  PROVE  Backed(Append(g, a), p)
  <1> DEFINE n == Append(g, a)
  <1>1. /\ Len(g) \in Nat
        /\ Len(n) = Len(g) + 1
        /\ n[Len(g) + 1] = a
        /\ \A i \in 1..Len(g) : n[i] = g[i]
    BY AppendFacts
  <1> HIDE DEF n
  <1>2. a.version \in Nat
    BY DEF Approval, Version
  <1>3. ASSUME NEW i \in 1..Len(n), ByOperator(n[i])
        PROVE  /\ p # None
               /\ n[i].version <= p.version
               /\ n[i].version = p.version => p.body = n[i].body
    <2>1. CASE i \in 1..Len(g)
      BY <1>1, <1>3, <2>1 DEF Backed
    <2>2. CASE i = Len(g) + 1
      BY <1>1, <1>2, <1>3, <2>2
    <2> QED
      BY <1>1, <2>1, <2>2
  <1> QED
    BY <1>3 DEF Backed, n

(* Approving pushes a grant on the grants.                                 *)
LEMMA ApprovedGrants ==
  ASSUME NEW c \in CatalogType, NEW t \in Tools, NEW a \in Approval
  PROVE  Grants(Approved(c, t, a), t) = Append(Grants(c, t), a)
  BY DEF Grants, Approved, CatalogType

(* A rollback drops the last grant.                                        *)
LEMMA RolledBackGrants ==
  ASSUME NEW c \in CatalogType, NEW t \in Tools, c.history[t] # << >>
  PROVE  /\ Len(Grants(RolledBack(c, t), t)) = Len(Grants(c, t)) - 1
         /\ \A i \in 1..(Len(Grants(c, t)) - 1) :
              Grants(RolledBack(c, t), t)[i] = Grants(c, t)[i]
  <1> DEFINE h == c.history[t]
             front == SubSeq(h, 1, Len(h) - 1)
             g == Grants(RolledBack(c, t), t)
  <1>1. h \in Seq(Approval \cup {None})
    BY DEF CatalogType
  <1>2. /\ front \in Seq(Approval \cup {None})
        /\ h[Len(h)] \in Approval \cup {None}
        /\ Len(front) = Len(h) - 1
        /\ \A i \in 1..(Len(h) - 1) : front[i] = h[i]
    BY <1>1, PoppedStack
  <1>3. Len(h) \in Nat \ {0}
    BY <1>1, EmptySeq
  <1> HIDE DEF front
  <1>4. g = Append(front, h[Len(h)])
    BY DEF Grants, RolledBack, CatalogType, front
  <1>5. /\ Len(g) = Len(front) + 1
        /\ g[Len(front) + 1] = h[Len(h)]
        /\ \A i \in 1..Len(front) : g[i] = front[i]
    BY <1>2, <1>4, AppendFacts
  <1> HIDE DEF g, h
  <1>6. Len(g) = Len(h) /\ \A i \in 1..Len(h) : g[i] = h[i]
    BY <1>2, <1>3, <1>5
  <1> QED
    BY <1>6, GrantsFacts DEF g, h

(* A decision keeps every tool accountable.                                *)
LEMMA DecidedAccountable ==
  ASSUME NEW c \in CatalogType, NEW d \in Decision, CanDecide(c, d),
         NEW t \in Tools, Accountable(c, t)
  PROVE  Accountable(Decided(c, d), t)
  <1> DEFINE n == Decided(c, d)
             m == Applied(c, d)
  <1>1. /\ n.history = m.history /\ n.approved = m.approved
        /\ n.proposals = c.proposals
    BY DecidedFacts, AppliedElsewhere
  <1>2. Grants(n, t) = Grants(m, t)
    BY <1>1 DEF Grants
  <1>3. d.action \in Action /\ d.actor \in Actors
    BY DEF Decision
  <1>4. CASE t # d.tool
    <2>1. Grants(m, t) = Grants(c, t)
      BY <1>4, AppliedElsewhere DEF Grants
    <2> QED
      BY <1>1, <1>2, <2>1 DEF Accountable
  <1>5. CASE t = d.tool /\ d.action = "approve"
    <2> DEFINE a == ApprovalOf(c, t, d.actor)
               g == Grants(c, t)
    <2>1. a \in Approval /\ c.proposals[t] # None
      BY <1>3, <1>5, ApprovalOfType DEF CanDecide, Reviewable
    <2>2. Grants(m, t) = Append(g, a)
      BY <1>5, <2>1, ApprovedGrants DEF Applied
    <2>3. a.version = c.proposals[t].version /\ a.body = c.proposals[t].body
      BY DEF ApprovalOf
    <2>4. g \in Seq(Approval \cup {None})
      BY GrantsFacts
    <2>5. Ordered(Append(g, a))
      BY <2>1, <2>3, <2>4, PushedGrant DEF Accountable, Backed
    <2>6. Backed(Append(g, a), c.proposals[t])
      BY <2>1, <2>3, <2>4, PushedBacked DEF Accountable
    <2> QED
      BY <1>1, <1>2, <2>2, <2>5, <2>6 DEF Accountable
  <1>6. CASE t = d.tool /\ d.action = "rollback"
    <2> DEFINE g == Grants(c, t)
               r == Grants(m, t)
    <2>1. m = RolledBack(c, t) /\ c.history[t] # << >>
      BY <1>6 DEF Applied, CanDecide
    <2>2. Len(g) \in Nat /\ Len(r) = Len(g) - 1 /\ \A i \in 1..Len(r) : r[i] = g[i]
      BY <2>1, RolledBackGrants, GrantsFacts
    <2> HIDE DEF g, r, m
    <2>3. Ordered(r) /\ Backed(r, c.proposals[t])
      BY <2>2 DEF Accountable, Ordered, Backed, g
    <2> QED
      BY <1>1, <1>2, <2>3 DEF Accountable, r
  <1>7. CASE t = d.tool /\ d.action \in {"defer", "reject"}
    <2>1. Grants(m, t) = Grants(c, t)
      BY <1>7 DEF Applied, Reviewed, Grants, CatalogType
    <2> QED
      BY <1>1, <1>2, <2>1 DEF Accountable
  <1> QED
    BY <1>3, <1>4, <1>5, <1>6, <1>7 DEF Action

(* So does a submission: what it replaces was granted only if it is the    *)
(* same proposal.                                                          *)
LEMMA SubmittedAccountable ==
  ASSUME NEW c \in CatalogType, NEW u \in Tools, NEW p \in Proposal,
         CanSubmit(c, u, p), NEW t \in Tools, Accountable(c, t)
  PROVE  Accountable(Submitted(c, u, p), t)
  <1> DEFINE n == Submitted(c, u, p)
             g == Grants(c, t)
  <1>1. Grants(n, t) = g
    BY DEF Submitted, Grants, CatalogType
  <1>2. CASE t # u
    BY <1>1, <1>2 DEF Submitted, Accountable, CatalogType
  <1>3. CASE t = u
    <2>1. n.proposals[t] = p
      BY <1>3 DEF Submitted, CatalogType
    <2>2. p # None /\ p.version \in Nat
      BY CatalogAssumption DEF Proposal, Version
    <2>3. ASSUME NEW i \in 1..Len(g), ByOperator(g[i])
          PROVE  /\ g[i].version <= p.version
                 /\ g[i].version = p.version => p.body = g[i].body
      <3>1. c.approved[t] # None /\ g[i].version <= c.approved[t].version
        BY <2>3, TopIsNewest DEF Accountable
      <3>2. g[i].version \in Nat /\ c.approved[t].version \in Nat
        BY <2>3, <3>1, GrantsFacts, VersionFact DEF ByOperator, CatalogType
      <3>3. CASE p.version > c.approved[t].version
        BY <2>2, <3>1, <3>2, <3>3
      <3>4. CASE p.version = c.approved[t].version /\ c.proposals[t] = p
        BY <2>3, <3>1, <3>4 DEF Accountable, Backed
      <3> QED
        BY <1>3, <3>1, <3>3, <3>4 DEF CanSubmit
    <2>4. Backed(g, p)
      BY <2>2, <2>3 DEF Backed
    <2> QED
      BY <1>1, <2>1, <2>4 DEF Accountable
  <1> QED
    BY <1>2, <1>3

(* So does the seed: it approves over nothing, or over an older version.   *)
LEMMA SeededAccountable ==
  ASSUME NEW c \in CatalogType, NEW u \in Tools, NeedsSeed(c, u),
         NEW t \in Tools, Accountable(c, t)
  PROVE  Accountable(Seeded(c, u), t)
  <1> DEFINE n == Seeded(c, u)
             g == Grants(c, t)
  <1>1. n.proposals = c.proposals
    BY DEF Seeded, Approved, CatalogType
  <1>2. CASE t # u
    <2>1. Grants(n, t) = g
      BY <1>2 DEF Seeded, Approved, Grants, CatalogType
    <2> QED
      BY <1>1, <2>1 DEF Accountable
  <1>3. CASE t = u
    <2>1. SeedApproval \in Approval /\ SeedApproval.by = Seeder
      BY CatalogAssumption DEF SeedApproval, Approval, Version
    <2>2. SeedApproval.version = SeedVersion /\ SeedVersion \in Nat
      BY CatalogAssumption DEF SeedApproval
    <2>3. Grants(n, t) = Append(g, SeedApproval)
      BY <1>3, <2>1, ApprovedGrants DEF Seeded
    <2>4. g \in Seq(Approval \cup {None})
      BY GrantsFacts
    <2>5. ASSUME NEW i \in 1..Len(g), ByOperator(g[i])
          PROVE  g[i].version <= SeedApproval.version
      <3>1. c.approved[t] # None /\ g[i].version <= c.approved[t].version
        BY <2>5, TopIsNewest DEF Accountable
      <3>2. g[i].version \in Nat /\ c.approved[t].version \in Nat
        BY <2>5, <3>1, GrantsFacts, VersionFact DEF ByOperator, CatalogType
      <3> QED
        BY <1>3, <2>2, <3>1, <3>2 DEF NeedsSeed
    <2>6. Ordered(Append(g, SeedApproval))
      BY <2>1, <2>4, <2>5, PushedGrant DEF Accountable
    <2>7. Backed(Append(g, SeedApproval), c.proposals[t])
      BY <2>1, <2>4, PushedBacked DEF Accountable, ByOperator
    <2> QED
      BY <1>1, <2>3, <2>6, <2>7 DEF Accountable
  <1> QED
    BY <1>2, <1>3

(* Growing keeps every tool accountable.                                   *)
LEMMA GrownAccountable ==
  ASSUME NEW c \in CatalogType, NEW n, Grown(c, n),
         NEW t \in Tools, Accountable(c, t)
  PROVE  Accountable(n, t)
  BY DecidedAccountable, SubmittedAccountable, SeededAccountable, OfferedAssumption
     DEF Grown

(* An accountable tool has no swap behind an approval.                     *)
LEMMA AccountableIsVetted ==
  ASSUME NEW c \in CatalogType, \A t \in Tools : Accountable(c, t)
  PROVE  Vetted(c)
  <1>1. ASSUME NEW t \in Tools, NEW a \in Granted(c, t), c.proposals[t] # None,
               c.proposals[t].version = a.version
        PROVE  c.proposals[t].body = a.body
    <2>1. PICK i \in 1..Len(Grants(c, t)) : Grants(c, t)[i] = a
      BY GrantsFacts DEF Granted
    <2>2. ByOperator(a)
      BY DEF Granted, ByOperator
    <2> QED
      BY <1>1, <2>1, <2>2 DEF Accountable, Backed
  <1> QED
    BY <1>1 DEF Vetted

(* The proposal that carries the version of an operator's approval is the  *)
(* proposal the operator approved, in every catalog, under submissions,    *)
(* decisions, rollbacks, seeding and restarts.                             *)
THEOREM NoSwap == Spec => []NoSwapBehindApproval
  <1> DEFINE Inv == \A c \in Snapshots, t \in Tools : Accountable(c, t)
  <1>1. Init => Inv
    <2>1. ASSUME NEW t \in Tools PROVE Accountable(EmptyCatalog, t)
      <3>1. EmptyCatalog \in CatalogType
        BY EmptyIsCatalog
      <3>2. /\ EmptyCatalog.history[t] = << >>
            /\ EmptyCatalog.approved[t] = None
        BY DEF EmptyCatalog
      <3>3. Len(Grants(EmptyCatalog, t)) = 1 /\ Grants(EmptyCatalog, t)[1] = None
        BY <3>2 DEF Grants
      <3> QED
        BY <3>3 DEF Accountable, Ordered, Backed, ByOperator
    <2> QED
      BY <2>1 DEF Init, Snapshots
  <1>2. TypeOK /\ Inv /\ [Next]_vars => Inv'
    <2> SUFFICES ASSUME TypeOK, Inv, [Next]_vars
                 PROVE  Inv'
      OBVIOUS
    <2>1. mem \in CatalogType /\ \A t \in Tools : Accountable(mem, t)
      BY DEF Snapshots, TypeOK
    <2>2. \A c \in Snapshots', t \in Tools : Accountable(c, t)
      BY <2>1, StepMoves, MovedSnapshots, GrownAccountable
    <2> QED
      BY <2>2
  <1>3. TypeOK /\ Inv => NoSwapBehindApproval
    BY AccountableIsVetted DEF NoSwapBehindApproval, Snapshots, TypeOK
  <1> QED
    BY <1>1, <1>2, <1>3, TypeCorrect, PTL DEF Spec
=============================================================================
