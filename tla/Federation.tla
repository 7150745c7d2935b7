----------------------------- MODULE Federation -----------------------------
(***************************************************************************)
(* Peers and the trust they are given: src/federation/peers.ts, gossip.ts  *)
(* and service.ts, and their handlers in src/api/handlers.ts.              *)
(*                                                                         *)
(* A peer is a record under a name.  Operators name a peer by its host or  *)
(* by its URL, gossip always by its URL, and every writer puts a new       *)
(* record in the place of the old one of that name.  The status and the    *)
(* shared pools of a peer are left out: no decision about trust reads      *)
(* them.  Storing the pools is a second save of the same peers.            *)
(***************************************************************************)
EXTENDS Faults, FiniteSets

CONSTANTS
    Hosts,          \* hosts that announce themselves or are heard of
    Bootstrap,      \* hosts listed in BOOTSTRAP_PEERS
    Names,          \* names in use: a host, named as "url" or as "host"
    MinTrust,       \* NEXUS_CLOUD_FEDERATION_MIN_TRUST
    Ttl,            \* NEXUS_CLOUD_PEER_TRUST_TTL_HOURS
    MaxPeers,       \* bound: peers on record
    MaxClock        \* bound: time

ASSUME FederationAssumption ==
    /\ Bootstrap \subseteq Hosts
    /\ Names \subseteq [host : Hosts, form : {"url", "host"}]
    /\ \A h \in Hosts : [host |-> h, form |-> "url"] \in Names
    /\ MinTrust \in {"verified", "trusted"}
    /\ Ttl \in Nat \ {0}
    /\ MaxPeers \in Nat
    /\ MaxClock \in Nat

(* A peer is known if the record has its DID, which an operator's trust    *)
(* does not give it.  Nothing sets quarantined or revoked.                 *)
Trust == {"pending", "verified", "trusted", "expired"}
Peer == [name : Names, known : BOOLEAN, trust : Trust, lease : Nat]
State == Seq(Peer)

VARIABLES
    clock,
    joining,    \* loadPersistedPeers: the next record, 0 once it is through
    contacting, \* bootstrap hosts whose answer is awaited
    signed,     \* how long the last operator's trust of a name lasts
    vouched     \* the same, for announcements of bootstrap hosts

vars == <<cell, clock, up, joining, contacting, faults, signed, vouched>>

TypeOK ==
    /\ Views \subseteq State
    /\ clock \in Nat
    /\ up \in BOOLEAN
    /\ joining \in Nat
    /\ contacting \subseteq Bootstrap
    /\ faults \in Nat
    /\ signed \in [Names -> Nat]
    /\ vouched \in [Names -> Nat]

(* A first start: there are no peers to load yet.                          *)
Init ==
    /\ StartsWith(<< >>)
    /\ clock = 0
    /\ up = TRUE
    /\ joining = 0
    /\ contacting = Bootstrap
    /\ faults = 0
    /\ signed = [n \in Names |-> 0]
    /\ vouched = [n \in Names |-> 0]

Stored(states) ==
    /\ Len(states[Len(states)]) <= MaxPeers
    /\ \/ SavedInTurn(states) /\ NoFault
       \/ StoppedInTurn(states) /\ Fault

Serving == up /\ joining = 0

-----------------------------------------------------------------------------
(* upsertPeer: one record for each name, made anew.                        *)

Url(h) == [host |-> h, form |-> "url"]

PutPeer(s, p) ==
    IF \E i \in DOMAIN s : s[i].name = p.name
    THEN [i \in DOMAIN s |-> IF s[i].name = p.name THEN p ELSE s[i]]
    ELSE Append(s, p)

(* A request of an operator is signed, gossip is not.                      *)
Signed(n) == [name |-> n, known |-> FALSE, trust |-> "trusted", lease |-> clock + Ttl]

Heard(n) == [name |-> n, known |-> TRUE, trust |-> "pending", lease |-> clock + Ttl]

(* Mutant: gossip about a peer leaves its trust state as it was.           *)
WithHeardKeepingTrust(s, n) ==
    PutPeer(s, [Heard(n) EXCEPT !.trust =
        IF \E i \in DOMAIN s : s[i].name = n
        THEN s[CHOOSE i \in DOMAIN s : s[i].name = n].trust ELSE @])

WithHeard(s, n) == PutPeer(s, Heard(n))

(* handlePeerTrust.                                                        *)
TrustPeer(n) ==
    /\ Serving
    /\ signed' = [signed EXCEPT ![n] = clock + Ttl]
    /\ Stored(<<PutPeer(mem, Signed(n))>>)
    /\ UNCHANGED <<clock, up, joining, contacting, vouched>>

-----------------------------------------------------------------------------
(* Announcements of other nodes.                                           *)

Matches(s, h) == {i \in DOMAIN s : s[i].name.host = h}

Enough(trust) == trust \in {"trusted", MinTrust}

(* authorizeFederatedPeerAction looks at the first peer of the host.       *)
Authorized(s, h) ==
    \E i \in Matches(s, h) :
        (\A j \in Matches(s, h) : i <= j) /\ Enough(s[i].trust)

(* handleInboundAnnouncement: the peer is stored, then the storage pools   *)
(* that the announcement carries, if there are any.                        *)
Taken(h) ==
    LET next == WithHeard(mem, Url(h)) IN
    Stored(<<next>>) \/ Stored(<<next, next>>)

Announced(h) ==
    /\ Serving
    /\ h \notin Bootstrap
    /\ Authorized(mem, h)
    /\ Taken(h)
    /\ UNCHANGED <<clock, up, joining, contacting, signed, vouched>>

(* handleInboundBootstrapAnnouncement: stored as pending, then vouched for *)
(* by the operator's list.                                                 *)
AnnouncedBootstrap(h) ==
    /\ Serving
    /\ h \in Bootstrap
    /\ LET heard == WithHeard(mem, Url(h)) IN
         Stored(<<heard, PutPeer(mem, [Heard(Url(h)) EXCEPT !.trust = "verified"])>>)
    /\ vouched' = [vouched EXCEPT ![Url(h)] = clock + Ttl]
    /\ UNCHANGED <<clock, up, joining, contacting, signed>>

-----------------------------------------------------------------------------
(* contactPeer: the answer of a bootstrap host lists peers, of which the   *)
(* model takes up to two; a timeout, a refusal or an unreadable answer     *)
(* brings none.  A save that fails ends the loop.                          *)

Told(list) ==
    IF Len(list) = 1
    THEN <<WithHeard(mem, Url(list[1]))>>
    ELSE <<WithHeard(mem, Url(list[1])),
           WithHeard(WithHeard(mem, Url(list[1])), Url(list[2]))>>

ContactAnswers(h) ==
    /\ Serving
    /\ h \in contacting
    /\ contacting' = contacting \ {h}
    /\ \E list \in [1..1 -> Hosts] \cup [1..2 -> Hosts] : Stored(Told(list))
    /\ UNCHANGED <<clock, up, joining, signed, vouched>>

ContactFails(h) ==
    /\ Serving
    /\ h \in contacting
    /\ contacting' = contacting \ {h}
    /\ UNCHANGED <<cell, clock, up, joining, faults, signed, vouched>>

-----------------------------------------------------------------------------
(* A start.                                                                *)

(* sanitizeFederationPeer: no writer leaves a name or an identity empty,   *)
(* so no peer is dropped; an unknown trust state is as good as none.       *)
PeerLoaded(p) ==
    [p EXCEPT !.trust =
        IF @ \in Trust \cup {"quarantined", "revoked"} THEN @ ELSE "pending"]

PeersLoaded(s) == [i \in DOMAIN s |-> PeerLoaded(s[i])]

Start ==
    /\ ~up
    /\ up' = TRUE
    /\ LoadedAs(PeersLoaded(disk), PeersLoaded(older))
    /\ joining' = 1
    /\ UNCHANGED <<clock, contacting, faults, signed, vouched>>

(* loadPersistedPeers: every known peer is stored anew, as pending; then   *)
(* the bootstrap hosts are contacted.                                      *)
Rejoin ==
    /\ up
    /\ joining \in DOMAIN mem
    /\ \/ mem[joining].known /\ SavedInTurn(<<WithHeard(mem, mem[joining].name)>>)
       \/ ~mem[joining].known /\ UNCHANGED cell
    /\ joining' = joining + 1
    /\ UNCHANGED <<clock, up, contacting, faults, signed, vouched>>

(* Nothing catches the exception: no host is contacted, and the process    *)
(* may end or go on.                                                       *)
RejoinFails ==
    /\ up
    /\ joining \in DOMAIN mem
    /\ mem[joining].known
    /\ StoppedInTurn(<<WithHeard(mem, mem[joining].name)>>)
    /\ Fault
    /\ joining' = 0
    /\ up' \in BOOLEAN
    /\ UNCHANGED <<clock, contacting, signed, vouched>>

Joined ==
    /\ up
    /\ joining > Len(mem)
    /\ joining' = 0
    /\ contacting' = Bootstrap
    /\ UNCHANGED <<cell, clock, up, faults, signed, vouched>>

Kill ==
    /\ up
    /\ up' = FALSE
    /\ joining' = 0
    /\ contacting' = {}
    /\ UNCHANGED <<cell, clock, faults, signed, vouched>>

-----------------------------------------------------------------------------
(* The interval of src/server.ts, and time.                                *)

Lapsed(p) == p.lease <= clock

(* Mutant: only operators' trust expires.                                  *)
ExpiredIfTrusted(p) ==
    IF Lapsed(p) /\ p.trust = "trusted" THEN [p EXCEPT !.trust = "expired"] ELSE p

Expired(p) ==
    IF Lapsed(p) /\ p.trust # "expired" THEN [p EXCEPT !.trust = "expired"] ELSE p

AfterExpiry == [i \in DOMAIN mem |-> Expired(mem[i])]

(* applyNodeTrustExpiry saves before applyPeerTrustExpiry does.            *)
Interval ==
    /\ Serving
    /\ SavedInTurn(<<mem, AfterExpiry>>)
    /\ UNCHANGED <<clock, up, joining, contacting, faults, signed, vouched>>

(* One of the two saves, or an earlier function of the callback, throws.   *)
IntervalThrows ==
    /\ Serving
    /\ \/ StoppedInTurn(<<mem, AfterExpiry>>)
       \/ UNCHANGED cell
    /\ Fault
    /\ up' \in BOOLEAN
    /\ contacting' = IF up' THEN contacting ELSE {}
    /\ UNCHANGED <<clock, joining, signed, vouched>>

Tick ==
    /\ clock < MaxClock
    /\ clock' = clock + 1
    /\ UNCHANGED <<cell, up, joining, contacting, faults, signed, vouched>>

Next ==
    \/ \E n \in Names : TrustPeer(n)
    \/ \E h \in Hosts :
          Announced(h) \/ AnnouncedBootstrap(h) \/ ContactAnswers(h) \/ ContactFails(h)
    \/ Start \/ Rejoin \/ RejoinFails \/ Joined \/ Kill
    \/ Interval \/ IntervalThrows
    \/ Tick

Spec == Init /\ [][Next]_vars

(* The event loop keeps firing the interval while the process runs; faults *)
(* are finite.                                                             *)
FairSpec == Spec /\ WF_vars(Interval)

-----------------------------------------------------------------------------
(* Trust has a source and an end: whatever announcements, answers of       *)
(* contacted hosts, restarts and failed saves do to a record, which all    *)
(* renew its lease, it is trusted no longer than the last signed request   *)
(* of an operator for that very name allows, and verified no longer than   *)
(* the last announcement of that bootstrap host does.                      *)
Sourced(s) ==
    \A i \in DOMAIN s :
        /\ s[i].trust = "trusted" => s[i].lease <= signed[s[i].name]
        /\ s[i].trust = "verified" => s[i].lease <= vouched[s[i].name]

TrustHasSource == \A s \in Views : Sourced(s)

(* While the process serves, no lapsed trust is left standing: the interval *)
(* ends it, or the peer is trusted, announced or heard of again.           *)
Overdue ==
    /\ Serving
    /\ \E i \in DOMAIN mem : Lapsed(mem[i]) /\ mem[i].trust # "expired"

LapsedTrustEnds == Overdue ~> ~Overdue
=============================================================================
