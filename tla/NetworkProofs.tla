---------------------------- MODULE NetworkProofs ----------------------------
(***************************************************************************)
(* Proofs about what the platform says and hears over the network:         *)
(* Federation, and Surface with the Maintenance and CloudflareDns that it  *)
(* is made of, each with its own specification, for any hosts, operators,  *)
(* keys, names, requests, faults and restarts.                             *)
(***************************************************************************)
EXTENDS Federation, Surface, TLAPS

-----------------------------------------------------------------------------
(* Federation.  What a view may hold is a set of states that only grows,   *)
(* because a later signature or vouching lasts longer; every save,         *)
(* finished or not, leaves members of that set behind.                     *)

(* Peers whose trust is covered by what was signed and vouched for.        *)
Covered(p, sg, vo) ==
    /\ p.trust = "trusted" => p.lease <= sg[p.name]
    /\ p.trust = "verified" => p.lease <= vo[p.name]

GoodPeers(sg, vo) == {p \in Peer : Covered(p, sg, vo)}
GoodPeerLists(sg, vo) == Seq(GoodPeers(sg, vo))

(* No signature or vouching lasts longer than one given now would.         *)
Granted == \A n \in Names : signed[n] <= clock + Ttl /\ vouched[n] <= clock + Ttl

PeersLocal ==
    /\ clock \in Nat
    /\ up \in BOOLEAN
    /\ joining \in Nat
    /\ contacting \subseteq Bootstrap
    /\ faults \in Nat
    /\ signed \in [Names -> Nat]
    /\ vouched \in [Names -> Nat]

PeersInv == PeersLocal /\ Granted /\ Views \subseteq GoodPeerLists(signed, vouched)

-----------------------------------------------------------------------------
(* Saves in turn, finished or not, leave nothing in the views but the      *)
(* states before and those they were to store.                             *)
LEMMA StoresWithin ==
    ASSUME NEW S, Views \subseteq S,
           NEW states \in Seq(S), Len(states) > 0,
           SavedInTurn(states) \/ StoppedInTurn(states)
    PROVE  Views' \subseteq S
<1>1. /\ mem \in S /\ disk \in S /\ older \in S
      /\ Len(states) \in Nat /\ DOMAIN states = 1..Len(states)
      /\ \A k \in 1..Len(states) : states[k] \in S
  BY DEF Views
<1>2. CASE SavedInTurn(states)
  <2>1. mem' \in S /\ disk' \in S
    BY <1>1, <1>2 DEF SavedInTurn
  <2>2. older' \in S
    BY <1>1, <1>2 DEF SavedInTurn
  <2> QED BY <2>1, <2>2 DEF Views
<1>3. CASE StoppedInTurn(states)
  <2> DEFINE Stored0(k) == IF k = 1 THEN disk ELSE states[k - 1]
  <2>1. PICK k \in DOMAIN states :
          /\ mem' = IF k = 1 THEN mem ELSE states[k - 1]
          /\ \/ /\ disk' = Stored0(k)
                /\ \/ older' = Stored0(k)
                   \/ older' = IF k = 1 THEN older ELSE IF k = 2 THEN disk ELSE states[k - 2]
             \/ disk' = states[k] /\ older' = Stored0(k)
    BY <1>3 DEF StoppedInTurn
  <2>2. /\ k # 1 => states[k - 1] \in S
        /\ k # 1 /\ k # 2 => states[k - 2] \in S
        /\ states[k] \in S
    BY <1>1, <2>1
  <2>3. Stored0(k) \in S
    BY <1>1, <2>2
  <2>4. mem' \in S /\ disk' \in S /\ older' \in S
    BY <1>1, <2>1, <2>2, <2>3
  <2> QED BY <2>4 DEF Views
<1> QED BY <1>2, <1>3

(* A start takes the peers for what they were stored as                    *)
(* (sanitizeFederationPeer).                                               *)
LEMMA LoadedIsStored ==
    ASSUME NEW s, NEW si, NEW vo, s \in GoodPeerLists(si, vo)
    PROVE  PeersLoaded(s) = s
<1>1. s \in Seq(GoodPeers(si, vo))
  BY DEF GoodPeerLists
<1>2. ASSUME NEW i \in DOMAIN s PROVE PeerLoaded(s[i]) = s[i]
  <2>1. s[i] \in Peer
    BY <1>1 DEF GoodPeers
  <2> QED BY <2>1 DEF Peer, Trust, PeerLoaded
<1>3. s = [i \in DOMAIN s |-> s[i]]
  BY <1>1
<1> QED BY <1>2, <1>3 DEF PeersLoaded

(* A longer signature or vouching covers what a shorter one did.           *)
LEMMA LongerCovers ==
    ASSUME NEW sg \in [Names -> Nat], NEW vo \in [Names -> Nat],
           NEW sg2 \in [Names -> Nat], NEW vo2 \in [Names -> Nat],
           \A n \in Names : sg[n] <= sg2[n] /\ vo[n] <= vo2[n]
    PROVE  GoodPeerLists(sg, vo) \subseteq GoodPeerLists(sg2, vo2)
<1>1. GoodPeers(sg, vo) \subseteq GoodPeers(sg2, vo2)
  <2> SUFFICES ASSUME NEW p \in GoodPeers(sg, vo) PROVE p \in GoodPeers(sg2, vo2)
    OBVIOUS
  <2>1. p \in Peer /\ p.name \in Names /\ p.lease \in Nat /\ Covered(p, sg, vo)
    BY DEF GoodPeers, Peer
  <2>2. sg[p.name] \in Nat /\ sg2[p.name] \in Nat /\ vo[p.name] \in Nat /\ vo2[p.name] \in Nat
    BY <2>1
  <2> QED BY <2>1, <2>2 DEF GoodPeers, Covered
<1> QED BY <1>1 DEF GoodPeerLists

(* upsertPeer puts one good peer among good ones.                          *)
LEMMA PutKeepsGood ==
    ASSUME NEW sg, NEW vo, NEW s \in GoodPeerLists(sg, vo), NEW p \in GoodPeers(sg, vo)
    PROVE  PutPeer(s, p) \in GoodPeerLists(sg, vo)
<1> DEFINE G == GoodPeers(sg, vo)
<1> HIDE DEF G
<1>1. s \in Seq(G) /\ p \in G
  BY DEF GoodPeerLists, G
<1>2. CASE \E i \in DOMAIN s : s[i].name = p.name
  <2> DEFINE t == [i \in DOMAIN s |-> IF s[i].name = p.name THEN p ELSE s[i]]
  <2>1. Len(s) \in Nat /\ DOMAIN s = 1..Len(s) /\ \A i \in DOMAIN s : s[i] \in G
    BY <1>1
  <2>2. t \in [1..Len(s) -> G]
    BY <1>1, <2>1
  <2>3. t \in Seq(G)
    BY <2>1, <2>2
  <2> QED BY <1>2, <2>3 DEF PutPeer, GoodPeerLists, G
<1>3. CASE ~\E i \in DOMAIN s : s[i].name = p.name
  BY <1>1, <1>3 DEF PutPeer, GoodPeerLists, G
<1> QED BY <1>2, <1>3

(* What is heard of a peer needs no cover.                                 *)
LEMMA HeardIsGood ==
    ASSUME NEW sg, NEW vo, NEW n \in Names, clock \in Nat
    PROVE  Heard(n) \in GoodPeers(sg, vo)
BY FederationAssumption DEF Heard, GoodPeers, Covered, Peer, Trust

(* So hearing of a peer keeps a good state good.                           *)
LEMMA WithHeardIsGood ==
    ASSUME NEW sg, NEW vo, NEW s \in GoodPeerLists(sg, vo), NEW n \in Names, clock \in Nat
    PROVE  WithHeard(s, n) \in GoodPeerLists(sg, vo)
BY HeardIsGood, PutKeepsGood DEF WithHeard

(* An expiry takes trust away and gives none.                              *)
LEMMA ExpiryIsGood ==
    ASSUME NEW sg, NEW vo, mem \in GoodPeerLists(sg, vo)
    PROVE  AfterExpiry \in GoodPeerLists(sg, vo)
<1> DEFINE G == GoodPeers(sg, vo)
<1>1. ASSUME NEW p \in G PROVE Expired(p) \in G
  <2>1. p \in Peer /\ p = [name |-> p.name, known |-> p.known, trust |-> p.trust, lease |-> p.lease]
    BY DEF GoodPeers, Peer
  <2>2. CASE Lapsed(p) /\ p.trust # "expired"
    BY <2>1, <2>2 DEF Expired, GoodPeers, Covered, Peer, Trust
  <2>3. CASE ~(Lapsed(p) /\ p.trust # "expired")
    BY <2>3 DEF Expired
  <2> QED BY <2>2, <2>3
<1> HIDE DEF G
<1>2. mem \in Seq(G)
  BY DEF GoodPeerLists, G
<1>3. Len(mem) \in Nat /\ DOMAIN mem = 1..Len(mem) /\ \A i \in DOMAIN mem : mem[i] \in G
  BY <1>2
<1>4. AfterExpiry \in [1..Len(mem) -> G]
  BY <1>1, <1>3 DEF AfterExpiry
<1>5. AfterExpiry \in Seq(G)
  BY <1>3, <1>4
<1> QED BY <1>5 DEF GoodPeerLists, G

(* A name of a host, as gossip has it.                                     *)
LEMMA UrlIsName == ASSUME NEW h \in Hosts PROVE Url(h) \in Names
BY FederationAssumption DEF Url

-----------------------------------------------------------------------------
(* There is nothing at a first start.                                      *)
LEMMA PeersInit == Init => PeersInv
<1> SUFFICES ASSUME Init PROVE PeersInv
  OBVIOUS
<1>1. PeersLocal
  BY DEF Init, PeersLocal
<1>2. Granted
  BY FederationAssumption DEF Init, Granted
<1>3. Views = {<< >>}
  BY DEF Init, StartsWith, Views
<1>4. << >> \in GoodPeerLists(signed, vouched)
  BY DEF GoodPeerLists
<1> QED BY <1>1, <1>2, <1>3, <1>4 DEF PeersInv

(* A request stores its states, or some of them.                           *)
LEMMA StoredGood ==
    ASSUME NEW S, Views \subseteq S, NEW states \in Seq(S), Len(states) > 0,
           faults \in Nat, Stored(states)
    PROVE  Views' \subseteq S /\ faults' \in Nat
<1>1. SavedInTurn(states) \/ StoppedInTurn(states)
  BY DEF Stored
<1>2. Views' \subseteq S
  BY <1>1, StoresWithin
<1> QED BY <1>2 DEF Stored, Fault, NoFault

(* A signed request of an operator.                                        *)
LEMMA TrustPeerGood ==
    ASSUME PeersInv, NEW n \in Names, TrustPeer(n)
    PROVE  PeersInv'
<1> DEFINE sg == [signed EXCEPT ![n] = clock + Ttl]
           S == GoodPeerLists(sg, vouched)
<1>1. clock + Ttl \in Nat /\ PeersLocal /\ Granted /\ Views \subseteq GoodPeerLists(signed, vouched)
  BY FederationAssumption DEF PeersInv, PeersLocal
<1>2. sg \in [Names -> Nat] /\ sg[n] = clock + Ttl /\ \A m \in Names : signed[m] <= sg[m]
  BY <1>1 DEF PeersLocal, Granted
<1>3. Views \subseteq S
  <2>1. /\ signed \in [Names -> Nat] /\ vouched \in [Names -> Nat]
        /\ \A m \in Names : vouched[m] <= vouched[m]
    BY <1>1 DEF PeersLocal
  <2>2. GoodPeerLists(signed, vouched) \subseteq GoodPeerLists(sg, vouched)
    BY <1>2, <2>1, LongerCovers
  <2> QED BY <1>1, <2>2
<1>4. Signed(n) \in GoodPeers(sg, vouched)
  BY <1>1, <1>2 DEF Signed, GoodPeers, Covered, Peer, Trust
<1>5. mem \in S
  BY <1>3 DEF Views
<1>6. <<PutPeer(mem, Signed(n))>> \in Seq(S) /\ Len(<<PutPeer(mem, Signed(n))>>) > 0
  BY <1>4, <1>5, PutKeepsGood
<1> HIDE DEF S
<1>7. Views' \subseteq S /\ faults' \in Nat
  BY <1>1, <1>3, <1>6, StoredGood DEF TrustPeer, PeersLocal
<1>8. PeersLocal'
  BY <1>1, <1>2, <1>7 DEF TrustPeer, PeersLocal
<1>9. Granted'
  BY <1>1, <1>2 DEF TrustPeer, Granted, PeersLocal
<1> QED BY <1>7, <1>8, <1>9 DEF PeersInv, S, TrustPeer

(* A bootstrap host announces itself.                                      *)
LEMMA AnnouncedBootstrapGood ==
    ASSUME PeersInv, NEW h \in Hosts, AnnouncedBootstrap(h)
    PROVE  PeersInv'
<1> DEFINE n == Url(h)
           vo == [vouched EXCEPT ![n] = clock + Ttl]
           S == GoodPeerLists(signed, vo)
           heard == WithHeard(mem, n)
           p == [Heard(n) EXCEPT !.trust = "verified"]
<1>1. clock + Ttl \in Nat /\ PeersLocal /\ Granted /\ Views \subseteq GoodPeerLists(signed, vouched)
  BY FederationAssumption DEF PeersInv, PeersLocal
<1>2. n \in Names
  BY UrlIsName
<1>3. vo \in [Names -> Nat] /\ vo[n] = clock + Ttl /\ \A m \in Names : vouched[m] <= vo[m]
  BY <1>1, <1>2 DEF PeersLocal, Granted
<1>4. Views \subseteq S
  <2>1. /\ signed \in [Names -> Nat] /\ vouched \in [Names -> Nat]
        /\ \A m \in Names : signed[m] <= signed[m]
    BY <1>1 DEF PeersLocal
  <2>2. GoodPeerLists(signed, vouched) \subseteq GoodPeerLists(signed, vo)
    <3> HIDE DEF vo
    <3>1. /\ vo \in [Names -> Nat]
          /\ \A m \in Names : signed[m] <= signed[m] /\ vouched[m] <= vo[m]
      BY <1>3, <2>1
    <3> QED BY <2>1, <3>1, LongerCovers
  <2> QED BY <1>1, <2>2
<1>5. mem \in S /\ heard \in S
  BY <1>1, <1>2, <1>4, WithHeardIsGood DEF Views, PeersLocal
<1>6. p \in GoodPeers(signed, vo)
  <2> HIDE DEF n, vo
  <2>1. Heard(n) \in Peer /\ Heard(n).name = n /\ Heard(n).lease = clock + Ttl
    BY <1>1, <1>2 DEF Heard, Peer, Trust
  <2>2. p \in Peer /\ p.name = n /\ p.trust = "verified" /\ p.lease = clock + Ttl
    BY <2>1 DEF Peer, Trust
  <2>3. vo[n] \in Nat
    BY <1>2, <1>3
  <2>4. Covered(p, signed, vo)
    <3> HIDE DEF p
    <3> QED BY <1>1, <1>3, <2>2, <2>3 DEF Covered
  <2> QED BY <2>2, <2>4 DEF GoodPeers
<1>7. PutPeer(mem, p) \in S
  BY <1>5, <1>6, PutKeepsGood
<1> HIDE DEF S
<1>8. <<heard, PutPeer(mem, p)>> \in Seq(S) /\ Len(<<heard, PutPeer(mem, p)>>) > 0
  BY <1>5, <1>7
<1>9. Views' \subseteq S /\ faults' \in Nat
  BY <1>1, <1>4, <1>8, StoredGood DEF AnnouncedBootstrap, PeersLocal
<1>10. PeersLocal'
  BY <1>1, <1>3, <1>9 DEF AnnouncedBootstrap, PeersLocal
<1>11. Granted'
  BY <1>1, <1>2, <1>3 DEF AnnouncedBootstrap, Granted, PeersLocal
<1> QED BY <1>9, <1>10, <1>11 DEF PeersInv, S, AnnouncedBootstrap

(* Gossip and answers of contacted hosts: nothing is signed or vouched for. *)
LEMMA GossipGood ==
    ASSUME PeersInv, NEW h \in Hosts, Announced(h) \/ ContactAnswers(h) \/ ContactFails(h)
    PROVE  PeersInv'
<1> DEFINE S == GoodPeerLists(signed, vouched)
<1>1. PeersLocal /\ Granted /\ Views \subseteq S
  BY DEF PeersInv
<1>2. mem \in S
  BY <1>1 DEF Views
<1>3. \A s \in S : \A g \in Hosts : WithHeard(s, Url(g)) \in S
  BY <1>1, UrlIsName, WithHeardIsGood DEF PeersLocal
<1>4. UNCHANGED <<clock, up, joining, signed, vouched>> /\ contacting' \subseteq contacting
  BY DEF Announced, ContactAnswers, ContactFails
<1> HIDE DEF S
<1>5. Views' \subseteq S /\ faults' \in Nat
  <2>1. CASE Announced(h)
    <3> DEFINE next == WithHeard(mem, Url(h))
    <3>1. next \in S
      BY <1>2, <1>3
    <3> HIDE DEF next
    <3>2. Stored(<<next>>) \/ Stored(<<next, next>>)
      BY <2>1 DEF Announced, Taken, next
    <3>3. CASE Stored(<<next>>)
      <4>1. <<next>> \in Seq(S) /\ Len(<<next>>) > 0
        BY <3>1
      <4> QED BY <1>1, <3>3, <4>1, StoredGood DEF PeersLocal
    <3>4. CASE Stored(<<next, next>>)
      <4>1. <<next, next>> \in Seq(S) /\ Len(<<next, next>>) > 0
        BY <3>1
      <4> QED BY <1>1, <3>4, <4>1, StoredGood DEF PeersLocal
    <3> QED BY <3>2, <3>3, <3>4
  <2>2. CASE ContactAnswers(h)
    <3>1. PICK list \in [1..1 -> Hosts] \cup [1..2 -> Hosts] : Stored(Told(list))
      BY <2>2 DEF ContactAnswers
    <3>2. Told(list) \in Seq(S) /\ Len(Told(list)) > 0
      <4>1. CASE list \in [1..1 -> Hosts]
        <5>1. Len(list) = 1 /\ list[1] \in Hosts
          BY <4>1
        <5>2. WithHeard(mem, Url(list[1])) \in S
          BY <1>2, <1>3, <5>1
        <5> QED BY <5>1, <5>2 DEF Told
      <4>2. CASE list \in [1..2 -> Hosts]
        <5>1. Len(list) = 2 /\ list[1] \in Hosts /\ list[2] \in Hosts
          BY <4>2
        <5>2. WithHeard(mem, Url(list[1])) \in S
          BY <1>2, <1>3, <5>1
        <5>3. WithHeard(WithHeard(mem, Url(list[1])), Url(list[2])) \in S
          BY <1>3, <5>1, <5>2
        <5> QED BY <5>1, <5>2, <5>3 DEF Told
      <4> QED BY <4>1, <4>2
    <3> QED BY <1>1, <3>1, <3>2, StoredGood DEF PeersLocal
  <2>3. CASE ContactFails(h)
    BY <1>1, <2>3 DEF ContactFails, cell, Views, PeersLocal
  <2> QED BY <2>1, <2>2, <2>3
<1>6. PeersLocal' /\ Granted'
  BY <1>1, <1>4, <1>5 DEF PeersLocal, Granted
<1> QED BY <1>4, <1>5, <1>6 DEF PeersInv, S

(* Starts, what they store anew, and ends of the process.                  *)
LEMMA RestartGood ==
    ASSUME PeersInv, Start \/ Rejoin \/ RejoinFails \/ Joined \/ Kill
    PROVE  PeersInv'
<1> DEFINE S == GoodPeerLists(signed, vouched)
<1>1. PeersLocal /\ Granted /\ Views \subseteq S
  BY DEF PeersInv
<1>2. mem \in S
  BY <1>1 DEF Views
<1>3. UNCHANGED <<clock, signed, vouched>>
  BY DEF Start, Rejoin, RejoinFails, Joined, Kill
<1>4. up' \in BOOLEAN /\ joining' \in Nat /\ contacting' \subseteq Bootstrap
  <2>1. up \in BOOLEAN /\ joining \in Nat /\ contacting \subseteq Bootstrap
    BY <1>1 DEF PeersLocal
  <2>2. up' \in BOOLEAN
    BY <2>1 DEF Start, Rejoin, RejoinFails, Joined, Kill
  <2>3. joining' \in Nat
    BY <2>1 DEF Start, Rejoin, RejoinFails, Joined, Kill
  <2>4. contacting' \subseteq Bootstrap
    BY <2>1 DEF Start, Rejoin, RejoinFails, Joined, Kill
  <2> QED BY <2>2, <2>3, <2>4
<1>5. faults' \in Nat
  BY <1>1 DEF Start, Rejoin, RejoinFails, Joined, Kill, Fault, PeersLocal
<1>6. ASSUME joining \in DOMAIN mem PROVE WithHeard(mem, mem[joining].name) \in S
  <2>1. mem \in Seq(GoodPeers(signed, vouched))
    BY <1>2 DEF GoodPeerLists
  <2>2. mem[joining] \in GoodPeers(signed, vouched)
    BY <1>6, <2>1
  <2>3. mem[joining].name \in Names
    BY <2>2 DEF GoodPeers, Peer
  <2> QED BY <1>1, <1>2, <2>3, WithHeardIsGood DEF PeersLocal
<1> HIDE DEF S
<1>7. Views' \subseteq S
  <2>1. CASE Start
    <3>1. disk \in S /\ older \in S
      BY <1>1 DEF Views
    <3>2. PeersLoaded(disk) = disk /\ PeersLoaded(older) = older
      BY <3>1, LoadedIsStored DEF S
    <3> QED BY <1>1, <2>1, <3>1, <3>2 DEF Start, LoadedAs, Views
  <2>2. CASE Rejoin \/ RejoinFails
    <3> DEFINE next == WithHeard(mem, mem[joining].name)
    <3>1. next \in S
      BY <1>6, <2>2 DEF Rejoin, RejoinFails
    <3> HIDE DEF next
    <3>2. <<next>> \in Seq(S) /\ Len(<<next>>) > 0
      BY <3>1
    <3>3. SavedInTurn(<<next>>) \/ StoppedInTurn(<<next>>) \/ UNCHANGED cell
      BY <2>2 DEF Rejoin, RejoinFails, next
    <3>4. CASE SavedInTurn(<<next>>) \/ StoppedInTurn(<<next>>)
      BY <1>1, <3>2, <3>4, StoresWithin
    <3>5. CASE UNCHANGED cell
      BY <1>1, <3>5 DEF cell, Views
    <3> QED BY <3>3, <3>4, <3>5
  <2>3. CASE Joined \/ Kill
    BY <1>1, <2>3 DEF Joined, Kill, cell, Views
  <2> QED BY <2>1, <2>2, <2>3
<1>8. PeersLocal' /\ Granted'
  BY <1>1, <1>3, <1>4, <1>5 DEF PeersLocal, Granted
<1> QED BY <1>3, <1>7, <1>8 DEF PeersInv, S

(* The interval, and time.                                                 *)
LEMMA TimersGood ==
    ASSUME PeersInv, Interval \/ IntervalThrows \/ Tick
    PROVE  PeersInv'
<1> DEFINE S == GoodPeerLists(signed, vouched)
<1>1. PeersLocal /\ Granted /\ Views \subseteq S
  BY DEF PeersInv
<1>2. mem \in S
  BY <1>1 DEF Views
<1>3. AfterExpiry \in S
  BY <1>2, ExpiryIsGood
<1>4. UNCHANGED <<signed, vouched>> /\ clock' \in Nat /\ clock <= clock'
  BY <1>1 DEF Interval, IntervalThrows, Tick, PeersLocal
<1>5. up' \in BOOLEAN /\ joining' \in Nat /\ contacting' \subseteq Bootstrap
  BY <1>1 DEF Interval, IntervalThrows, Tick, PeersLocal
<1>6. faults' \in Nat
  BY <1>1 DEF Interval, IntervalThrows, Tick, Fault, PeersLocal
<1> HIDE DEF S
<1>7. Views' \subseteq S
  <2> DEFINE states == <<mem, AfterExpiry>>
  <2>1. states \in Seq(S) /\ Len(states) > 0
    BY <1>2, <1>3
  <2> HIDE DEF states
  <2>2. SavedInTurn(states) \/ StoppedInTurn(states) \/ UNCHANGED cell
    BY DEF Interval, IntervalThrows, Tick, states
  <2>3. CASE SavedInTurn(states) \/ StoppedInTurn(states)
    BY <1>1, <2>1, <2>3, StoresWithin
  <2>4. CASE UNCHANGED cell
    BY <1>1, <2>4 DEF cell, Views
  <2> QED BY <2>2, <2>3, <2>4
<1>8. PeersLocal'
  BY <1>1, <1>4, <1>5, <1>6 DEF PeersLocal
<1>9. Granted'
  BY <1>1, <1>4, FederationAssumption DEF PeersLocal, Granted
<1> QED BY <1>4, <1>7, <1>8, <1>9 DEF PeersInv, S

(* Every step keeps the invariant.                                         *)
LEMMA PeersNext == PeersInv /\ [Next]_vars => PeersInv'
<1>1. ASSUME PeersInv, UNCHANGED vars PROVE PeersInv'
  BY <1>1 DEF PeersInv, PeersLocal, Granted, Views, vars, cell
<1>2. ASSUME PeersInv, Next PROVE PeersInv'
  <2>1. CASE \E n \in Names : TrustPeer(n)
    BY <1>2, <2>1, TrustPeerGood
  <2>2. CASE \E h \in Hosts : AnnouncedBootstrap(h)
    BY <1>2, <2>2, AnnouncedBootstrapGood
  <2>3. CASE \E h \in Hosts : Announced(h) \/ ContactAnswers(h) \/ ContactFails(h)
    BY <1>2, <2>3, GossipGood
  <2>4. CASE Start \/ Rejoin \/ RejoinFails \/ Joined \/ Kill
    BY <1>2, <2>4, RestartGood
  <2>5. CASE Interval \/ IntervalThrows \/ Tick
    BY <1>2, <2>5, TimersGood
  <2> QED BY <1>2, <2>1, <2>2, <2>3, <2>4, <2>5 DEF Next
<1> QED BY <1>1, <1>2

-----------------------------------------------------------------------------
(* The invariant holds throughout.                                         *)
LEMMA PeersInvariant == Spec => []PeersInv
BY PeersInit, PeersNext, PTL DEF Spec

(* A good state is a sequence of peers, each of them covered.              *)
LEMMA GoodMeans ==
    ASSUME NEW s \in GoodPeerLists(signed, vouched)
    PROVE  s \in State /\ Sourced(s)
<1>1. s \in Seq(GoodPeers(signed, vouched)) /\ GoodPeers(signed, vouched) \subseteq Peer
  BY DEF GoodPeerLists, GoodPeers
<1>2. s \in Seq(Peer)
  BY <1>1
<1>3. \A i \in DOMAIN s : s[i] \in GoodPeers(signed, vouched)
  BY <1>1
<1>4. Sourced(s)
  BY <1>3 DEF GoodPeers, Covered, Sourced
<1> QED BY <1>2, <1>4 DEF State

(* Peers and what is known of them keep their types under every request,   *)
(* announcement, answer, expiry, failed save and restart.                  *)
THEOREM PeersTypeCorrect == Spec => []TypeOK
<1>1. PeersInv => TypeOK
  BY GoodMeans DEF PeersInv, PeersLocal, TypeOK
<1> QED BY <1>1, PeersInvariant, PTL

(* No announcement, answer or restart extends an operator's trust, and     *)
(* none but a bootstrap host's own announcement makes a peer verified.     *)
THEOREM TrustIsSourced == Spec => []TrustHasSource
<1>1. PeersInv => TrustHasSource
  BY GoodMeans DEF PeersInv, TrustHasSource
<1> QED BY <1>1, PeersInvariant, PTL

-----------------------------------------------------------------------------
(* Surface: the part of each of its modules, and its own.                  *)

(* Of the entries about a subject, one is the last: it is said here, step  *)
(* by step, what would otherwise take an induction over the log.           *)
HasLast(s) == About(s) # {} => \E i \in About(s) : \A j \in About(s) : j <= i

MaintenanceInv ==
    /\ MaintenanceTypeOK
    /\ \A s \in Subjects : HasLast(s)
    /\ MaintenanceLogged

(* A name that was not raced for has one creation under way at most, and   *)
(* then no record yet.                                                     *)
Lone(n) ==
    /\ zone[n] <= 1
    /\ Creating(n) => zone[n] = 0
    /\ \A r \in Requests : call[<<r, n>>] = "creation" =>
          /\ n \notin late
          /\ \A q \in Requests : call[<<q, n>>] = "creation" => q = r

DnsInv == DnsTypeOK /\ \A n \in DnsNames \ raced : Lone(n)

(* Every service holds a key that is accepted.                             *)
KeysInv ==
    /\ up \in BOOLEAN
    /\ key \in [current : Keys \cup {None}, previous : Keys \cup {None}]
    /\ holds \in [Services -> Keys]
    /\ RequiresApiKey => \A s \in Services : holds[s] \in {key.current, key.previous}

(* A request awaits something only in a process that let it, which has the *)
(* keys that it was let by until it ends.                                  *)
PendingInv ==
    /\ pending \in [Requests -> Request \cup {None}]
    /\ \A r \in Requests : pending[r] # None =>
          up /\ Proved(pending[r].route, pending[r].caller)

SurfaceInv == MaintenanceInv /\ DnsInv /\ KeysInv /\ PendingInv /\ unproved = {}

-----------------------------------------------------------------------------
(* Cloudflare.  What a step does to one name.                              *)

(* Calls that list, look for zones, update or have ended create nothing:   *)
(* a name is as lone as before when no creation of it begins and the       *)
(* records do not grow.                                                    *)
LEMMA StaysLone ==
    ASSUME DnsTypeOK, NEW n \in DnsNames, Lone(n),
           zone'[n] \in Nat, zone'[n] <= zone[n],
           n \in late' => n \in late,
           \A r \in Requests : call'[<<r, n>>] = "creation" => call[<<r, n>>] = "creation"
    PROVE  Lone(n)'
<1>1. Creating(n)' => Creating(n)
  BY DEF Creating
<1>2. zone[n] \in Nat
  BY DEF DnsTypeOK, MaxRecords
<1> QED BY <1>1, <1>2 DEF Lone

(* One call of a request about a name ends or goes on to anything but a    *)
(* creation.                                                               *)
LEMMA CallMoves ==
    ASSUME DnsInv, NEW r \in Requests, NEW n \in DnsNames, NEW what \in Awaits,
           what # "creation", Becomes(r, n, what), UNCHANGED raced
    PROVE  DnsInv'
<1>1. /\ DnsTypeOK /\ UNCHANGED <<zone, late, raced>>
      /\ call' = [call EXCEPT ![<<r, n>>] = what]
      /\ <<r, n>> \in Requests \X DnsNames
  BY DEF DnsInv, Becomes
<1>2. call' \in [Requests \X DnsNames -> Awaits]
  BY <1>1 DEF DnsTypeOK
<1>3. DnsTypeOK'
  BY <1>1, <1>2 DEF DnsTypeOK
<1>4. ASSUME NEW m \in DnsNames \ raced' PROVE Lone(m)'
  <2>1. Lone(m) /\ zone'[m] \in Nat /\ zone'[m] <= zone[m]
    BY <1>1 DEF DnsInv, DnsTypeOK, MaxRecords
  <2>2. \A q \in Requests : call'[<<q, m>>] = "creation" => call[<<q, m>>] = "creation"
    BY <1>1 DEF DnsTypeOK
  <2> QED BY <1>1, <2>1, <2>2, StaysLone
<1> QED BY <1>3, <1>4 DEF DnsInv

(* An empty list begins a creation; if one is under way already, or has    *)
(* been carried out since, the two race.                                   *)
LEMMA ListedStep ==
    ASSUME DnsInv, NEW r \in Requests, NEW n \in DnsNames, Listed(r, n)
    PROVE  DnsInv'
<1>1. CASE call[<<r, n>>] = "found"
  BY <1>1, CallMoves DEF Listed, Awaits
<1>2. CASE call[<<r, n>>] = "empty"
  <2>1. /\ DnsTypeOK /\ UNCHANGED <<zone, late>>
        /\ call' = [call EXCEPT ![<<r, n>>] = "creation"]
        /\ raced' = IF Creating(n) \/ zone[n] > 0 THEN raced \cup {n} ELSE raced
        /\ zone[n] \in Nat /\ <<r, n>> \in Requests \X DnsNames
    BY <1>2 DEF DnsInv, DnsTypeOK, Listed, Becomes, MaxRecords
  <2>2. call' \in [Requests \X DnsNames -> Awaits]
    BY <2>1 DEF DnsTypeOK, Awaits
  <2>3. DnsTypeOK'
    BY <2>1, <2>2 DEF DnsTypeOK
  <2>4. \A q \in Requests, m \in DnsNames :
           call'[<<q, m>>] = IF q = r /\ m = n THEN "creation" ELSE call[<<q, m>>]
    BY <2>1 DEF DnsTypeOK
  <2>5. ASSUME NEW m \in DnsNames \ raced' PROVE Lone(m)'
    <3>1. CASE m = n
      <4>1. ~Creating(n) /\ zone[n] = 0
        BY <2>1, <2>5, <3>1
      <4>2. n \notin late /\ \A q \in Requests : call[<<q, n>>] # "creation"
        BY <4>1 DEF Creating
      <4> QED BY <2>1, <2>4, <3>1, <4>1, <4>2 DEF Lone
    <3>2. CASE m # n
      <4>1. Lone(m) /\ zone'[m] \in Nat /\ zone'[m] <= zone[m]
        BY <2>1, <2>5 DEF DnsInv, DnsTypeOK, MaxRecords
      <4> QED BY <2>1, <2>4, <3>2, <4>1, StaysLone
    <3> QED BY <3>1, <3>2
  <2> QED BY <2>3, <2>5 DEF DnsInv
<1> QED BY <1>1, <1>2 DEF Listed

(* The one creation is carried out, on time or late, or left to itself.    *)
LEMMA CreationSteps ==
    ASSUME DnsInv, NEW n \in DnsNames,
           \/ \E r \in Requests : Created(r, n) \/ LosesTouch(r, n)
           \/ LateCreation(n)
    PROVE  DnsInv'
<1>1. DnsTypeOK /\ raced' = raced
  BY DEF DnsInv, Created, LosesTouch, LateCreation
<1>2. CASE LateCreation(n)
  <2>1. /\ n \in late /\ late' = late \ {n} /\ call' = call
        /\ zone' \in [DnsNames -> 0 .. MaxRecords]
        /\ zone'[n] <= zone[n] + 1
        /\ \A m \in DnsNames : m # n => zone'[m] = zone[m]
    <3>1. n \in late /\ late' = late \ {n} /\ call' = call
      BY <1>2 DEF LateCreation
    <3>2. \A m \in DnsNames : zone[m] \in 0 .. MaxRecords
      BY <1>1 DEF DnsTypeOK
    <3>3. CASE zone' = zone
      BY <1>1, <3>1, <3>2, <3>3 DEF DnsTypeOK, MaxRecords
    <3>4. CASE zone' = [zone EXCEPT ![n] = IF @ < MaxRecords THEN @ + 1 ELSE @]
      BY <1>1, <3>1, <3>2, <3>4 DEF DnsTypeOK, MaxRecords
    <3> QED BY <1>2, <3>3, <3>4 DEF LateCreation
  <2>2. DnsTypeOK'
    BY <1>1, <2>1 DEF DnsTypeOK
  <2>3. ASSUME NEW m \in DnsNames \ raced' PROVE Lone(m)'
    <3>1. Lone(m)
      BY <1>1, <2>3 DEF DnsInv
    <3>2. CASE m = n
      <4>1. Creating(n) /\ zone[n] = 0
        BY <2>1, <3>1, <3>2 DEF Creating, Lone
      <4>2. \A r \in Requests : call[<<r, n>>] # "creation"
        BY <2>1, <3>1, <3>2 DEF Lone
      <4>3. zone'[n] <= 1
        BY <2>1, <4>1
      <4> QED BY <2>1, <3>2, <4>2, <4>3 DEF Lone, Creating
    <3>3. CASE m # n
      <4>1. zone'[m] \in Nat /\ zone'[m] <= zone[m]
        BY <1>1, <2>1, <3>3 DEF DnsTypeOK, MaxRecords
      <4> QED BY <1>1, <2>1, <3>1, <3>3, <4>1, StaysLone
    <3> QED BY <3>2, <3>3
  <2> QED BY <2>2, <2>3 DEF DnsInv
<1>3. ASSUME NEW r \in Requests, Created(r, n) \/ LosesTouch(r, n) PROVE DnsInv'
  <2>1. /\ call[<<r, n>>] = "creation"
        /\ call' = [call EXCEPT ![<<r, n>>] = "none"]
        /\ <<r, n>> \in Requests \X DnsNames
    BY <1>3 DEF Created, LosesTouch
  <2>2. call' \in [Requests \X DnsNames -> Awaits]
    BY <1>1, <2>1 DEF DnsTypeOK, Awaits
  <2>3. \A q \in Requests, m \in DnsNames :
           call'[<<q, m>>] = IF q = r /\ m = n THEN "none" ELSE call[<<q, m>>]
    BY <1>1, <2>1 DEF DnsTypeOK
  <2>4. /\ zone' \in [DnsNames -> 0 .. MaxRecords]
        /\ zone'[n] <= zone[n] + 1
        /\ \A m \in DnsNames : m # n => zone'[m] = zone[m]
        /\ late' \subseteq DnsNames
        /\ \A m \in DnsNames : m # n => (m \in late' <=> m \in late)
        /\ n \in late' => n \in late \/ zone'[n] = zone[n]
    <3>1. \A m \in DnsNames : zone[m] \in 0 .. MaxRecords
      BY <1>1 DEF DnsTypeOK
    <3>2. CASE Created(r, n)
      BY <1>1, <3>1, <3>2 DEF DnsTypeOK, Created, MaxRecords
    <3>3. CASE LosesTouch(r, n)
      BY <1>1, <3>1, <3>3 DEF DnsTypeOK, LosesTouch, MaxRecords
    <3> QED BY <1>3, <3>2, <3>3
  <2>5. DnsTypeOK'
    BY <1>1, <2>2, <2>4 DEF DnsTypeOK
  <2>6. ASSUME NEW m \in DnsNames \ raced' PROVE Lone(m)'
    <3>1. Lone(m)
      BY <1>1, <2>6 DEF DnsInv
    <3>2. CASE m = n
      <4>1. /\ zone[n] = 0 /\ n \notin late
            /\ \A q \in Requests : call[<<q, n>>] = "creation" => q = r
        BY <2>1, <3>1, <3>2 DEF Creating, Lone
      <4>2. \A q \in Requests : call'[<<q, n>>] # "creation"
        BY <2>3, <4>1
      <4>3. zone'[n] <= 1 /\ (n \in late' => zone'[n] = 0)
        BY <2>4, <4>1
      <4> QED BY <3>2, <4>2, <4>3 DEF Lone, Creating
    <3>3. CASE m # n
      <4>1. zone'[m] \in Nat /\ zone'[m] <= zone[m]
        BY <1>1, <2>4, <3>3 DEF DnsTypeOK, MaxRecords
      <4> QED BY <1>1, <2>3, <2>4, <3>1, <3>3, <4>1, StaysLone
    <3> QED BY <3>2, <3>3
  <2> QED BY <2>5, <2>6 DEF DnsInv
<1> QED BY <1>2, <1>3

(* Requests begin by listing or by looking for the zone.                   *)
LEMMA PublishKeepsDns ==
    ASSUME DnsInv, NEW r \in Requests,
           BootstrapDns(r) \/ \E n \in DnsNames : EnsureCustomDomain(r, n)
    PROVE  DnsInv'
<1>1. ASSUME NEW n \in DnsNames, EnsureCustomDomain(r, n) PROVE DnsInv'
  BY <1>1, CallMoves DEF EnsureCustomDomain, Awaits
<1>2. CASE BootstrapDns(r)
  <2>1. /\ DnsTypeOK /\ UNCHANGED <<zone, late, raced>>
        /\ call' = [c \in Requests \X DnsNames |->
                      IF c[1] = r /\ c[2] \in OwnNames THEN "list" ELSE call[c]]
    BY <1>2 DEF DnsInv, BootstrapDns
  <2>2. call' \in [Requests \X DnsNames -> Awaits]
    BY <2>1 DEF DnsTypeOK, Awaits
  <2>3. DnsTypeOK'
    BY <2>1, <2>2 DEF DnsTypeOK
  <2>4. ASSUME NEW m \in DnsNames \ raced' PROVE Lone(m)'
    <3>1. Lone(m) /\ zone'[m] \in Nat /\ zone'[m] <= zone[m]
      BY <2>1 DEF DnsInv, DnsTypeOK, MaxRecords
    <3>2. \A q \in Requests : call'[<<q, m>>] = "creation" => call[<<q, m>>] = "creation"
      BY <2>1
    <3> QED BY <2>1, <3>1, <3>2, StaysLone
  <2> QED BY <2>3, <2>4 DEF DnsInv
<1> QED BY <1>1, <1>2

(* Every answer of Cloudflare, and records that somebody deletes.          *)
LEMMA DnsStepKeepsDns == DnsInv /\ DnsStep => DnsInv'
<1> SUFFICES ASSUME DnsInv, DnsStep PROVE DnsInv'
  OBVIOUS
<1>1. ASSUME NEW r \in Requests, NEW n \in DnsNames,
             \/ ZonesAnswered(r, n) \/ LookedUp(r, n) \/ ListFails(r, n)
             \/ Updated(r, n) \/ NotCreated(r, n)
      PROVE  DnsInv'
  <2>1. \E what \in {"none", "list", "found", "empty"} : Becomes(r, n, what)
    BY <1>1 DEF ZonesAnswered, LookedUp, ListFails, Updated, NotCreated
  <2>2. raced' = raced
    BY <1>1 DEF ZonesAnswered, LookedUp, ListFails, Updated, NotCreated
  <2> QED BY <2>1, <2>2, CallMoves DEF Awaits
<1>2. ASSUME NEW n \in DnsNames, Removed(n) PROVE DnsInv'
  <2>1. /\ DnsTypeOK /\ UNCHANGED <<call, late, raced>>
        /\ zone' = [zone EXCEPT ![n] = 0]
    BY <1>2 DEF DnsInv, Removed
  <2>2. DnsTypeOK'
    BY <2>1 DEF DnsTypeOK, MaxRecords
  <2>3. ASSUME NEW m \in DnsNames \ raced' PROVE Lone(m)'
    <3>1. Lone(m) /\ zone'[m] \in Nat /\ zone'[m] <= zone[m]
      BY <2>1 DEF DnsInv, DnsTypeOK, MaxRecords
    <3> QED BY <2>1, <3>1, StaysLone
  <2> QED BY <2>2, <2>3 DEF DnsInv
<1> QED BY <1>1, <1>2, ListedStep, CreationSteps DEF DnsStep

(* The process ends: creations that were under way may still arrive.       *)
LEMMA CutKeepsDns == DnsInv /\ DnsCut => DnsInv'
<1> SUFFICES ASSUME DnsInv, DnsCut PROVE DnsInv'
  OBVIOUS
<1>1. DnsTypeOK /\ UNCHANGED <<zone, raced>> /\ call' = NoCalls
  BY DEF DnsInv, DnsCut
<1>2. \A r \in Requests, n \in DnsNames : call'[<<r, n>>] = "none"
  BY <1>1 DEF NoCalls
<1>3. \A n \in DnsNames : n \in late' <=> Creating(n)
  BY <1>1 DEF DnsCut, Creating, DnsTypeOK
<1>4. DnsTypeOK'
  <2>1. call' \in [Requests \X DnsNames -> Awaits]
    BY <1>1 DEF NoCalls, Awaits
  <2>2. late' \subseteq DnsNames
    BY <1>1 DEF DnsCut, DnsTypeOK
  <2> QED BY <1>1, <2>1, <2>2 DEF DnsTypeOK
<1>5. ASSUME NEW n \in DnsNames \ raced' PROVE Lone(n)'
  BY <1>1, <1>2, <1>3 DEF DnsInv, Lone, Creating
<1> QED BY <1>4, <1>5 DEF DnsInv

-----------------------------------------------------------------------------
(* Maintenance.  What the log last said of a subject changes with a start  *)
(* or an end of its window, and with nothing else.                         *)
LEMMA LogGrows ==
    ASSUME log \in Seq(Entry), \A s \in Subjects : HasLast(s),
           NEW e \in Entry, log' = Append(log, e)
    PROVE  /\ log' \in Seq(Entry)
           /\ \A s \in Subjects : HasLast(s)'
           /\ \A s \in Subjects :
                 s # e.subject \/ e.word = "updated" => LastHeard(s)' = LastHeard(s)
           /\ e.word # "updated" =>
                 LastHeard(e.subject)' = IF e.word = "ended" THEN None ELSE e.at
<1>1. /\ log' \in Seq(Entry)
      /\ Len(log) \in Nat /\ Len(log') = Len(log) + 1
      /\ DOMAIN log = 1 .. Len(log) /\ DOMAIN log' = 1 .. (Len(log) + 1)
      /\ \A i \in DOMAIN log : log'[i] = log[i]
      /\ log'[Len(log) + 1] = e
  OBVIOUS
<1>2. ASSUME NEW s \in Subjects, s # e.subject \/ e.word = "updated"
      PROVE  LastHeard(s)' = LastHeard(s) /\ HasLast(s)'
  <2>1. About(s)' = About(s) /\ \A i \in About(s) : i \in DOMAIN log
    BY <1>1, <1>2 DEF About
  <2>2. LastAbout(s)' = LastAbout(s)
    BY <2>1 DEF LastAbout
  <2>3. HasLast(s)'
    BY <2>1 DEF HasLast
  <2>4. About(s) # {} => LastAbout(s) \in About(s)
    BY DEF HasLast, LastAbout
  <2>5. CASE About(s) = {}
    BY <2>1, <2>3, <2>5 DEF LastHeard
  <2>6. CASE LastAbout(s) \in About(s)
    BY <1>1, <2>1, <2>2, <2>3, <2>6 DEF LastHeard
  <2> QED BY <2>4, <2>5, <2>6
<1>3. ASSUME e.word # "updated"
      PROVE  /\ LastHeard(e.subject)' = IF e.word = "ended" THEN None ELSE e.at
             /\ HasLast(e.subject)'
  <2> DEFINE s == e.subject
             n == Len(log) + 1
  <2>1. n \in About(s)' /\ \A j \in About(s)' : j <= n /\ j \in Nat
    BY <1>1, <1>3 DEF About
  <2>2. LastAbout(s)' = n
    <3>1. \A i \in About(s)' : (\A j \in About(s)' : j <= i) => i = n
      BY <1>1, <2>1
    <3>2. \A j \in About(s)' : j <= n
      BY <2>1
    <3> QED BY <2>1, <3>1, <3>2 DEF LastAbout
  <2>3. HasLast(s)'
    BY <2>1 DEF HasLast
  <2> QED BY <1>1, <2>1, <2>2, <2>3 DEF LastHeard
<1> QED BY <1>1, <1>2, <1>3

(* What a save leaves of the views.                                        *)
LEMMA WindowViews ==
    ASSUME NEW next, Saved(next) \/ SavedTwice(next) \/ SavedOnce(next) \/ NotSaved(next)
    PROVE  Views' \subseteq Views \cup {next}
BY DEF Saved, SavedTwice, SavedOnce, NotSaved, Interrupted, Undone, Views

(* Saves and starts that bring no new state, and leave the log alone.      *)
LEMMA WindowsStay ==
    ASSUME MaintenanceInv, Views' \subseteq Views, ragged' \in BOOLEAN,
           UNCHANGED <<log, changes, unsettled>>
    PROVE  MaintenanceInv'
<1>1. MaintenanceTypeOK'
  BY DEF MaintenanceInv, MaintenanceTypeOK
<1>2. \A s \in Subjects : LastHeard(s)' = LastHeard(s) /\ HasLast(s)'
  BY DEF MaintenanceInv, LastHeard, LastAbout, About, HasLast
<1>3. MaintenanceLogged'
  BY <1>2 DEF MaintenanceInv, MaintenanceLogged
<1> QED BY <1>1, <1>2, <1>3 DEF MaintenanceInv

(* A change of the window of one subject, of which memory, files and log   *)
(* may miss a part only if the subject becomes unsettled.                  *)
LEMMA WindowChanges ==
    ASSUME MaintenanceInv, NEW s \in Subjects, NEW now \in Window \cup {None},
           NEW next, next = [mem EXCEPT ![s] = now],
           NEW word \in {"started", "updated", "ended"}, Changed(s, next, word),
           word = "started" => now # None /\ now.since = changes + 1,
           word = "updated" => mem[s] # None /\ now # None /\ now.since = mem[s].since,
           word = "ended" => now = None
    PROVE  MaintenanceInv'
<1> DEFINE e == [subject |-> s, word |-> word, at |-> changes + 1]
<1>1. /\ MaintenanceTypeOK /\ MaintenanceLogged /\ log \in Seq(Entry)
      /\ \A t \in Subjects : HasLast(t)
      /\ \A view \in Views : view \in [Subjects -> Window \cup {None}]
      /\ mem \in Views
  BY DEF MaintenanceInv, MaintenanceTypeOK, Views
<1>2. changes' = changes + 1 /\ changes' \in 0 .. MaxChanges /\ e \in Entry
  BY <1>1, MaintenanceAssumption DEF Changed, MaintenanceTypeOK, Entry
<1>3. e.subject = s /\ e.word = word /\ e.at = changes + 1
  OBVIOUS
<1>4. /\ next \in [Subjects -> Window \cup {None}] /\ next[s] = now
      /\ \A t \in Subjects : t # s => next[t] = mem[t]
  BY <1>1
<1>5. \/ /\ SavedTwice(next) /\ log' = Append(log, e)
         /\ unsettled' = IF word = "updated" THEN unsettled ELSE unsettled \ {s}
      \/ /\ NotSaved(next) \/ SavedTwice(next) \/ SavedOnce(next)
         /\ log' \in {log, Append(log, e)}
         /\ unsettled' = unsettled \cup {s}
  BY DEF Changed, Logged, Unlogged
<1>r. ragged' \in BOOLEAN
  BY <1>1 DEF Changed, Logged, Unlogged, MaintenanceTypeOK
<1> HIDE DEF e
<1>6. /\ log' \in Seq(Entry)
      /\ \A t \in Subjects : HasLast(t)'
      /\ \A t \in Subjects : t # s \/ word = "updated" => LastHeard(t)' = LastHeard(t)
      /\ log' = Append(log, e) /\ word # "updated" =>
            LastHeard(s)' = IF word = "ended" THEN None ELSE changes + 1
  <2>1. CASE log' = Append(log, e)
    BY <1>1, <1>2, <1>3, <2>1, LogGrows
  <2>2. CASE log' = log /\ log # Append(log, e)
    BY <1>1, <2>2 DEF HasLast, LastHeard, LastAbout, About
  <2> QED BY <1>5, <2>1, <2>2
<1>7. Views' \subseteq Views \cup {next}
  BY <1>5, WindowViews
<1>8. MaintenanceTypeOK'
  BY <1>1, <1>2, <1>4, <1>5, <1>6, <1>7, <1>r DEF MaintenanceTypeOK
<1>9. ASSUME NEW t \in Subjects \ unsettled', NEW view \in Views'
      PROVE  LastHeard(t)' = IF view[t] = None THEN None ELSE view[t].since
  <2>1. CASE t # s
    <3>1. t \notin unsettled /\ LastHeard(t)' = LastHeard(t)
      BY <1>5, <1>6, <1>9, <2>1
    <3>2. \E old \in Views : old[t] = view[t]
      BY <1>1, <1>4, <1>7, <2>1
    <3> QED BY <1>1, <3>1, <3>2 DEF MaintenanceLogged
  <2>2. CASE t = s
    <3>1. SavedTwice(next) /\ log' = Append(log, e) /\ (word = "updated" => s \notin unsettled)
      BY <1>5, <1>9, <2>2
    <3>2. view = next
      BY <3>1 DEF SavedTwice, Views
    <3>3. CASE word = "updated"
      <4>1. LastHeard(s)' = LastHeard(s) /\ LastHeard(s) = mem[s].since
        BY <1>1, <1>6, <3>1, <3>3 DEF MaintenanceLogged
      <4> QED BY <1>4, <2>2, <3>2, <3>3, <4>1
    <3>4. CASE word # "updated"
      BY <1>4, <1>6, <2>2, <3>1, <3>2, <3>4
    <3> QED BY <3>3, <3>4
  <2> QED BY <2>1, <2>2
<1> QED BY <1>6, <1>8, <1>9 DEF MaintenanceInv, MaintenanceLogged

(* Setting, updating and clearing a window.                                *)
LEMMA WindowRequests ==
    ASSUME MaintenanceInv, NEW s \in Subjects,
           ClearMaintenance(s) \/ \E operator \in Operators : SetMaintenance(s, operator)
    PROVE  MaintenanceInv'
<1>1. /\ mem \in [Subjects -> Window \cup {None}] /\ mem[s] \in Window \cup {None}
      /\ changes \in 0 .. MaxChanges
  BY DEF MaintenanceInv, MaintenanceTypeOK, Views
<1>2. ASSUME NEW operator \in Operators, SetMaintenance(s, operator) PROVE MaintenanceInv'
  <2> DEFINE now == [since |-> IF mem[s] = None THEN changes + 1 ELSE mem[s].since,
                     by |-> operator]
             word == IF mem[s] = None THEN "started" ELSE "updated"
  <2>1. changes < MaxChanges /\ Changed(s, [mem EXCEPT ![s] = now], word)
    BY <1>2 DEF SetMaintenance, SetTo, Changed
  <2>2. now \in Window /\ now # None
    BY <1>1, <2>1, MaintenanceAssumption DEF Window
  <2>3. /\ word \in {"started", "updated", "ended"} /\ word # "ended"
        /\ word = "started" => mem[s] = None
        /\ word = "updated" => mem[s] # None
        /\ now.since = IF mem[s] = None THEN changes + 1 ELSE mem[s].since
    OBVIOUS
  <2> HIDE DEF now, word
  <2> QED BY <2>1, <2>2, <2>3, WindowChanges
<1>3. CASE ClearMaintenance(s)
  <2>1. CASE mem[s] # None
    <3>1. Changed(s, [mem EXCEPT ![s] = None], "ended")
      BY <1>3, <2>1 DEF ClearMaintenance
    <3> QED BY <3>1, WindowChanges
  <2>2. CASE mem[s] = None
    <3>1. (Saved(mem) \/ NotSaved(mem)) /\ UNCHANGED <<log, ragged, changes, unsettled>>
      BY <1>3, <2>2 DEF ClearMaintenance
    <3>3. ragged' \in BOOLEAN
      BY <3>1 DEF MaintenanceInv, MaintenanceTypeOK
    <3>2. Views' \subseteq Views
      BY <3>1, WindowViews DEF Views
    <3> QED BY <3>1, <3>2, <3>3, WindowsStay
  <2> QED BY <2>1, <2>2
<1> QED BY <1>2, <1>3

(* The services store other parts of the same state.                       *)
LEMMA OthersStore == MaintenanceInv /\ StoreOther => MaintenanceInv'
<1> SUFFICES ASSUME MaintenanceInv, StoreOther PROVE MaintenanceInv'
  OBVIOUS
<1>1. Views' \subseteq Views
  BY WindowViews DEF StoreOther, Views
<1> QED BY <1>1, WindowsStay DEF StoreOther, Unlogged

-----------------------------------------------------------------------------
(* The surface.  Each part of the invariant depends on its own variables.  *)
LEMMA PartsStay ==
    /\ MaintenanceInv /\ UNCHANGED maintenance => MaintenanceInv'
    /\ DnsInv /\ UNCHANGED dns => DnsInv'
    /\ KeysInv /\ UNCHANGED <<up, key, holds>> => KeysInv'
    /\ PendingInv /\ UNCHANGED <<up, key, pending>> => PendingInv'
<1>1. ASSUME MaintenanceInv, UNCHANGED maintenance PROVE MaintenanceInv'
  <2>1. Views' = Views /\ UNCHANGED <<log, changes, unsettled>> /\ ragged' \in BOOLEAN
    BY <1>1 DEF maintenance, cell, Views, MaintenanceInv, MaintenanceTypeOK
  <2> QED BY <1>1, <2>1, WindowsStay
<1>2. ASSUME DnsInv, UNCHANGED dns PROVE DnsInv'
  BY <1>2 DEF DnsInv, DnsTypeOK, Lone, Creating, dns
<1>3. ASSUME KeysInv, UNCHANGED <<up, key, holds>> PROVE KeysInv'
  BY <1>3 DEF KeysInv, RequiresApiKey
<1>4. ASSUME PendingInv, UNCHANGED <<up, key, pending>> PROVE PendingInv'
  BY <1>4 DEF PendingInv, Proved, IsValidApiKey, RequiresApiKey
<1> QED BY <1>1, <1>2, <1>3, <1>4

(* A caller shows keys that services have, and sessions of operators.      *)
LEMMA CallersShow ==
    ASSUME KeysInv, NEW caller \in Callers
    PROVE  caller \in CallerRecord
BY DEF Callers, Caller, KeysInv, CallerRecord, Credential

(* No dispatch lets a write pass without a valid key, if one is configured *)
(* (handleApiRequest, the storage routes and the scopes' PUT), except      *)
(* decisions about the catalog.                                            *)
LEMMA WritesAreGated ==
    ASSUME NEW route \in Writes \cup DnsWrites \cup MaintenanceWrites, NEW caller,
           Passes(route, caller)
    PROVE  Accepted(caller) /\ route \notin CatalogWrites
<1>1. \/ route \in ChecksKey
      \/ route \notin BeforeGate /\ Gated(route)
  <2>1. CASE route \in PlatformWrites
    BY <2>1 DEF PlatformWrites, Gated, SelfAuthenticating, BeforeGate, StorageWrites, CatalogWrites
  <2>2. CASE route \in ToolWrites
    BY <2>2 DEF ToolWrites, Gated, SelfAuthenticating, BeforeGate, StorageWrites, CatalogWrites
  <2>3. CASE route \in ExposureWrites
    BY <2>3 DEF ExposureWrites, Gated, SelfAuthenticating, BeforeGate, StorageWrites, CatalogWrites
  <2>4. CASE route \in DnsWrites
    BY <2>4 DEF DnsWrites, Gated, SelfAuthenticating, BeforeGate, StorageWrites, CatalogWrites
  <2>5. CASE route \in MaintenanceWrites
    BY <2>5 DEF MaintenanceWrites, Gated, SelfAuthenticating, BeforeGate, StorageWrites,
                CatalogWrites
  <2> QED BY <2>1, <2>2, <2>3, <2>4, <2>5 DEF Writes, ChecksKey
<1>2. Accepted(caller)
  BY <1>1 DEF Passes
<1>3. route \notin CatalogWrites
  BY <1>1 DEF BeforeGate, ChecksKey, StorageWrites, ScopeWrites, CatalogWrites
<1> QED BY <1>2, <1>3

(* An accepted caller shows a valid key, if one is configured.             *)
LEMMA AcceptedShowsKey ==
    ASSUME KeysInv, NEW caller, Accepted(caller), RequiresApiKey
    PROVE  \E k \in {caller.bearer, caller.header} : IsValidApiKey(k)
<1> DEFINE k == Given(caller.bearer, caller.header)
<1>1. IsValidApiKey(k)
  BY DEF Accepted
<1>2. k \in {caller.bearer, caller.header}
  BY DEF Given
<1> HIDE DEF k
<1> QED BY <1>1, <1>2

(* So a handler's write is proved, unless it is one for operators.         *)
LEMMA PassingProves ==
    ASSUME KeysInv, NEW route \in Writes \cup DnsWrites, NEW caller, Passes(route, caller)
    PROVE  Proved(route, caller)
<1>1. Accepted(caller) /\ route \notin CatalogWrites
  BY WritesAreGated
<1>2. route \notin MaintenanceWrites
  BY DEF Writes, DnsWrites, StorageWrites, PlatformWrites, ToolWrites, ExposureWrites,
         ScopeWrites, MaintenanceWrites
<1> QED BY <1>1, <1>2, AcceptedShowsKey DEF Proved, OperatorWrites

(* And one for operators shows a credential that is not the key.           *)
LEMMA AskingProves ==
    ASSUME KeysInv, NEW route \in OperatorWrites, NEW caller, Passes(route, caller),
           OperatorCredential(caller) # None, ~IsValidApiKey(OperatorCredential(caller))
    PROVE  Proved(route, caller)
<1>1. CASE route \in CatalogWrites
  BY <1>1 DEF Proved
<1>2. CASE route \in MaintenanceWrites
  BY <1>2, WritesAreGated, AcceptedShowsKey DEF Proved
<1> QED BY <1>1, <1>2 DEF OperatorWrites

(* Requests that change something, or begin to.                            *)
LEMMA RequestSteps ==
    ASSUME SurfaceInv, NEW caller \in Callers,
           \/ \E route \in Writes : Write(route, caller)
           \/ \E r \in Requests, route \in DnsWrites : Publish(r, route, caller)
           \/ \E r \in Requests, route \in OperatorWrites, s \in Subjects :
                 AskOperator(r, route, s, caller)
    PROVE  SurfaceInv'
<1>1. ASSUME NEW route \in Writes, Write(route, caller) PROVE SurfaceInv'
  <2>1. unproved' = {}
    BY <1>1, PassingProves DEF SurfaceInv, Write, Recorded
  <2> QED BY <1>1, <2>1, PartsStay DEF SurfaceInv, Write
<1>2. ASSUME NEW r \in Requests, NEW route \in DnsWrites, Publish(r, route, caller)
      PROVE  SurfaceInv'
  <2>1. unproved' = {}
    BY <1>2, PassingProves DEF SurfaceInv, Publish, Recorded
  <2>2. DnsInv'
    BY <1>2, PublishKeepsDns DEF SurfaceInv, Publish
  <2> QED BY <1>2, <2>1, <2>2, PartsStay DEF SurfaceInv, Publish
<1>3. ASSUME NEW r \in Requests, NEW route \in OperatorWrites, NEW s \in Subjects,
             AskOperator(r, route, s, caller)
      PROVE  SurfaceInv'
  <2> DEFINE p == [caller |-> caller, route |-> route, subject |-> s, awaits |-> "identity"]
  <2>1. /\ up' /\ UNCHANGED <<maintenance, dns, up, key, holds, unproved>>
        /\ pending' = [pending EXCEPT ![r] = p]
    BY <1>3 DEF AskOperator, Idling
  <2>2. p \in Request /\ p.route = route /\ p.caller = caller
    BY CallersShow DEF Request, SurfaceInv
  <2>3. Proved(route, caller)
    BY <1>3, AskingProves DEF SurfaceInv, AskOperator
  <2> HIDE DEF p
  <2>4. PendingInv'
    BY <2>1, <2>2, <2>3 DEF SurfaceInv, PendingInv, Proved, IsValidApiKey, RequiresApiKey
  <2> QED BY <2>1, <2>4, PartsStay DEF SurfaceInv
<1> QED BY <1>1, <1>2, <1>3

(* What becomes of an operator's request.                                  *)
LEMMA AnsweredSteps ==
    ASSUME SurfaceInv, NEW r \in Requests, TurnedAway(r) \/ Allowed(r) \/ BodyRead(r)
    PROVE  SurfaceInv'
<1>1. /\ pending \in [Requests -> Request \cup {None}]
      /\ pending[r] # None
      /\ pending[r] \in Request /\ pending[r].subject \in Subjects
      /\ up /\ Proved(pending[r].route, pending[r].caller)
  BY DEF SurfaceInv, PendingInv, TurnedAway, Allowed, BodyRead, Awaiting, Request
<1>2. ASSUME Ends(r) PROVE PendingInv' /\ UNCHANGED <<dns, up, key, holds>>
  BY <1>1, <1>2 DEF SurfaceInv, PendingInv, Ends, Proved, IsValidApiKey, RequiresApiKey
<1>3. ASSUME Changes(r) PROVE SurfaceInv'
  <2>1. Ends(r) /\ unproved' = {}
    BY <1>1, <1>3 DEF Changes, Recorded, SurfaceInv
  <2>2. MaintenanceInv'
    <3>1. CASE UNCHANGED maintenance
      BY <3>1, PartsStay DEF SurfaceInv
    <3>2. CASE ClearMaintenance(pending[r].subject)
      BY <1>1, <3>2, WindowRequests DEF SurfaceInv
    <3>3. ASSUME NEW operator \in Operators, SetMaintenance(pending[r].subject, operator)
          PROVE  MaintenanceInv'
      BY <1>1, <3>3, WindowRequests DEF SurfaceInv
    <3> QED BY <1>3, <3>1, <3>2, <3>3 DEF Changes, IdentityOf
  <2> QED BY <1>2, <2>1, <2>2, PartsStay DEF SurfaceInv
<1>4. CASE TurnedAway(r)
  BY <1>2, <1>4, PartsStay DEF SurfaceInv, TurnedAway
<1>5. CASE /\ pending' = [pending EXCEPT ![r].awaits = "body"]
           /\ UNCHANGED <<maintenance, dns, up, key, holds, unproved>>
  <2> DEFINE p == [pending[r] EXCEPT !.awaits = "body"]
  <2>1. /\ p \in Request /\ pending' = [pending EXCEPT ![r] = p]
        /\ p.route = pending[r].route /\ p.caller = pending[r].caller
    BY <1>1, <1>5 DEF Request
  <2> HIDE DEF p
  <2>2. PendingInv'
    BY <1>1, <1>5, <2>1 DEF SurfaceInv, PendingInv, Proved, IsValidApiKey, RequiresApiKey
  <2> QED BY <1>5, <2>2, PartsStay DEF SurfaceInv
<1> QED BY <1>3, <1>4, <1>5 DEF Allowed, BodyRead

(* The rotation: whoever has the old key is served until nobody has it.    *)
LEMMA RotationSteps ==
    ASSUME KeysInv,
           \/ \E k \in Keys : StartRotation(k)
           \/ \E s \in Services : TakeKey(s)
           \/ EndRotation \/ SurfaceStart \/ SurfaceKill
    PROVE  KeysInv'
<1>1. ASSUME NEW k \in Keys, StartRotation(k) PROVE KeysInv'
  <2>1. /\ RequiresApiKey /\ key.previous = None /\ holds' = holds /\ up' \in BOOLEAN
        /\ key' = [current |-> k, previous |-> key.current]
    BY <1>1 DEF StartRotation, Restarts
  <2>2. \A s \in Services : holds[s] = key.current
    BY <2>1, SurfaceAssumption DEF KeysInv
  <2> QED BY <2>1, <2>2 DEF KeysInv
<1>2. ASSUME NEW s \in Services, TakeKey(s) PROVE KeysInv'
  <2>1. /\ RequiresApiKey /\ holds' = [holds EXCEPT ![s] = key.current]
        /\ UNCHANGED <<up, key>>
    BY <1>2 DEF TakeKey
  <2>2. key.current \in Keys
    BY <2>1 DEF KeysInv, RequiresApiKey
  <2>3. holds' \in [Services -> Keys]
    BY <2>1, <2>2 DEF KeysInv
  <2>4. \A t \in Services : holds'[t] \in {key.current, key.previous}
    BY <2>1 DEF KeysInv
  <2> QED BY <2>1, <2>3, <2>4 DEF KeysInv
<1>3. CASE EndRotation
  <2>1. /\ \A s \in Services : holds[s] = key.current
        /\ key' = [key EXCEPT !.previous = None] /\ holds' = holds /\ up' \in BOOLEAN
    BY <1>3 DEF EndRotation, Restarts
  <2>2. /\ key' \in [current : Keys \cup {None}, previous : Keys \cup {None}]
        /\ key'.current = key.current
    BY <2>1 DEF KeysInv
  <2> QED BY <2>1, <2>2 DEF KeysInv
<1>4. CASE SurfaceStart \/ SurfaceKill
  <2>1. UNCHANGED <<key, holds>> /\ up' \in BOOLEAN
    BY <1>4 DEF SurfaceStart, SurfaceKill, Restarts
  <2> QED BY <2>1 DEF KeysInv, RequiresApiKey
<1> QED BY <1>1, <1>2, <1>3, <1>4

(* The process ends and starts, whichever keys it starts with.             *)
LEMMA ProcessSteps ==
    ASSUME SurfaceInv,
           \/ \E k \in Keys : StartRotation(k)
           \/ \E s \in Services : TakeKey(s)
           \/ EndRotation \/ SurfaceStart \/ SurfaceKill
    PROVE  SurfaceInv'
<1>1. KeysInv' /\ unproved' = {}
  <2>1. unproved' = {}
    BY DEF SurfaceInv, StartRotation, TakeKey, EndRotation, SurfaceStart, SurfaceKill
  <2> QED BY <2>1, RotationSteps DEF SurfaceInv
<1>2. ASSUME Restarts, UNCHANGED <<dns, pending>> PROVE SurfaceInv'
  <2>1. Views' \subseteq Views /\ UNCHANGED <<log, changes, unsettled>> /\ ragged' \in BOOLEAN
    BY <1>2 DEF Restarts, Reloaded, LoadedAs, Views, SurfaceInv, MaintenanceInv,
                MaintenanceTypeOK
  <2>2. MaintenanceInv'
    BY <2>1, WindowsStay DEF SurfaceInv
  <2>3. PendingInv'
    BY <1>2 DEF Restarts, SurfaceInv, PendingInv
  <2> QED BY <1>1, <1>2, <2>2, <2>3, PartsStay DEF SurfaceInv
<1>3. ASSUME NEW s \in Services, TakeKey(s) PROVE SurfaceInv'
  BY <1>1, <1>3, PartsStay DEF SurfaceInv, TakeKey
<1>4. CASE SurfaceKill
  <2>1. PendingInv'
    BY <1>4 DEF SurfaceKill, PendingInv
  <2>2. DnsInv'
    BY <1>4, CutKeepsDns DEF SurfaceInv, SurfaceKill
  <2>3. MaintenanceInv'
    BY <1>4, PartsStay DEF SurfaceInv, SurfaceKill
  <2> QED BY <1>1, <2>1, <2>2, <2>3 DEF SurfaceInv
<1> QED BY <1>2, <1>3, <1>4 DEF StartRotation, EndRotation, SurfaceStart

(* A first start: no windows, no calls, and either no key or one for all.  *)
LEMMA SurfaceStarts == SurfaceInit => SurfaceInv
<1> SUFFICES ASSUME SurfaceInit PROVE SurfaceInv
  OBVIOUS
<1>1. MaintenanceInv
  <2>1. /\ Views = {NoWindows} /\ log = <<>> /\ changes = 0 /\ unsettled = {}
        /\ ragged = FALSE
    BY DEF SurfaceInit, MaintenanceInit, StartsWith, Views
  <2>2. MaintenanceTypeOK
    <3>1. ragged \in BOOLEAN
      BY <2>1
    <3>2. Views \subseteq [Subjects -> Window \cup {None}] /\ log \in Seq(Entry)
      BY <2>1 DEF NoWindows
    <3>3. changes \in 0 .. MaxChanges /\ unsettled \subseteq Subjects
      BY <2>1, MaintenanceAssumption
    <3> QED BY <3>1, <3>2, <3>3 DEF MaintenanceTypeOK
  <2>3. \A s \in Subjects : About(s) = {}
    BY <2>1 DEF About
  <2>4. \A s \in Subjects : HasLast(s) /\ LastHeard(s) = None
    BY <2>3 DEF HasLast, LastHeard
  <2>5. MaintenanceLogged
    BY <2>1, <2>4 DEF MaintenanceLogged, NoWindows
  <2> QED BY <2>2, <2>4, <2>5 DEF MaintenanceInv
<1>2. DnsInv
  <2>1. /\ zone \in [DnsNames -> {0, 1}] /\ call = NoCalls /\ late = {} /\ raced = {}
    BY DEF SurfaceInit, DnsInit
  <2>2. DnsTypeOK
    BY <2>1 DEF DnsTypeOK, NoCalls, Awaits, MaxRecords
  <2>3. \A r \in Requests, n \in DnsNames : call[<<r, n>>] = "none"
    BY <2>1 DEF NoCalls
  <2>4. ASSUME NEW n \in DnsNames PROVE Lone(n)
    <3>1. ~Creating(n)
      BY <2>1, <2>3 DEF Creating
    <3>2. zone[n] \in {0, 1}
      BY <2>1
    <3> QED BY <2>1, <2>3, <3>1, <3>2 DEF Lone
  <2> QED BY <2>2, <2>4 DEF DnsInv
<1>3. KeysInv
  BY DEF SurfaceInit, KeysInv, RequiresApiKey
<1>4. PendingInv
  BY DEF SurfaceInit, PendingInv
<1> QED BY <1>1, <1>2, <1>3, <1>4 DEF SurfaceInit, SurfaceInv

(* Every step keeps the invariant.                                         *)
LEMMA SurfaceSteps == SurfaceInv /\ [SurfaceNext]_surface => SurfaceInv'
<1>1. ASSUME SurfaceInv, UNCHANGED surface PROVE SurfaceInv'
  BY <1>1, PartsStay DEF SurfaceInv, surface
<1>2. ASSUME SurfaceInv, WriteOther PROVE SurfaceInv'
  BY <1>2, OthersStore, PartsStay DEF SurfaceInv, WriteOther
<1>3. ASSUME SurfaceInv, DnsAnswer PROVE SurfaceInv'
  BY <1>3, DnsStepKeepsDns, PartsStay DEF SurfaceInv, DnsAnswer
<1>4. ASSUME SurfaceInv, SurfaceNext PROVE SurfaceInv'
  BY <1>2, <1>3, <1>4, RequestSteps, AnsweredSteps, ProcessSteps DEF SurfaceNext
<1> QED BY <1>1, <1>4

-----------------------------------------------------------------------------
(* The invariant holds throughout.                                         *)
LEMMA SurfaceInvariant == SurfaceSpec => []SurfaceInv
BY SurfaceStarts, SurfaceSteps, PTL DEF SurfaceSpec

(* Windows, calls, keys and requests keep their types.                     *)
THEOREM SurfaceTypeCorrect == SurfaceSpec => []SurfaceTypeOK
<1>1. SurfaceInv => SurfaceTypeOK
  BY DEF SurfaceInv, MaintenanceInv, DnsInv, KeysInv, PendingInv, SurfaceTypeOK
<1> QED BY <1>1, SurfaceInvariant, PTL

(* Nothing is changed for one who may not change it: a valid key, while    *)
(* one is configured, for every change but decisions about the catalog     *)
(* (handleApiRequest, the storage routes and the scopes' PUT), and for     *)
(* these and the maintenance windows a credential that is not Cloud's key  *)
(* (handleCatalogDecision, handleMaintenanceWrite).                        *)
THEOREM WritesAreProved == SurfaceSpec => []GatedMutation
<1>1. SurfaceInv => GatedMutation
  BY DEF SurfaceInv, GatedMutation
<1> QED BY <1>1, SurfaceInvariant, PTL

(* No step of a key rotation refuses a service, whichever key it still     *)
(* sends (isValidApiKey takes the current and the previous one).           *)
THEOREM RotationRefusesNobody == SurfaceSpec => []RotationServes
<1>1. SurfaceInv => RotationServes
  <2> SUFFICES ASSUME SurfaceInv, NEW s \in Services
               PROVE  /\ Accepted(Caller(holds[s], None, None))
                      /\ Accepted(Caller(None, holds[s], None))
    BY DEF RotationServes
  <2>1. holds[s] \in Keys /\ holds[s] # None
    BY SurfaceAssumption DEF SurfaceInv, KeysInv
  <2>2. RequiresApiKey => IsValidApiKey(holds[s])
    BY <2>1 DEF SurfaceInv, KeysInv, IsValidApiKey
  <2> QED BY <2>1, <2>2 DEF Accepted, Caller, Given
<1> QED BY <1>1, SurfaceInvariant, PTL

(* Memory and both files agree with the audit log about every window whose *)
(* last change did not fail half way (setMaintenance, clearMaintenance).   *)
THEOREM WindowsAreLogged == SurfaceSpec => []MaintenanceLogged
<1>1. SurfaceInv => MaintenanceLogged
  BY DEF SurfaceInv, MaintenanceInv
<1> QED BY <1>1, SurfaceInvariant, PTL

(* Two records of a name come only from a creation that was sent when      *)
(* another was under way or had been carried out since the list: failures, *)
(* lost answers and restarts alone never make a second one.                *)
THEOREM RecordsAreSingle == SurfaceSpec => []OneRecordUnlessRaced
<1>1. SurfaceInv => OneRecordUnlessRaced
  <2> SUFFICES ASSUME SurfaceInv, NEW n \in DnsNames, n \notin raced
               PROVE  ~(zone[n] > 1)
    BY DEF OneRecordUnlessRaced
  <2>1. Lone(n) /\ zone[n] \in 0 .. MaxRecords
    BY DEF SurfaceInv, DnsInv, DnsTypeOK
  <2> QED BY <2>1 DEF Lone
<1> QED BY <1>1, SurfaceInvariant, PTL
=============================================================================
