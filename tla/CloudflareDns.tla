--------------------------- MODULE CloudflareDns ---------------------------
(***************************************************************************)
(* Publishing names as CNAME records at Cloudflare, src/cloudflare-dns.ts: *)
(* a call lists the records of a name and then updates the one it found or *)
(* creates one.  Surface has the requests, each with a call per name.      *)
(*                                                                         *)
(* The service is external.  A list, an update or a creation may fail, an  *)
(* answer may be lost or late, and a creation whose caller is gone may     *)
(* still arrive.  Whether the service admits a second record of a name is  *)
(* not for this code to say: it may.  What a record points to is left out, *)
(* as is an update's effect.                                               *)
(*                                                                         *)
(* A name is a name in a zone.  The node's own names go to the configured  *)
(* zone, a custom one to the zone with the longest suffix of it: a host    *)
(* that is published by both ways in two zones is two names here.          *)
(***************************************************************************)
EXTENDS Integers

CONSTANTS
    Requests,   \* requests under way at once
    DnsNames,
    OwnNames    \* the node's root and wildcard

ASSUME DnsAssumption == OwnNames \subseteq DnsNames

(* Bound: records of a name.                                               *)
MaxRecords == 2

VARIABLES
    zone,       \* zone[n]: how many CNAME records n has
    call,       \* call[<<r, n>>]: what a call awaits
    late,       \* names with a creation under way whose caller is gone
    raced       \* names with a creation sent when its list no longer held

dns == <<zone, call, late, raced>>

(* The answer to zones, to the records of the name ("found" and "empty"    *)
(* once it is on its way), to an update or to a creation; or no answer.    *)
Awaits == {"none", "zones", "list", "found", "empty", "update", "creation"}

DnsTypeOK ==
    /\ zone \in [DnsNames -> 0 .. MaxRecords]
    /\ call \in [Requests \X DnsNames -> Awaits]
    /\ late \subseteq DnsNames
    /\ raced \subseteq DnsNames

NoCalls == [c \in Requests \X DnsNames |-> "none"]

DnsInit ==
    /\ zone \in [DnsNames -> {0, 1}]
    /\ call = NoCalls
    /\ late = {}
    /\ raced = {}

Idle(r) == \A n \in DnsNames : call[<<r, n>>] = "none"

Creating(n) == n \in late \/ \E r \in Requests : call[<<r, n>>] = "creation"

Becomes(r, n, what) ==
    /\ call' = [call EXCEPT ![<<r, n>>] = what]
    /\ UNCHANGED <<zone, late>>

-----------------------------------------------------------------------------
(* bootstrapDns: both names at once, in the configured zone.               *)
BootstrapDns(r) ==
    /\ call' = [c \in Requests \X DnsNames |->
                   IF c[1] = r /\ c[2] \in OwnNames THEN "list" ELSE call[c]]
    /\ UNCHANGED <<zone, late, raced>>

(* ensureCustomDomainDns: the zone is looked for first.                    *)
EnsureCustomDomain(r, n) == Becomes(r, n, "zones") /\ UNCHANGED raced

(* listZones fails, no zone owns the name, or selectZone finds one.        *)
ZonesAnswered(r, n) ==
    /\ call[<<r, n>>] = "zones"
    /\ Becomes(r, n, "none") \/ Becomes(r, n, "list")
    /\ UNCHANGED raced

(* Mutant: a list that failed counts as an empty one.                      *)
ListFailsAsEmpty(r, n) ==
    /\ call[<<r, n>>] \in {"list", "found", "empty"}
    /\ Becomes(r, n, "creation")
    /\ UNCHANGED raced

(* The list is refused, or its answer is lost.                             *)
ListFails(r, n) ==
    /\ call[<<r, n>>] \in {"list", "found", "empty"}
    /\ Becomes(r, n, "none")
    /\ UNCHANGED raced

(* Cloudflare looks the records up.                                        *)
LookedUp(r, n) ==
    /\ call[<<r, n>>] = "list"
    /\ Becomes(r, n, IF zone[n] > 0 THEN "found" ELSE "empty")
    /\ UNCHANGED raced

(* The answer arrives, and the record is updated or one created.           *)
Listed(r, n) ==
    \/ /\ call[<<r, n>>] = "found"
       /\ Becomes(r, n, "update")
       /\ UNCHANGED raced
    \/ /\ call[<<r, n>>] = "empty"
       /\ Becomes(r, n, "creation")
       /\ raced' = IF Creating(n) \/ zone[n] > 0 THEN raced \cup {n} ELSE raced

(* Done or refused.                                                        *)
Updated(r, n) ==
    call[<<r, n>>] = "update" /\ Becomes(r, n, "none") /\ UNCHANGED raced

(* The creation is carried out; its answer may get lost.                   *)
Created(r, n) ==
    /\ call[<<r, n>>] = "creation"
    /\ zone[n] < MaxRecords
    /\ zone' = [zone EXCEPT ![n] = @ + 1]
    /\ call' = [call EXCEPT ![<<r, n>>] = "none"]
    /\ UNCHANGED <<late, raced>>

(* It is refused or never arrives.                                         *)
NotCreated(r, n) ==
    call[<<r, n>>] = "creation" /\ Becomes(r, n, "none") /\ UNCHANGED raced

(* The connection breaks.                                                  *)
LosesTouch(r, n) ==
    /\ call[<<r, n>>] = "creation"
    /\ call' = [call EXCEPT ![<<r, n>>] = "none"]
    /\ late' = late \cup {n}
    /\ UNCHANGED <<zone, raced>>

LateCreation(n) ==
    /\ n \in late
    /\ late' = late \ {n}
    /\ zone' \in {zone, [zone EXCEPT ![n] = IF @ < MaxRecords THEN @ + 1 ELSE @]}
    /\ UNCHANGED <<call, raced>>

(* Somebody deletes the records of a name.                                 *)
Removed(n) ==
    /\ zone[n] > 0
    /\ zone' = [zone EXCEPT ![n] = 0]
    /\ UNCHANGED <<call, late, raced>>

DnsStep ==
    \/ \E r \in Requests, n \in DnsNames :
          \/ ZonesAnswered(r, n) \/ LookedUp(r, n) \/ Listed(r, n) \/ ListFails(r, n)
          \/ Updated(r, n) \/ Created(r, n) \/ NotCreated(r, n) \/ LosesTouch(r, n)
    \/ \E n \in DnsNames : LateCreation(n) \/ Removed(n)

(* The process ends.                                                       *)
DnsCut ==
    /\ call' = NoCalls
    /\ late' = late \cup {n \in DnsNames : \E r \in Requests : call[<<r, n>>] = "creation"}
    /\ UNCHANGED <<zone, raced>>

-----------------------------------------------------------------------------
(* A name has two records only if a creation of it was sent when another   *)
(* was under way, or had been carried out since the list was made: no      *)
(* failed list, lost answer, broken connection or restart makes one alone, *)
(* whatever order the calls of retried requests take.                      *)
OneRecordUnlessRaced ==
    \A n \in DnsNames : zone[n] > 1 => n \in raced
=============================================================================
