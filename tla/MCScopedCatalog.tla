-------------------------- MODULE MCScopedCatalog --------------------------
(* Two tenants and two nodes, two requests, and two apps of the platform,  *)
(* one of them on the lists; and one app that a node may add, or that it   *)
(* may add under the id of the platform's.                                 *)
EXTENDS ScopedCatalog, TLC

CONSTANTS mail, chat, own, r1, r2, t1, t2, n1, n2

Approved == [placed |-> TRUE, restricted |-> FALSE, reviewStatus |-> "approved"]
GlobalCatalog == mail :> Approved @@ chat :> Approved

Adds == {own :> TRUE @@ mail :> TRUE}

(* Tenants and nodes are swapped together, which is enough: one of the two *)
(* pairs is as it was at the beginning.                                    *)
Swapped == t1 :> t2 @@ t2 :> t1 @@ n1 :> n2 @@ n2 :> n1
Symmetric == Permutations({r1, r2}) \cup {Swapped}

(* The file of the tenants and that of the nodes share nothing: one of the *)
(* two moves at a time.                                                    *)
Touched(S) ==
    \/ S \cap (unsynced \cup lost) # {}
    \/ \E s \in S :
          \/ file[s] # Empty[s] \/ disk[s] # Empty[s] \/ asked[s] # NoEntitlements
          \/ \E r \in Requests : s \in stale[r] \/ (Reading(r) /\ request[r].scope = s)

OneFile == ~(Touched(Tenants) /\ Touched(Nodes))
=============================================================================
