------------------------------ MODULE MCSurface ------------------------------
(* One part in maintenance, one operator, two requests under way, the      *)
(* rotation between two keys and the node's two names.                     *)
EXTENDS Surface, TLC

CONSTANTS s1, o1, r1, r2, root, sub, k1, k2, svc

Symmetry == Permutations({r1, r2}) \cup Permutations({k1, k2})

(* Names share nothing with keys and windows but the process that ends:    *)
(* one of the two moves at a time.                                         *)
Publishing ==
    call # NoCalls \/ late # {} \/ \E n \in DnsNames : zone[n] > 0 \/ n \in raced

Operating ==
    \/ key.current # None \/ changes > 0 \/ ragged
    \/ \E r \in Requests : pending[r] # None

Apart == ~(Publishing /\ Operating)
=============================================================================
