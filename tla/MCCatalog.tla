----------------------------- MODULE MCCatalog -----------------------------
(* The decisions clients offer in the catalog runs.                        *)
EXTENDS CatalogDecisions

CONSTANTS t1, t2, ada, bob, k1, k2

Symmetry == Permutations(Requests)

Ask(t, action, actor, key) ==
    [tool |-> t, action |-> action, actor |-> actor, key |-> key]

(* One key used for two tools, retries of it, a rollback under another     *)
(* key and a decision without a key.                                       *)
TwoTools == {
    Ask(t1, "approve", ada, k1),
    Ask(t2, "approve", ada, k1),
    Ask(t1, "rollback", ada, k2),
    Ask(t1, "defer", ada, NoKey) }

(* One tool from its seeded proposal to a rollback: a key offered for two  *)
(* decisions of two actors, a decision without a key, and rollbacks, of    *)
(* which the one without a key is refused.                                 *)
OneTool == {
    Ask(t1, "approve", ada, k1),
    Ask(t1, "reject", bob, k1),
    Ask(t1, "approve", bob, NoKey),
    Ask(t1, "rollback", bob, NoKey),
    Ask(t1, "rollback", ada, k2) }
=============================================================================
