------------------------- MODULE MCCheckoutPayment -------------------------
(* CheckoutPayment for TLC: checkouts, invocations and keys are           *)
(* interchangeable.                                                         *)
EXTENDS CheckoutPayment, TLC
CONSTANTS c1, c2, t1, t2, k1, k2

KeysUsed == {req[p].key : p \in {q \in Txns : req[q] # NULL}}

\* One checkout is explored in full; two together with one key, one outcome and
\* neither edits nor failures.
Scope ==
    \/ \E c \in Checkouts : checkout[c] = NULL
    \/ /\ faults = 0
       /\ Cardinality(KeysUsed) <= 1
       /\ \A c \in Checkouts : checkout[c].version <= ReadyDraft.version + 1
       /\ \A t \in Txns : charge[t] \in {"NONE", "INFLIGHT", "PENDING", "APPROVED"}

Symmetry == Permutations(Checkouts) \cup Permutations(Txns) \cup Permutations(Keys)
=============================================================================
