--------------------------- MODULE MCPaymentStore ---------------------------
(* PaymentStore for TLC: checkouts, transactions and keys are model values. *)
EXTENDS PaymentStore, TLC
CONSTANTS c1, c2, t1, t2, k1, k2, i1, i2
Symmetry == Permutations(Checkouts) \cup Permutations(Txns)
              \cup Permutations(Keys) \cup Permutations(ProviderIds)
=============================================================================
