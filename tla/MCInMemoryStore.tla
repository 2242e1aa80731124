--------------------------- MODULE MCInMemoryStore ---------------------------
EXTENDS InMemoryStore, TLC

MCSymmetry == Permutations(Checkouts) \cup Permutations(Txns) \cup Permutations(Keys)
                \cup Permutations(ProviderIds)
=============================================================================
