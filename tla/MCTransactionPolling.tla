------------------------ MODULE MCTransactionPolling ------------------------
EXTENDS TransactionPolling

\* Two delays and a window that ends between two polls; the second transaction
\* was accepted later than the first.
MCDelays == <<2, 3>>
MCAcceptedAt == [t \in Txns |-> IF t = "t1" THEN 0 ELSE 1]
MCStarts == {-2, 0, 6}
=============================================================================
