-------------------------- MODULE MCReconcileBatch --------------------------
EXTENDS ReconcileBatch

\* In units of 12 s: a minute, then two.
MCDelays == <<5>>
=============================================================================
