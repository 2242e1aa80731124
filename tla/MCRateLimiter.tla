---------------------------- MODULE MCRateLimiter ----------------------------
EXTENDS RateLimiter

\* Payments of one capability from two networks, and a checkout created from one
\* of them, whose policy is the larger one.
MCRequests == {<<"net1">>, <<"net1", "cap1">>, <<"net2", "cap1">>, <<"create1">>}
MCCapacity == [i \in Identities |-> IF i = "create1" THEN 3 ELSE 2]
MCCost == [i \in Identities |-> IF i = "create1" THEN 1 ELSE 3]
=============================================================================
