----------------------------- MODULE RateLimiter -----------------------------
(***************************************************************************)
(* The token buckets of one API process (rate-limit.middleware.ts).        *)
(*                                                                         *)
(* A request is counted against one or two identities, its network and, if *)
(* it sends one, its capability cookie: it is admitted when all of their   *)
(* buckets hold a token, and then takes one from each.  The buckets live   *)
(* in one table of MaxBuckets entries whatever their policy; when it is    *)
(* full the entry inserted first makes room.                               *)
(*                                                                         *)
(* A token is Cost ticks of refill, so a bucket holds ticks, Cost per      *)
(* token.  The clock the middleware reads may be corrected, back or         *)
(* forward: what refills is what that clock goes forward.                  *)
(***************************************************************************)
EXTENDS Integers, Sequences, FiniteSetsExt, Functions

CONSTANTS
  Requests,        \* the identities a request is counted against: one, or two
  Capacity,        \* Capacity[i]: tokens of a full bucket of i's policy
  Cost,            \* Cost[i]: ticks in which i's policy refills one token
  TicksPerSecond,
  MaxBuckets,      \* MAX_BUCKETS
  MaxTime,         \* bound: ticks the clock goes forward
  MaxBack          \* bound: ticks the clock steps back, in all

Identities == UNION {Range(r) : r \in Requests}

ASSUME LimiterAssumption ==
  /\ Requests \subseteq Seq(Identities) /\ \A r \in Requests : Len(r) \in {1, 2}
  /\ Capacity \in [Identities -> Nat \ {0}] /\ Cost \in [Identities -> Nat \ {0}]
  /\ {TicksPerSecond, MaxBuckets} \subseteq Nat \ {0}
  /\ {MaxTime, MaxBack} \subseteq Nat

VARIABLES
  clock,     \* Date.now()
  buckets,   \* the table, in insertion order: [key, tokens, checkedAt]
  elapsed,   \* history: ticks the clock went forward
  budget,    \* history: budget[i], what an ideal bucket of i would hold
  promise    \* history: the last refusal and until when it said to wait

vars == <<clock, buckets, elapsed, budget, promise>>

Full(i) == Capacity[i] * Cost[i]
NoPromise == [request |-> <<>>, until |-> 0]

-----------------------------------------------------------------------------
Keys == {buckets[n].key : n \in DOMAIN buckets}
BucketOf(i) == CHOOSE b \in Range(buckets) : b.key = i

\* What has been refilled since the bucket was checked, and what it holds then.
Refilled(since) == Max({0, clock - since})

Tokens(i) ==
  IF i \in Keys
  THEN Min({Full(i), BucketOf(i).tokens + Refilled(BucketOf(i).checkedAt)})
  ELSE Full(i)

Blocked(request) == {i \in Range(request) : Tokens(i) < Cost[i]}

\* Retry-After, in whole seconds.
RetryAfterRoundedDown(request) ==   \* faulty: floor for ceil
  Max({Max({1, (Cost[i] - Tokens(i)) \div TicksPerSecond}) : i \in Blocked(request)})
RetryAfter(request) ==
  Max({(Cost[i] - Tokens(i) + TicksPerSecond - 1) \div TicksPerSecond : i \in Blocked(request)})

\* Map.set after making room: an entry that exists keeps its place.
StoreFirst(table, entry) ==
  IF \E n \in DOMAIN table : table[n].key = entry.key
  THEN [n \in DOMAIN table |-> IF table[n].key = entry.key THEN entry ELSE table[n]]
  ELSE Append(IF Len(table) >= MaxBuckets THEN Tail(table) ELSE table, entry)

\* i's bucket less one token, as it stands before any bucket is stored.
Counted(i) == [key |-> i, tokens |-> Tokens(i) - Cost[i], checkedAt |-> clock]

StoreAll(request) ==
  LET first == StoreFirst(buckets, Counted(request[1]))
  IN  IF Len(request) = 1 THEN first ELSE StoreFirst(first, Counted(request[2]))

\* faulty: a refused request is counted against the identity that had a token
RefuseAndCount(request) ==
  /\ Blocked(request) # {}
  /\ LET charged == Range(request) \ Blocked(request)
     IN  buckets' = IF charged = {} THEN buckets
                    ELSE StoreFirst(buckets, Counted(CHOOSE i \in charged : TRUE))
  /\ promise' = [request |-> request, until |-> clock + TicksPerSecond * RetryAfter(request)]
  /\ UNCHANGED <<clock, elapsed, budget>>

\* 429: nothing is taken from any bucket.
Refuse(request) ==
  /\ Blocked(request) # {}
  /\ promise' = [request |-> request, until |-> clock + TicksPerSecond * RetryAfter(request)]
  /\ UNCHANGED <<clock, buckets, elapsed, budget>>

Admit(request) ==
  /\ Blocked(request) = {}
  /\ buckets' = StoreAll(request)
  /\ LET kept == {buckets'[n].key : n \in DOMAIN buckets'}
     IN  budget' = [i \in Identities |->
           IF i \notin kept THEN Full(i)
           ELSE IF i \in Range(request) THEN budget[i] - Cost[i] ELSE budget[i]]
  /\ promise' = IF Range(promise.request) \cap Range(request) = {} THEN promise ELSE NoPromise
  /\ UNCHANGED <<clock, elapsed>>

\* Time passes, or the clock is corrected forward: several ticks with no request
\* between them.
TimePasses ==
  /\ elapsed < MaxTime
  /\ elapsed' = elapsed + 1
  /\ clock' = clock + 1
  /\ budget' = [i \in Identities |-> Min({Full(i), budget[i] + 1})]
  /\ UNCHANGED <<buckets, promise>>

\* The clock is corrected back.
ClockStepsBack ==
  /\ elapsed - clock < MaxBack
  /\ clock' = clock - 1
  /\ promise' = NoPromise
  /\ UNCHANGED <<buckets, elapsed, budget>>

-----------------------------------------------------------------------------
Init ==
  /\ clock = 0 /\ elapsed = 0
  /\ buckets = <<>>
  /\ budget = [i \in Identities |-> Full(i)]
  /\ promise = NoPromise

Next ==
  \/ \E request \in Requests : Admit(request) \/ Refuse(request)
  \/ TimePasses \/ ClockStepsBack

Spec == Init /\ [][Next]_vars

-----------------------------------------------------------------------------
(* Properties.                                                             *)

\* The table is bounded, an identity has one bucket, and no bucket is in debt.
TypeOK ==
  /\ clock \in Int /\ elapsed \in 0 .. MaxTime
  /\ buckets \in Seq([key : Identities, tokens : Nat, checkedAt : Int])
  /\ Len(buckets) <= MaxBuckets
  /\ \A n \in DOMAIN buckets :
       /\ buckets[n].tokens <= Full(buckets[n].key)
       /\ \A k \in DOMAIN buckets : buckets[k].key = buckets[n].key => k = n
  /\ budget \in [Identities -> Int]
  /\ promise \in [request : Requests \cup {<<>>}, until : Int]

\* As long as its bucket is kept, an identity is admitted no more often than
\* its burst and refill allow, however its requests are combined with other
\* identities and however often the clock steps back; and if it never does, no
\* less. Refill is counted by the clock: a correction forward grants what it skips.
AdmitsAtItsRate ==
  \A i \in Identities :
    /\ Tokens(i) \in 0 .. budget[i]
    /\ clock = elapsed => Tokens(i) = budget[i]

\* With a clock that never stepped back, a client that waits as long as a refusal said is admitted
\* then, unless another request was counted against one of its identities
\* meanwhile.  (A bucket checked before the clock stepped back refills later.)
RetryAfterIsEnough ==
  promise # NoPromise /\ clock = elapsed /\ clock >= promise.until
    => Blocked(promise.request) = {}
=============================================================================
