------------------------- MODULE RateLimiter_proofs -------------------------
(***************************************************************************)
(* Theorems about RateLimiter, for any requests, policies, size of the     *)
(* table and steps of the clock.                                           *)
(*                                                                         *)
(* First the table alone: what a store leaves in it, and what a bucket     *)
(* holds at a time.  Then the two clocks: a bucket was never checked later *)
(* than the clock has gone forward, so while it never steps back a tick    *)
(* refills what the ideal bucket gets, and otherwise no more.  A refusal's *)
(* promise is about the ideal bucket, and what is admitted meanwhile to    *)
(* others leaves it alone.                                                 *)
(***************************************************************************)
EXTENDS RateLimiter, TLAPS

-----------------------------------------------------------------------------
(* Numbers.                                                                *)

\* The smaller of two numbers.
LEMMA MinOfTwo ==
  ASSUME NEW a \in Int, NEW b \in Int
  PROVE  Min({a, b}) = IF a <= b THEN a ELSE b
<1> DEFINE m == IF a <= b THEN a ELSE b
<1>1. m \in {a, b} /\ \A y \in {a, b} : m <= y
  OBVIOUS
<1>2. \A x \in {a, b} : (\A y \in {a, b} : x <= y) => x = m
  OBVIOUS
<1>3. Min({a, b}) = CHOOSE x \in {a, b} : \A y \in {a, b} : x <= y
  BY DEF Min
<1> QED
  BY <1>1, <1>2, <1>3

\* The larger.
LEMMA MaxOfTwo ==
  ASSUME NEW a \in Int, NEW b \in Int
  PROVE  Max({a, b}) = IF a <= b THEN b ELSE a
<1> DEFINE m == IF a <= b THEN b ELSE a
<1>1. m \in {a, b} /\ \A y \in {a, b} : m >= y
  OBVIOUS
<1>2. \A x \in {a, b} : (\A y \in {a, b} : x >= y) => x = m
  OBVIOUS
<1>3. Max({a, b}) = CHOOSE x \in {a, b} : \A y \in {a, b} : x >= y
  BY DEF Max
<1> QED
  BY <1>1, <1>2, <1>3

\* The largest of one or two numbers is one of them, and no other is larger.
LEMMA MaxIsUpper ==
  ASSUME NEW a \in Int, NEW b \in Int, NEW S \in SUBSET {a, b}, S # {}
  PROVE  Max(S) \in S /\ \A x \in S : Max(S) >= x
<1>1. \E x \in S : \A y \in S : x >= y
  <2>1. CASE a \in S /\ (b \in S => a >= b)
    BY <2>1
  <2>2. CASE b \in S /\ (a \in S => b >= a)
    BY <2>2
  <2>3. a \in S \/ b \in S
    OBVIOUS
  <2>4. a >= b \/ b >= a
    OBVIOUS
  <2> QED
    BY <2>1, <2>2, <2>3, <2>4
<1>2. Max(S) = CHOOSE x \in S : \A y \in S : x >= y
  BY DEF Max
<1> QED
  BY <1>1, <1>2

\* Whole seconds, rounded up, are at least as long as the ticks they are for.
LEMMA RoundedUpIsEnough ==
  ASSUME NEW second \in Nat \ {0}, NEW ticks \in Nat
  PROVE  /\ (ticks + second - 1) \div second \in Int
         /\ second * ((ticks + second - 1) \div second) >= ticks
  OBVIOUS

\* What a bucket that is refilled a tick further holds, and one more at most.
LEMMA OneTickMore ==
  ASSUME NEW full \in Nat, NEW held \in Nat, NEW late \in Nat, NEW late1 \in Nat,
         late1 <= late + 1,
         NEW old, old = IF full <= held + late THEN full ELSE held + late,
         NEW new, new = IF full <= held + late1 THEN full ELSE held + late1
  PROVE  /\ new <= old + 1
         /\ late1 = late + 1 => new = IF full <= old + 1 THEN full ELSE old + 1
<1>1. CASE full <= held + late
  <2>1. full <= full + 1
    OBVIOUS
  <2>2. new <= full
    OBVIOUS
  <2> QED
    BY <1>1, <2>1, <2>2
<1>2. CASE ~(full <= held + late)
  <2>1. held + late1 <= held + late + 1 /\ old = held + late
    BY <1>2
  <2> QED
    BY <1>2, <2>1
<1> QED
  BY <1>1, <1>2

\* A full bucket holds a token.
LEMMA FullFacts ==
  ASSUME NEW i \in Identities
  PROVE  Cost[i] \in Nat \ {0} /\ Full(i) \in Nat /\ Full(i) >= Cost[i]
<1>1. Capacity[i] \in Nat \ {0} /\ Cost[i] \in Nat \ {0}
  BY LimiterAssumption
<1>2. \A c, k \in Nat \ {0} : c * k \in Nat /\ c * k >= k
  OBVIOUS
<1> QED
  BY <1>1, <1>2 DEF Full

-----------------------------------------------------------------------------
(* The table.                                                              *)

Bucket == [key : Identities, tokens : Nat, checkedAt : Int]

\* TypeOK of any table.
WellFormed(table) ==
  /\ table \in Seq(Bucket)
  /\ Len(table) <= MaxBuckets
  /\ \A n \in DOMAIN table :
       /\ table[n].tokens <= Full(table[n].key)
       /\ \A k \in DOMAIN table : table[k].key = table[n].key => k = n

\* An entry that is stored replaces the one of its key in its place; a new one
\* comes last, and the first makes room for it if it must.
LEMMA StoreFirstKeeps ==
  ASSUME NEW table, WellFormed(table),
         NEW entry \in Bucket, entry.tokens <= Full(entry.key)
  PROVE  /\ WellFormed(StoreFirst(table, entry))
         /\ \A b \in Range(StoreFirst(table, entry)) :
              b = entry \/ (b \in Range(table) /\ b.key # entry.key)
<1>1. MaxBuckets \in Nat \ {0}
  BY LimiterAssumption
<1>2. CASE \E n \in DOMAIN table : table[n].key = entry.key
  <2> DEFINE new == [n \in DOMAIN table |->
                       IF table[n].key = entry.key THEN entry ELSE table[n]]
  <2>1. StoreFirst(table, entry) = new
    BY <1>2 DEF StoreFirst
  <2>2. /\ table \in Seq(Bucket) /\ Len(table) \in Nat /\ DOMAIN table = 1 .. Len(table)
        /\ \A n \in DOMAIN table : table[n] \in Bucket
    BY DEF WellFormed
  <2>3. new \in Seq(Bucket) /\ Len(new) = Len(table) /\ DOMAIN new = DOMAIN table
    BY <2>2
  <2>4. \A n \in DOMAIN table : new[n] = entry \/ (new[n] = table[n] /\ new[n].key # entry.key)
    OBVIOUS
  <2>5. \A n \in DOMAIN table : new[n].key = table[n].key
    BY <2>2 DEF Bucket
  <2> HIDE DEF new
  <2>6. WellFormed(new)
    <3>1. \A n \in DOMAIN new : new[n].tokens <= Full(new[n].key)
      BY <2>3, <2>4 DEF WellFormed
    <3>2. \A n, k \in DOMAIN new : new[k].key = new[n].key => k = n
      BY <2>3, <2>5 DEF WellFormed
    <3> QED
      BY <2>3, <3>1, <3>2 DEF WellFormed
  <2>7. \A b \in Range(new) : b = entry \/ (b \in Range(table) /\ b.key # entry.key)
    BY <2>3, <2>4 DEF Range
  <2> QED
    BY <2>1, <2>6, <2>7
<1>3. CASE ~ \E n \in DOMAIN table : table[n].key = entry.key
  <2> DEFINE rest == IF Len(table) >= MaxBuckets THEN Tail(table) ELSE table
             new == Append(rest, entry)
  <2>1. StoreFirst(table, entry) = new
    BY <1>3 DEF StoreFirst
  <2>2. /\ table \in Seq(Bucket) /\ Len(table) \in Nat /\ DOMAIN table = 1 .. Len(table)
        /\ \A n \in DOMAIN table : table[n] \in Bucket
    BY DEF WellFormed
  <2>3. PICK d \in {0, 1} :
          /\ rest \in Seq(Bucket) /\ Len(rest) = Len(table) - d /\ Len(rest) < MaxBuckets
          /\ \A n \in DOMAIN rest : n + d \in DOMAIN table /\ rest[n] = table[n + d]
    <3>1. CASE Len(table) >= MaxBuckets
      <4>1. Len(table) <= MaxBuckets
        BY DEF WellFormed
      <4>2. \A m, n \in Nat : m <= n /\ m >= n => m = n
        OBVIOUS
      <4>3. Len(table) = MaxBuckets
        BY <1>1, <2>2, <3>1, <4>1, <4>2
      <4>4. Len(table) = MaxBuckets /\ Len(table) \in Nat \ {0}
        BY <1>1, <4>3
      <4>5. /\ rest \in Seq(Bucket) /\ Len(rest) = Len(table) - 1
            /\ \A n \in DOMAIN rest : n + 1 \in DOMAIN table /\ rest[n] = table[n + 1]
        BY <2>2, <3>1, <4>4
      <4> QED
        BY <1>1, <4>4, <4>5
    <3>2. CASE ~(Len(table) >= MaxBuckets)
      <4>1. rest = table /\ Len(table) < MaxBuckets /\ Len(table) - 0 = Len(table)
        BY <1>1, <2>2, <3>2
      <4>2. \A n \in DOMAIN table : n + 0 = n
        BY <2>2
      <4> HIDE DEF rest
      <4>3. /\ rest \in Seq(Bucket) /\ Len(rest) = Len(table) - 0 /\ Len(rest) < MaxBuckets
            /\ \A n \in DOMAIN rest : n + 0 \in DOMAIN table /\ rest[n] = table[n + 0]
        BY <2>2, <4>1, <4>2
      <4> QED
        BY <4>3
    <3> QED
      BY <3>1, <3>2
  <2> HIDE DEF rest
  <2>4. /\ new \in Seq(Bucket) /\ Len(new) = Len(rest) + 1 /\ Len(rest) \in Nat
        /\ DOMAIN new = 1 .. Len(rest) + 1 /\ DOMAIN rest = 1 .. Len(rest)
        /\ \A n \in DOMAIN rest : new[n] = rest[n]
        /\ new[Len(rest) + 1] = entry
    BY <2>3
  <2> HIDE DEF new
  <2>5. \A n \in DOMAIN new : \/ n = Len(rest) + 1 /\ new[n] = entry
                              \/ /\ n \in DOMAIN rest /\ n + d \in DOMAIN table
                                 /\ new[n] = table[n + d]
    BY <2>3, <2>4
  <2>6. \A n \in DOMAIN table : table[n].key # entry.key
    BY <1>3
  <2>7. WellFormed(new)
    <3>1. \A n \in DOMAIN new : new[n].tokens <= Full(new[n].key)
      BY <2>5 DEF WellFormed
    <3>2. ASSUME NEW n \in DOMAIN new, NEW k \in DOMAIN new, new[k].key = new[n].key
          PROVE  k = n
      <4>1. CASE n \in DOMAIN rest /\ k \in DOMAIN rest
        <5>1. n + d \in DOMAIN table /\ k + d \in DOMAIN table
              /\ table[k + d].key = table[n + d].key
          BY <2>3, <2>4, <3>2, <4>1
        <5>2. k + d = n + d
          BY <5>1 DEF WellFormed
        <5> QED
          BY <2>4, <4>1, <5>2
      <4>2. CASE ~(n \in DOMAIN rest /\ k \in DOMAIN rest)
        BY <2>5, <2>6, <3>2, <4>2
      <4> QED
        BY <4>1, <4>2
    <3>3. Len(new) <= MaxBuckets
      BY <1>1, <2>3, <2>4
    <3> QED
      BY <2>4, <3>1, <3>2, <3>3 DEF WellFormed
  <2>8. \A b \in Range(new) : b = entry \/ (b \in Range(table) /\ b.key # entry.key)
    BY <2>5, <2>6 DEF Range
  <2> QED
    BY <2>1, <2>7, <2>8
<1> QED
  BY <1>2, <1>3

\* An identity has one bucket, which is the one that is found.
LEMMA BucketIsFound ==
  ASSUME NEW table, WellFormed(table), NEW b \in Range(table)
  PROVE  /\ b \in Bucket /\ b.tokens <= Full(b.key)
         /\ (CHOOSE x \in Range(table) : x.key = b.key) = b
<1>1. PICK n \in DOMAIN table : table[n] = b
  BY DEF Range
<1>2. b \in Bucket /\ b.tokens <= Full(b.key)
  BY <1>1 DEF WellFormed
<1>3. ASSUME NEW x \in Range(table), x.key = b.key
      PROVE  x = b
  <2>1. PICK k \in DOMAIN table : table[k] = x
    BY DEF Range
  <2>2. k = n
    BY <1>1, <1>3, <2>1 DEF WellFormed
  <2> QED
    BY <1>1, <2>1, <2>2
<1> QED
  BY <1>2, <1>3

\* What an identity has at a time, if a table is all that is known of it.
TokensIn(table, now, i) ==
  IF \E b \in Range(table) : b.key = i
  THEN LET b == CHOOSE x \in Range(table) : x.key = i
       IN  Min({Full(i), b.tokens + Max({0, now - b.checkedAt})})
  ELSE Full(i)

\* An identity's bucket is that of its key in the table, read now.
LEMMA TokensAre ==
  ASSUME NEW i
  PROVE  /\ Tokens(i) = TokensIn(buckets, clock, i)
         /\ Tokens(i)' = TokensIn(buckets', clock', i)
<1>1. i \in Keys <=> \E b \in Range(buckets) : b.key = i
  BY DEF Keys, Range
<1>2. i \in Keys' <=> \E b \in Range(buckets') : b.key = i
  BY DEF Keys, Range
<1>3. Tokens(i) = TokensIn(buckets, clock, i)
  BY <1>1 DEF Tokens, TokensIn, BucketOf, Refilled
<1>4. Tokens(i)' = TokensIn(buckets', clock', i)
  BY <1>2 DEF Tokens, TokensIn, BucketOf, Refilled
<1> QED
  BY <1>3, <1>4

\* Of an identity that has a bucket: what was refilled since it was checked is
\* added, up to a full bucket.
LEMMA TokensOfBucket ==
  ASSUME NEW table, WellFormed(table), NEW now \in Int, NEW b \in Range(table)
  PROVE  LET held == b.tokens + (IF now > b.checkedAt THEN now - b.checkedAt ELSE 0)
         IN  TokensIn(table, now, b.key) = IF Full(b.key) <= held THEN Full(b.key) ELSE held
<1> DEFINE late == IF now > b.checkedAt THEN now - b.checkedAt ELSE 0
<1>1. /\ b \in Bucket /\ (CHOOSE x \in Range(table) : x.key = b.key) = b
  BY BucketIsFound
<1>2. b.key \in Identities /\ b.tokens \in Nat /\ b.checkedAt \in Int
  BY <1>1 DEF Bucket
<1>3. Full(b.key) \in Int
  BY <1>2, FullFacts
<1>4. Max({0, now - b.checkedAt}) = late /\ late \in Int
  <2>1. now - b.checkedAt \in Int
    BY <1>2
  <2>2. Max({0, now - b.checkedAt}) = IF 0 <= now - b.checkedAt THEN now - b.checkedAt ELSE 0
    BY <2>1, MaxOfTwo
  <2> QED
    BY <1>2, <2>2
<1>5. TokensIn(table, now, b.key) = Min({Full(b.key), b.tokens + Max({0, now - b.checkedAt})})
  BY <1>1 DEF TokensIn
<1> HIDE DEF late
<1>6. b.tokens + late \in Int
  BY <1>2, <1>4
<1>7. TokensIn(table, now, b.key) = Min({Full(b.key), b.tokens + late})
  BY <1>4, <1>5
<1>8. TokensIn(table, now, b.key)
        = IF Full(b.key) <= b.tokens + late THEN Full(b.key) ELSE b.tokens + late
  BY <1>3, <1>6, <1>7, MinOfTwo
<1> QED
  BY <1>8 DEF late

\* What an identity has is a number, and no more than a full bucket.
LEMMA TokensFacts ==
  ASSUME NEW table, WellFormed(table), NEW now \in Int, NEW i \in Identities
  PROVE  TokensIn(table, now, i) \in Nat /\ TokensIn(table, now, i) <= Full(i)
<1>1. Full(i) \in Nat
  BY FullFacts
<1>2. CASE \E b \in Range(table) : b.key = i
  <2>1. PICK b \in Range(table) : b.key = i
    BY <1>2
  <2>2. b.tokens \in Nat /\ b.checkedAt \in Int
    BY BucketIsFound DEF Bucket
  <2>3. PICK late \in Nat : late = IF now > b.checkedAt THEN now - b.checkedAt ELSE 0
    BY <2>2
  <2>4. TokensIn(table, now, i)
          = IF Full(i) <= b.tokens + late THEN Full(i) ELSE b.tokens + late
    BY <2>1, <2>3, TokensOfBucket
  <2> QED
    BY <1>1, <2>2, <2>4
<1>3. CASE ~ \E b \in Range(table) : b.key = i
  BY <1>1, <1>3 DEF TokensIn
<1> QED
  BY <1>2, <1>3

-----------------------------------------------------------------------------
(* The invariant.                                                          *)

\* The clock is never ahead of the time that passed, and no bucket was checked in
\* the future.
ClockInv ==
  /\ clock <= elapsed
  /\ \A b \in Range(buckets) : b.checkedAt <= elapsed

\* If the clock never stepped back, an identity of a refused request has its token
\* by the time it was told to wait for.
PromiseInv ==
  promise # NoPromise /\ clock = elapsed =>
    \A i \in Range(promise.request) :
      budget[i] >= Cost[i] \/ budget[i] + (promise.until - clock) >= Cost[i]

Inv == TypeOK /\ ClockInv /\ AdmitsAtItsRate /\ PromiseInv

\* The type invariant is about one table, and the numbers are numbers.
LEMMA TypeFacts ==
  ASSUME TypeOK
  PROVE  /\ WellFormed(buckets)
         /\ clock \in Int /\ elapsed \in Int
         /\ budget \in [Identities -> Int]
         /\ promise \in [request : Requests \cup {<<>>}, until : Int]
<1>1. elapsed \in Int
  BY LimiterAssumption DEF TypeOK
<1> QED
  BY <1>1 DEF TypeOK, WellFormed, Bucket

\* And conversely.
LEMMA TypeFromFacts ==
  ASSUME WellFormed(buckets'), clock' \in Int, elapsed' \in 0 .. MaxTime,
         budget' \in [Identities -> Int],
         promise' \in [request : Requests \cup {<<>>}, until : Int]
  PROVE  TypeOK'
  BY DEF TypeOK, WellFormed, Bucket

\* A request is counted against one identity or two.
LEMMA RequestFacts ==
  ASSUME NEW request \in Requests
  PROVE  /\ request[1] \in Identities
         /\ Len(request) = 1 => Range(request) = {request[1]}
         /\ Len(request) # 1 => request[2] \in Identities
                                /\ Range(request) = {request[1], request[2]}
<1>1. request \in Seq(Identities) /\ Len(request) \in {1, 2}
  BY LimiterAssumption
<1>2. CASE Len(request) = 1
  <2>1. DOMAIN request = {1}
    BY <1>1, <1>2
  <2> QED
    BY <1>1, <1>2, <2>1 DEF Range
<1>3. CASE Len(request) = 2
  <2>1. DOMAIN request = {1, 2}
    BY <1>1, <1>3
  <2>2. request[1] \in Identities /\ request[2] \in Identities
    BY <1>1, <2>1
  <2>3. Range(request) = {request[n] : n \in {1, 2}}
    BY <2>1 DEF Range
  <2>4. Range(request) = {request[1], request[2]}
    BY <2>3
  <2> QED
    BY <1>3, <2>2, <2>4
<1> QED
  BY <1>1, <1>2, <1>3

\* What an identity has is between nothing and what an ideal bucket would hold.
LEMMA RateFacts ==
  ASSUME Inv, NEW i \in Identities
  PROVE  /\ Tokens(i) \in Nat /\ Tokens(i) <= Full(i) /\ Tokens(i) <= budget[i]
         /\ clock = elapsed => Tokens(i) = budget[i]
         /\ budget[i] \in Int /\ Cost[i] \in Nat \ {0} /\ Full(i) \in Nat /\ Full(i) >= Cost[i]
<1>1. Tokens(i) \in Nat /\ Tokens(i) <= Full(i)
  BY TypeFacts, TokensAre, TokensFacts DEF Inv
<1>2. budget[i] \in Int
  BY TypeFacts DEF Inv
<1>3. Tokens(i) <= budget[i] /\ (clock = elapsed => Tokens(i) = budget[i])
  BY <1>1, <1>2 DEF Inv, AdmitsAtItsRate
<1> QED
  BY <1>1, <1>2, <1>3, FullFacts

\* To keep AdmitsAtItsRate is to keep its two parts.
LEMMA RateFromFacts ==
  ASSUME \A i \in Identities :
           /\ Tokens(i)' \in Nat /\ budget'[i] \in Int /\ Tokens(i)' <= budget'[i]
           /\ clock' = elapsed' => Tokens(i)' = budget'[i]
  PROVE  AdmitsAtItsRate'
  BY DEF AdmitsAtItsRate

-----------------------------------------------------------------------------
(* The steps.                                                              *)

\* At first nobody has a bucket.
LEMMA InitInv == Init => Inv
<1> SUFFICES ASSUME Init PROVE Inv
  OBVIOUS
<1>1. /\ clock = 0 /\ elapsed = 0 /\ buckets = <<>> /\ promise = NoPromise
      /\ budget = [i \in Identities |-> Full(i)]
  BY DEF Init
<1>2. \A i \in Identities : Full(i) \in Nat
  BY FullFacts
<1>3. TypeOK
  BY <1>1, <1>2, LimiterAssumption DEF TypeOK, NoPromise
<1>4. Range(buckets) = {} /\ Keys = {}
  BY <1>1 DEF Range, Keys
<1>5. ClockInv
  BY <1>1, <1>4 DEF ClockInv
<1>6. AdmitsAtItsRate
  BY <1>1, <1>2, <1>4 DEF AdmitsAtItsRate, Tokens
<1> QED
  BY <1>1, <1>3, <1>5, <1>6 DEF Inv, PromiseInv

\* Retry-After is a time, and long enough for each identity that is short of a token.
LEMMA RetryAfterFacts ==
  ASSUME Inv, NEW request \in Requests, Blocked(request) # {}
  PROVE  /\ TicksPerSecond * RetryAfter(request) \in Int
         /\ \A i \in Blocked(request) :
              Tokens(i) + TicksPerSecond * RetryAfter(request) >= Cost[i]
<1> DEFINE wait(i) == (Cost[i] - Tokens(i) + TicksPerSecond - 1) \div TicksPerSecond
           waits == {wait(i) : i \in Blocked(request)}
<1>1. TicksPerSecond \in Nat \ {0}
  BY LimiterAssumption
<1>2. Blocked(request) \subseteq Range(request) /\ Range(request) \subseteq Identities
  BY RequestFacts DEF Blocked
<1>3. ASSUME NEW i \in Blocked(request)
      PROVE  wait(i) \in Int /\ Tokens(i) + TicksPerSecond * wait(i) >= Cost[i]
  <2>1. i \in Identities /\ Tokens(i) < Cost[i]
    BY <1>2 DEF Blocked
  <2>2. Tokens(i) \in Nat /\ Cost[i] \in Nat
    BY <2>1, RateFacts
  <2>3. PICK short \in Nat : short = Cost[i] - Tokens(i)
    BY <2>1, <2>2
  <2>4. wait(i) = (short + TicksPerSecond - 1) \div TicksPerSecond
    BY <2>3
  <2>5. wait(i) \in Int /\ TicksPerSecond * wait(i) >= short
    BY <1>1, <2>4, RoundedUpIsEnough
  <2> HIDE DEF wait
  <2>6. TicksPerSecond * wait(i) \in Int
    BY <1>1, <2>5
  <2> QED
    BY <2>2, <2>3, <2>5, <2>6
<1>4. RetryAfter(request) = Max(waits)
  BY DEF RetryAfter
<1> HIDE DEF wait
<1>5. PICK a \in Int, b \in Int : waits \subseteq {a, b}
  <2>1. PICK x, y : Range(request) \subseteq {x, y}
    BY RequestFacts
  <2>2. waits \subseteq {wait(x), wait(y)}
    BY <1>2, <2>1
  <2>3. \A w \in waits : w \in Int
    BY <1>3
  <2> QED
    BY <2>2, <2>3
<1>6. waits # {}
  OBVIOUS
<1> HIDE DEF waits
<1>7. Max(waits) \in waits /\ \A w \in waits : Max(waits) >= w
  BY <1>5, <1>6, MaxIsUpper
<1>8. Max(waits) \in Int
  BY <1>5, <1>7
<1>9. \A m, n, t, c \in Int : m >= n /\ t + TicksPerSecond * n >= c
                                => t + TicksPerSecond * m >= c
  <2> SUFFICES ASSUME NEW m \in Int, NEW n \in Int, NEW t \in Int, NEW c \in Int,
                      m >= n, t + TicksPerSecond * n >= c
               PROVE  t + TicksPerSecond * m >= c
    OBVIOUS
  <2>1. TicksPerSecond * m >= TicksPerSecond * n
    BY <1>1
  <2> QED
    BY <1>1, <2>1
<1>10. ASSUME NEW i \in Blocked(request)
       PROVE  Tokens(i) + TicksPerSecond * RetryAfter(request) >= Cost[i]
  <2>1. wait(i) \in waits
    BY DEF waits
  <2>2. Tokens(i) \in Int /\ Cost[i] \in Int
    BY <1>2, RateFacts
  <2> QED
    BY <1>3, <1>4, <1>7, <1>8, <1>9, <2>1, <2>2
<1>11. TicksPerSecond * RetryAfter(request) \in Int
  BY <1>1, <1>4, <1>8
<1> QED
  BY <1>10, <1>11

\* A refusal changes no bucket and promises what it says.
LEMMA RefuseKeeps ==
  ASSUME Inv, NEW request \in Requests, Refuse(request)
  PROVE  Inv'
<1> DEFINE until == clock + TicksPerSecond * RetryAfter(request)
<1>1. /\ Blocked(request) # {}
      /\ promise' = [request |-> request, until |-> until]
      /\ UNCHANGED <<clock, buckets, elapsed, budget>>
  BY DEF Refuse
<1>2. /\ WellFormed(buckets) /\ clock \in Int /\ elapsed \in 0 .. MaxTime
      /\ budget \in [Identities -> Int]
  BY TypeFacts DEF Inv, TypeOK
<1>3. /\ TicksPerSecond * RetryAfter(request) \in Int
      /\ \A i \in Blocked(request) :
           Tokens(i) + TicksPerSecond * RetryAfter(request) >= Cost[i]
  BY <1>1, RetryAfterFacts
<1>4. until \in Int
  BY <1>2, <1>3
<1>5. TypeOK'
  <2>1. promise' \in [request : Requests \cup {<<>>}, until : Int]
    BY <1>1, <1>4
  <2> QED
    BY <1>1, <1>2, <2>1, TypeFromFacts
<1>6. ClockInv'
  BY <1>1 DEF Inv, ClockInv
<1>7. AdmitsAtItsRate'
  BY <1>1 DEF Inv, AdmitsAtItsRate, Tokens, Keys, BucketOf, Refilled
<1>8. PromiseInv'
  <2> SUFFICES ASSUME clock = elapsed, NEW i \in Range(request)
               PROVE  budget[i] >= Cost[i] \/ budget[i] + (until - clock) >= Cost[i]
    BY <1>1 DEF PromiseInv
  <2>1. i \in Identities
    BY RequestFacts
  <2>2. Tokens(i) = budget[i] /\ Tokens(i) \in Nat /\ Cost[i] \in Nat
    BY <2>1, RateFacts
  <2>3. CASE i \in Blocked(request)
    <3>1. until - clock = TicksPerSecond * RetryAfter(request)
      BY <1>2, <1>3
    <3> QED
      BY <1>3, <2>2, <2>3, <3>1
  <2>4. CASE i \notin Blocked(request)
    BY <2>2, <2>4 DEF Blocked
  <2> QED
    BY <2>3, <2>4
<1> QED
  BY <1>5, <1>6, <1>7, <1>8 DEF Inv

\* The clock steps back: no bucket holds more than before, and no promise stands.
LEMMA ClockStepsBackKeeps ==
  ASSUME Inv, ClockStepsBack
  PROVE  Inv'
<1>1. clock' = clock - 1 /\ promise' = NoPromise /\ UNCHANGED <<buckets, elapsed, budget>>
  BY DEF ClockStepsBack
<1>2. /\ WellFormed(buckets) /\ clock \in Int /\ elapsed \in 0 .. MaxTime /\ elapsed \in Int
      /\ budget \in [Identities -> Int]
  BY TypeFacts DEF Inv, TypeOK
<1>3. TypeOK'
  <2>1. promise' \in [request : Requests \cup {<<>>}, until : Int]
    BY <1>1 DEF NoPromise
  <2>2. clock' \in Int
    BY <1>1, <1>2
  <2> QED
    BY <1>1, <1>2, <2>1, <2>2, TypeFromFacts
<1>4. clock' < elapsed'
  BY <1>1, <1>2 DEF Inv, ClockInv
<1>5. ClockInv'
  BY <1>1, <1>2, <1>4 DEF Inv, ClockInv
<1>6. ASSUME NEW i \in Identities
      PROVE  Tokens(i)' \in Nat /\ Tokens(i)' <= Tokens(i)
  <2>1. TokensIn(buckets, clock - 1, i) \in Nat
    BY <1>2, TokensFacts
  <2>2. TokensIn(buckets, clock - 1, i) <= TokensIn(buckets, clock, i)
    <3>1. CASE \E b \in Range(buckets) : b.key = i
      <4>1. PICK b \in Range(buckets) : b.key = i
        BY <3>1
      <4>2. b.tokens \in Nat /\ b.checkedAt \in Int /\ Full(i) \in Nat
        BY <1>2, <4>1, BucketIsFound, FullFacts DEF Bucket
      <4>3. PICK late \in Nat : late = IF clock > b.checkedAt THEN clock - b.checkedAt ELSE 0
        BY <1>2, <4>2
      <4>4. PICK late1 \in Nat :
              late1 = IF clock - 1 > b.checkedAt THEN clock - 1 - b.checkedAt ELSE 0
        BY <1>2, <4>2
      <4>5. late1 <= late
        BY <1>2, <4>2, <4>3, <4>4
      <4>6. TokensIn(buckets, clock, i)
              = IF Full(i) <= b.tokens + late THEN Full(i) ELSE b.tokens + late
        BY <1>2, <4>1, <4>3, TokensOfBucket
      <4>7. TokensIn(buckets, clock - 1, i)
              = IF Full(i) <= b.tokens + late1 THEN Full(i) ELSE b.tokens + late1
        BY <1>2, <4>1, <4>4, TokensOfBucket
      <4> QED
        BY <4>2, <4>5, <4>6, <4>7
    <3>2. CASE ~ \E b \in Range(buckets) : b.key = i
      <4>1. Full(i) \in Nat
        BY FullFacts
      <4> QED
        BY <3>2, <4>1 DEF TokensIn
    <3> QED
      BY <3>1, <3>2
  <2> QED
    BY <1>1, <2>1, <2>2, TokensAre
<1>7. AdmitsAtItsRate'
  <2>1. ASSUME NEW i \in Identities
        PROVE  Tokens(i)' \in Nat /\ budget'[i] \in Int /\ Tokens(i)' <= budget'[i]
    <3>1. Tokens(i) \in Nat /\ Tokens(i) <= budget[i] /\ budget[i] \in Int
      BY RateFacts
    <3> QED
      BY <1>1, <1>6, <3>1
  <2>2. clock' # elapsed'
    BY <1>1, <1>2, <1>4
  <2> QED
    BY <2>1, <2>2, RateFromFacts
<1>8. PromiseInv'
  BY <1>1 DEF PromiseInv
<1> QED
  BY <1>3, <1>5, <1>7, <1>8 DEF Inv

\* A tick passes: if the clock never stepped back every bucket gets it, as the
\* ideal one does; a bucket that the clock has left in the future may get less.
LEMMA TimePassesKeeps ==
  ASSUME Inv, TimePasses
  PROVE  Inv'
<1>1. /\ elapsed < MaxTime /\ elapsed' = elapsed + 1 /\ clock' = clock + 1
      /\ budget' = [i \in Identities |-> Min({Full(i), budget[i] + 1})]
      /\ UNCHANGED <<buckets, promise>>
  BY DEF TimePasses
<1>2. /\ WellFormed(buckets) /\ clock \in Int /\ elapsed \in 0 .. MaxTime /\ elapsed \in Int
      /\ budget \in [Identities -> Int] /\ MaxTime \in Nat
      /\ promise \in [request : Requests \cup {<<>>}, until : Int]
  BY TypeFacts, LimiterAssumption DEF Inv, TypeOK
<1>3. ASSUME NEW i \in Identities
      PROVE  budget'[i] = IF Full(i) <= budget[i] + 1 THEN Full(i) ELSE budget[i] + 1
  <2>1. Full(i) \in Int /\ budget[i] + 1 \in Int
    BY <1>2, FullFacts
  <2> QED
    BY <1>1, <2>1, MinOfTwo
<1>4. \A i \in Identities : budget'[i] \in Int
  BY <1>2, <1>3, FullFacts
<1>5. TypeOK'
  <2>1. budget' \in [Identities -> Int]
    BY <1>1, <1>4
  <2>2. clock' \in Int /\ elapsed' \in 0 .. MaxTime
    BY <1>1, <1>2
  <2> QED
    BY <1>1, <1>2, <2>1, <2>2, TypeFromFacts
<1>6. ClockInv'
  <2>1. \A b \in Range(buckets) : b.checkedAt \in Int
    BY <1>2, BucketIsFound DEF Bucket
  <2> QED
    BY <1>1, <1>2, <2>1 DEF Inv, ClockInv
<1>7. ASSUME NEW i \in Identities
      PROVE  /\ Tokens(i)' \in Nat
             /\ Tokens(i)' <= Full(i) /\ Tokens(i)' <= Tokens(i) + 1
             /\ clock = elapsed =>
                  Tokens(i)' = IF Full(i) <= Tokens(i) + 1 THEN Full(i) ELSE Tokens(i) + 1
  <2>1. Tokens(i) = TokensIn(buckets, clock, i) /\ Tokens(i)' = TokensIn(buckets, clock + 1, i)
    BY <1>1, TokensAre
  <2>2. Tokens(i)' \in Nat /\ Tokens(i)' <= Full(i) /\ Full(i) \in Nat
    BY <1>2, <2>1, TokensFacts, FullFacts
  <2>3. CASE \E b \in Range(buckets) : b.key = i
    <3>1. PICK b \in Range(buckets) : b.key = i
      BY <2>3
    <3>2. b.tokens \in Nat /\ b.checkedAt \in Int
      BY <1>2, <3>1, BucketIsFound DEF Bucket
    <3>3. PICK late \in Nat : late = IF clock > b.checkedAt THEN clock - b.checkedAt ELSE 0
      BY <1>2, <3>2
    <3>4. PICK late1 \in Nat :
            late1 = IF clock + 1 > b.checkedAt THEN (clock + 1) - b.checkedAt ELSE 0
      BY <1>2, <3>2
    <3>5. late1 <= late + 1
      BY <1>2, <3>2, <3>3, <3>4
    <3>6. clock = elapsed => late1 = late + 1
      <4>1. b.checkedAt <= elapsed
        BY DEF Inv, ClockInv
      <4> QED
        BY <1>2, <3>2, <3>3, <3>4, <4>1
    <3>7. Tokens(i) = IF Full(i) <= b.tokens + late THEN Full(i) ELSE b.tokens + late
      BY <1>2, <2>1, <3>1, <3>3, TokensOfBucket
    <3>8. Tokens(i)' = IF Full(i) <= b.tokens + late1 THEN Full(i) ELSE b.tokens + late1
      <4>1. clock + 1 \in Int /\ WellFormed(buckets)
        BY <1>2
      <4>2. TokensIn(buckets, clock + 1, b.key)
              = IF Full(b.key) <= b.tokens + late1 THEN Full(b.key) ELSE b.tokens + late1
        BY <3>4, <4>1, TokensOfBucket
      <4> QED
        BY <2>1, <3>1, <4>2
    <3>9. /\ Tokens(i)' <= Tokens(i) + 1
          /\ late1 = late + 1 =>
               Tokens(i)' = IF Full(i) <= Tokens(i) + 1 THEN Full(i) ELSE Tokens(i) + 1
      BY <2>2, <3>2, <3>5, <3>7, <3>8, OneTickMore
    <3> QED
      BY <2>2, <3>6, <3>9
  <2>4. CASE ~ \E b \in Range(buckets) : b.key = i
    <3>1. Tokens(i) = Full(i) /\ Tokens(i)' = Full(i)
      BY <2>1, <2>4 DEF TokensIn
    <3> QED
      BY <2>2, <3>1
  <2> QED
    BY <2>3, <2>4
<1>8. AdmitsAtItsRate'
  <2> SUFFICES ASSUME NEW i \in Identities
               PROVE  /\ Tokens(i)' \in Nat /\ budget'[i] \in Int /\ Tokens(i)' <= budget'[i]
                      /\ clock' = elapsed' => Tokens(i)' = budget'[i]
    BY RateFromFacts
  <2>1. /\ Tokens(i) \in Nat /\ Tokens(i) <= budget[i] /\ budget[i] \in Int /\ Full(i) \in Nat
        /\ clock = elapsed => Tokens(i) = budget[i]
    BY RateFacts
  <2>2. Tokens(i)' <= budget'[i]
    BY <1>3, <1>7, <2>1
  <2>3. clock' = elapsed' => Tokens(i)' = budget'[i]
    <3>1. clock' = elapsed' => clock = elapsed
      BY <1>1, <1>2
    <3> QED
      BY <1>3, <1>7, <2>1, <3>1
  <2> QED
    BY <1>4, <1>7, <2>2, <2>3
<1>9. PromiseInv'
  <2> SUFFICES ASSUME promise # NoPromise, clock' = elapsed', NEW i \in Range(promise.request)
               PROVE  budget'[i] >= Cost[i] \/ budget'[i] + (promise.until - clock') >= Cost[i]
    BY <1>1 DEF PromiseInv
  <2>1. clock = elapsed
    BY <1>1, <1>2
  <2>2. i \in Identities
    <3>1. promise.request \in Requests \cup {<<>>}
      BY <1>2
    <3>2. Range(<<>>) = {}
      BY DEF Range
    <3> QED
      BY <3>1, <3>2, RequestFacts
  <2>3. /\ budget[i] \in Int /\ Full(i) \in Nat /\ Cost[i] \in Nat /\ Full(i) >= Cost[i]
        /\ promise.until \in Int
    BY <1>2, <2>2, RateFacts
  <2>4. budget[i] >= Cost[i] \/ budget[i] + (promise.until - clock) >= Cost[i]
    BY <2>1 DEF Inv, PromiseInv
  <2> QED
    BY <1>1, <1>2, <1>3, <2>2, <2>3, <2>4
<1> QED
  BY <1>5, <1>6, <1>8, <1>9 DEF Inv

\* What admitting a request leaves in the table: its own buckets, counted now, and
\* buckets of others as they were.
LEMMA StoreAllKeeps ==
  ASSUME Inv, NEW request \in Requests, Blocked(request) = {}
  PROVE  /\ WellFormed(StoreAll(request))
         /\ \A b \in Range(StoreAll(request)) :
              \/ b.key \in Range(request) /\ b = Counted(b.key)
              \/ b.key \notin Range(request) /\ b \in Range(buckets)
<1>1. WellFormed(buckets) /\ clock \in Int
  BY TypeFacts DEF Inv
<1>2. ASSUME NEW i \in Range(request)
      PROVE  /\ Counted(i) \in Bucket /\ Counted(i).key = i
             /\ Counted(i).tokens <= Full(Counted(i).key)
  <2>1. i \in Identities
    BY RequestFacts
  <2>2. /\ Tokens(i) \in Nat /\ Tokens(i) <= Full(i) /\ Cost[i] \in Nat \ {0} /\ Full(i) \in Nat
    BY <2>1, RateFacts
  <2>3. ~(Tokens(i) < Cost[i])
    BY DEF Blocked
  <2>4. PICK left \in Nat : left = Tokens(i) - Cost[i] /\ left <= Full(i)
    BY <2>2, <2>3
  <2>5. Counted(i) = [key |-> i, tokens |-> left, checkedAt |-> clock]
    BY <2>4 DEF Counted
  <2> QED
    BY <1>1, <2>1, <2>4, <2>5 DEF Bucket
<1> DEFINE one == request[1]
           two == request[2]
           first == StoreFirst(buckets, Counted(one))
<1>3. one \in Range(request)
  BY RequestFacts
<1>4. /\ WellFormed(first)
      /\ \A b \in Range(first) :
           b = Counted(one) \/ (b \in Range(buckets) /\ b.key # one)
  BY <1>1, <1>2, <1>3, StoreFirstKeeps
<1>5. CASE Len(request) = 1
  <2>1. StoreAll(request) = first
    BY <1>5 DEF StoreAll
  <2>2. Range(request) = {one}
    BY <1>5, RequestFacts
  <2> HIDE DEF one, first
  <2> QED
    BY <1>2, <1>3, <1>4, <2>1, <2>2
<1>6. CASE Len(request) # 1
  <2> DEFINE second == StoreFirst(first, Counted(two))
  <2>1. StoreAll(request) = second
    BY <1>6 DEF StoreAll
  <2>2. Range(request) = {one, two} /\ two \in Range(request)
    BY <1>6, RequestFacts
  <2> HIDE DEF first
  <2>3. /\ WellFormed(second)
        /\ \A b \in Range(second) :
             b = Counted(two) \/ (b \in Range(first) /\ b.key # two)
    BY <1>2, <1>4, <2>2, StoreFirstKeeps
  <2> HIDE DEF one, two, second
  <2> QED
    BY <1>2, <1>3, <1>4, <2>1, <2>2, <2>3
<1> QED
  BY <1>5, <1>6

\* A request is admitted: its identities pay in both accounts, others keep theirs,
\* and whose bucket made room has a full one again.
LEMMA AdmitKeeps ==
  ASSUME Inv, NEW request \in Requests, Admit(request)
  PROVE  Inv'
<1> DEFINE kept == {buckets'[n].key : n \in DOMAIN buckets'}
<1>1. /\ Blocked(request) = {} /\ buckets' = StoreAll(request)
      /\ budget' = [i \in Identities |->
           IF i \notin kept THEN Full(i)
           ELSE IF i \in Range(request) THEN budget[i] - Cost[i] ELSE budget[i]]
      /\ promise' = IF Range(promise.request) \cap Range(request) = {} THEN promise ELSE NoPromise
      /\ UNCHANGED <<clock, elapsed>>
  BY DEF Admit
<1>2. /\ WellFormed(buckets) /\ clock \in Int /\ elapsed \in 0 .. MaxTime /\ elapsed \in Int
      /\ budget \in [Identities -> Int]
      /\ promise \in [request : Requests \cup {<<>>}, until : Int]
  BY TypeFacts DEF Inv, TypeOK
<1>3. /\ WellFormed(buckets')
      /\ \A b \in Range(buckets') :
           \/ b.key \in Range(request) /\ b = Counted(b.key)
           \/ b.key \notin Range(request) /\ b \in Range(buckets)
  BY <1>1, StoreAllKeeps
<1>4. \A i : i \in kept <=> \E b \in Range(buckets') : b.key = i
  BY DEF Range
<1> HIDE DEF kept
<1>5. \A i \in Identities :
        /\ Tokens(i) \in Nat /\ Tokens(i) <= Full(i) /\ Tokens(i) <= budget[i]
        /\ clock = elapsed => Tokens(i) = budget[i]
        /\ budget[i] \in Int /\ Cost[i] \in Nat \ {0} /\ Full(i) \in Nat /\ Full(i) >= Cost[i]
  BY RateFacts
<1>6. TypeOK'
  <2>1. budget' \in [Identities -> Int]
    BY <1>1, <1>5
  <2>2. promise' \in [request : Requests \cup {<<>>}, until : Int]
    BY <1>1, <1>2 DEF NoPromise
  <2> QED
    BY <1>1, <1>2, <1>3, <2>1, <2>2, TypeFromFacts
<1>7. ClockInv'
  <2>1. \A i : Counted(i).checkedAt = clock
    BY DEF Counted
  <2>2. clock <= elapsed /\ \A b \in Range(buckets) : b.checkedAt <= elapsed
    BY DEF Inv, ClockInv
  <2>3. \A b \in Range(buckets') : b.checkedAt <= elapsed
    BY <1>3, <2>1, <2>2
  <2> QED
    BY <1>1, <2>2, <2>3 DEF ClockInv
<1>8. ASSUME NEW i \in Identities
      PROVE  /\ i \notin kept => Tokens(i)' = Full(i)
             /\ i \in kept /\ i \in Range(request) => Tokens(i)' = Tokens(i) - Cost[i]
             /\ i \in kept /\ i \notin Range(request) => Tokens(i)' = Tokens(i)
  <2>1. Tokens(i) = TokensIn(buckets, clock, i) /\ Tokens(i)' = TokensIn(buckets', clock, i)
    BY <1>1, TokensAre
  <2>2. CASE i \notin kept
    BY <1>4, <2>1, <2>2 DEF TokensIn
  <2>3. CASE i \in kept
    <3>1. PICK b \in Range(buckets') : b.key = i
      BY <1>4, <2>3
    <3>2. b.tokens \in Nat /\ b.checkedAt \in Int /\ b.tokens <= Full(i)
      BY <1>3, <3>1, BucketIsFound DEF Bucket
    <3>3. PICK late \in Nat : late = IF clock > b.checkedAt THEN clock - b.checkedAt ELSE 0
      BY <1>2, <3>2
    <3>4. Tokens(i)' = IF Full(i) <= b.tokens + late THEN Full(i) ELSE b.tokens + late
      BY <1>2, <1>3, <2>1, <3>1, <3>3, TokensOfBucket
    <3>5. CASE i \in Range(request)
      <4>1. b = Counted(i)
        BY <1>3, <3>1, <3>5
      <4>2. b.tokens = Tokens(i) - Cost[i] /\ b.checkedAt = clock
        BY <4>1 DEF Counted
      <4>3. late = 0
        BY <1>2, <3>3, <4>2
      <4>4. Tokens(i)' = b.tokens
        BY <1>5, <3>2, <3>4, <4>3
      <4> QED
        BY <3>5, <4>2, <4>4, <2>3
    <3>6. CASE i \notin Range(request)
      <4>1. b \in Range(buckets)
        BY <1>3, <3>1, <3>6
      <4>2. Tokens(i) = IF Full(i) <= b.tokens + late THEN Full(i) ELSE b.tokens + late
        BY <1>2, <2>1, <3>1, <3>3, <4>1, TokensOfBucket
      <4> QED
        BY <2>3, <3>4, <3>6, <4>2
    <3> QED
      BY <3>5, <3>6
  <2> QED
    BY <2>2, <2>3
<1>9. ASSUME NEW i \in Range(request)
      PROVE  ~(Tokens(i) < Cost[i])
  BY <1>1 DEF Blocked
<1>10. AdmitsAtItsRate'
  <2> SUFFICES ASSUME NEW i \in Identities
               PROVE  /\ Tokens(i)' \in Nat /\ budget'[i] \in Int /\ Tokens(i)' <= budget'[i]
                      /\ clock' = elapsed' => Tokens(i)' = budget'[i]
    BY RateFromFacts
  <2>1. CASE i \notin kept
    <3>1. Tokens(i)' = Full(i) /\ budget'[i] = Full(i)
      BY <1>1, <1>8, <2>1
    <3> QED
      BY <1>5, <3>1
  <2>2. CASE i \in kept /\ i \in Range(request)
    <3>1. Tokens(i)' = Tokens(i) - Cost[i] /\ budget'[i] = budget[i] - Cost[i]
      BY <1>1, <1>8, <2>2
    <3>2. ~(Tokens(i) < Cost[i])
      BY <1>9, <2>2
    <3> QED
      BY <1>1, <1>5, <3>1, <3>2
  <2>3. CASE i \in kept /\ i \notin Range(request)
    <3>1. Tokens(i)' = Tokens(i) /\ budget'[i] = budget[i]
      BY <1>1, <1>8, <2>3
    <3> QED
      BY <1>1, <1>5, <3>1
  <2> QED
    BY <2>1, <2>2, <2>3
<1>11. PromiseInv'
  <2> SUFFICES ASSUME promise' # NoPromise, clock' = elapsed', NEW i \in Range(promise'.request)
               PROVE  budget'[i] >= Cost[i] \/ budget'[i] + (promise'.until - clock') >= Cost[i]
    BY DEF PromiseInv
  <2>1. promise' = promise /\ i \notin Range(request)
    BY <1>1
  <2>2. i \in Identities
    <3>1. promise.request \in Requests \cup {<<>>}
      BY <1>2
    <3>2. Range(<<>>) = {}
      BY DEF Range
    <3> QED
      BY <2>1, <3>1, <3>2, RequestFacts
  <2>3. budget[i] >= Cost[i] \/ budget[i] + (promise.until - clock) >= Cost[i]
    BY <1>1, <2>1 DEF Inv, PromiseInv
  <2>4. budget'[i] = Full(i) \/ budget'[i] = budget[i]
    BY <1>1, <2>1, <2>2
  <2> QED
    BY <1>1, <1>5, <2>1, <2>2, <2>3, <2>4
<1> QED
  BY <1>6, <1>7, <1>10, <1>11 DEF Inv

\* One step of the limiter.
LEMMA StepKeeps == Inv /\ [Next]_vars => Inv'
<1> SUFFICES ASSUME Inv, [Next]_vars PROVE Inv'
  OBVIOUS
<1>1. CASE \E request \in Requests : Admit(request) \/ Refuse(request)
  BY <1>1, AdmitKeeps, RefuseKeeps
<1>2. CASE TimePasses
  BY <1>2, TimePassesKeeps
<1>3. CASE ClockStepsBack
  BY <1>3, ClockStepsBackKeeps
<1>4. CASE UNCHANGED vars
  <2>1. TypeOK' /\ ClockInv' /\ PromiseInv'
    BY <1>4 DEF vars, Inv, TypeOK, ClockInv, PromiseInv
  <2>2. AdmitsAtItsRate'
    BY <1>4 DEF vars, Inv, AdmitsAtItsRate, Tokens, Keys, BucketOf, Refilled
  <2> QED
    BY <2>1, <2>2 DEF Inv
<1> QED
  BY <1>1, <1>2, <1>3, <1>4 DEF Next

-----------------------------------------------------------------------------
(* The theorems.                                                           *)

\* The invariant holds in every behaviour.
LEMMA AlwaysInv == Spec => []Inv
<1> QED
  BY InitInv, StepKeeps, PTL DEF Spec

\* The table keeps its bound, one bucket per identity, and none is in debt.
THEOREM LimiterTypeCorrect == Spec => []TypeOK
<1>1. Inv => TypeOK
  BY DEF Inv
<1> QED
  BY <1>1, AlwaysInv, PTL

\* No identity is admitted beyond its burst and refill as long as its bucket is
\* kept, however the identities of requests combine and the clock steps back; if it
\* never does, the identity has all that its policy grants.
THEOREM RateCorrect == Spec => []AdmitsAtItsRate
<1>1. Inv => AdmitsAtItsRate
  BY DEF Inv
<1> QED
  BY <1>1, AlwaysInv, PTL

\* The Retry-After of a refusal is long enough, whatever is admitted meanwhile to
\* other identities.
THEOREM RetryCorrect == Spec => []RetryAfterIsEnough
<1>1. Inv => RetryAfterIsEnough
  <2> SUFFICES ASSUME Inv, promise # NoPromise, clock = elapsed, clock >= promise.until
               PROVE  Blocked(promise.request) = {}
    BY DEF RetryAfterIsEnough
  <2>1. clock \in Int /\ promise \in [request : Requests \cup {<<>>}, until : Int]
    BY TypeFacts DEF Inv
  <2>2. ASSUME NEW i \in Range(promise.request)
        PROVE  ~(Tokens(i) < Cost[i])
    <3>1. promise.request \in Requests \cup {<<>>}
      BY <2>1
    <3>2. Range(<<>>) = {}
      BY DEF Range
    <3>3. i \in Identities
      BY <2>2, <3>1, <3>2, RequestFacts
    <3>4. Tokens(i) = budget[i] /\ Tokens(i) \in Nat /\ Cost[i] \in Nat
      BY <3>3, RateFacts
    <3>5. budget[i] >= Cost[i] \/ budget[i] + (promise.until - clock) >= Cost[i]
      BY DEF Inv, PromiseInv
    <3> QED
      BY <2>1, <3>4, <3>5
  <2> QED
    BY <2>2 DEF Blocked
<1> QED
  BY <1>1, AlwaysInv, PTL

=============================================================================
