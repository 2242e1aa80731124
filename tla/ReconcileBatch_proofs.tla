------------------------ MODULE ReconcileBatch_proofs ------------------------
(***************************************************************************)
(* Theorems about ReconcileBatch: the worker never takes a payment whose   *)
(* invocation may still be at work, for any lease, backoff and schedule,   *)
(* and shares its read quota in turns.                                     *)
(*                                                                         *)
(* The argument is one inequality, TimeLeft: the time an invocation has    *)
(* left never exceeds the time its payment still has to wait.  It holds    *)
(* when the payment is accepted, because an invocation is shorter than a   *)
(* lease; time takes from both alike; and a payment is taken only when its *)
(* own wait is over.                                                       *)
(*                                                                         *)
(* Then turns: a payment that was passed over leaves its run with a lease  *)
(* that ends before the backoff of any payment that was read.  So in the   *)
(* next run the ones before it are those passed over with it (OwedInv), and*)
(* the quota, of which two runs' worth is enough for all (QuotaInv),       *)
(* reaches it, unless that run fails.                                      *)
(***************************************************************************)
EXTENDS ReconcileBatch, FiniteSetTheorems, TLAPS

Accepted == {t \in Transactions : phase[t] # "ABSENT"}

\* What is in the table at any time is finite, so that a batch can be counted.
FinitelyMany == IsFiniteSet(Accepted)

\* While an invocation lives, its payment is on its way out and waits longer.
TimeLeft ==
  \A t \in Transactions : alive[t] > 0 =>
    phase[t] \in {"NOT_SENT", "SENDING"} /\ alive[t] <= due[t]

\* What the run holds was accepted once, by an invocation that is over.
RunInv ==
  \A i \in DOMAIN run.claimed :
    phase[run.claimed[i]] # "ABSENT" /\ alive[run.claimed[i]] = 0

Inv == TypeOK /\ FinitelyMany /\ TimeLeft /\ RunInv

-----------------------------------------------------------------------------
(* The operators.                                                          *)

\* A backoff is a time, whatever the number of attempts.
LEMMA BackoffIsTime ==
  ASSUME NEW n \in 0 .. MaxAttempts, NEW d \in Backoff(n)
  PROVE  d \in Int
<1> DEFINE first == IF n = 0 THEN 1 ELSE n
           base  == IF first <= Len(Delays) THEN Delays[first] ELSE RecurringDelay
<1>1. Delays \in Seq(Nat) /\ Delays # <<>> /\ RecurringDelay \in Nat
  BY TimesAssumption
<1>2. Len(Delays) \in Nat /\ Len(Delays) >= 1
  BY <1>1
<1>3. first \in Nat /\ first >= 1
  BY <1>2 DEF MaxAttempts
<1>4. base \in Nat
  BY <1>1, <1>2, <1>3
<1>5. base \div 5 \in Int
  BY <1>4
<1>6. d \in {base - base \div 5, base, base + base \div 5}
  BY DEF Backoff
<1> QED
  BY <1>4, <1>5, <1>6

\* Counting an attempt stays within the numbers told apart.
LEMMA CountUpIsAttempt ==
  ASSUME NEW n \in 0 .. MaxAttempts
  PROVE  CountUp(n) \in 0 .. MaxAttempts
<1>1. Len(Delays) \in Nat
  BY TimesAssumption
<1> QED
  BY <1>1 DEF CountUp, MaxAttempts

\* Two payments of a finite set never have the same place in the index: the one
\* that is listed first is counted before the other.
LEMMA PlacesDiffer ==
  ASSUME due \in [Transactions -> Int],
         NEW S \in SUBSET Transactions, IsFiniteSet(S),
         NEW t \in S, NEW u \in S, Before(t, u)
  PROVE  Position(t, S) < Position(u, S)
<1> DEFINE T == {v \in S : Before(v, t)}
           U == {v \in S : Before(v, u)}
<1>1. t \in Nat /\ u \in Nat /\ S \subseteq Nat /\ \A v \in S : due[v] \in Int
  BY TimesAssumption
<1>2. T \subseteq U
  <2> SUFFICES ASSUME NEW v \in S, Before(v, t)
               PROVE  Before(v, u)
    OBVIOUS
  <2>1. v \in Nat /\ due[v] \in Int /\ due[t] \in Int /\ due[u] \in Int
    BY <1>1
  <2>2. due[v] < due[t] \/ (due[v] = due[t] /\ v < t)
    BY DEF Before
  <2>3. due[t] < due[u] \/ (due[t] = due[u] /\ t < u)
    BY DEF Before
  <2>4. due[v] < due[u] \/ (due[v] = due[u] /\ v < u)
    BY <1>1, <2>1, <2>2, <2>3
  <2> QED
    BY <2>4 DEF Before
<1>3. t \in U /\ t \notin T
  BY <1>1 DEF Before
<1>4. IsFiniteSet(U)
  BY FS_Subset
<1>5. IsFiniteSet(T) /\ Cardinality(T) <= Cardinality(U)
      /\ (Cardinality(U) = Cardinality(T) => U = T)
  BY <1>2, <1>4, FS_Subset
<1>6. Cardinality(T) \in Nat /\ Cardinality(U) \in Nat
  BY <1>4, <1>5, FS_CardinalityType
<1>7. Cardinality(T) < Cardinality(U)
  BY <1>3, <1>5, <1>6
<1> QED
  BY <1>6, <1>7 DEF Position

\* The payments of a finite set have its places, one each.
LEMMA PlacesAreShared ==
  ASSUME due \in [Transactions -> Int],
         NEW S \in SUBSET Transactions, IsFiniteSet(S)
  PROVE  /\ \A t \in S : Position(t, S) \in 1 .. Cardinality(S)
         /\ \A t, u \in S : Position(t, S) = Position(u, S) => t = u
         /\ \A i \in 1 .. Cardinality(S) : \E t \in S : Position(t, S) = i
<1> DEFINE n == Cardinality(S)
           place == [t \in S |-> Position(t, S)]
<1>1. n \in Nat /\ IsFiniteSet(1 .. n) /\ Cardinality(1 .. n) = n
  BY FS_CardinalityType, FS_Interval
<1>2. ASSUME NEW t \in S
      PROVE  Position(t, S) \in 1 .. n
  <2> DEFINE T == {v \in S : Before(v, t)}
  <2>1. t \in Nat /\ due[t] \in Int
    BY TimesAssumption
  <2>2. t \notin T
    BY <2>1 DEF Before
  <2>3. IsFiniteSet(T) /\ Cardinality(T) <= n /\ (n = Cardinality(T) => S = T)
    BY FS_Subset
  <2>4. Cardinality(T) \in Nat
    BY <2>3, FS_CardinalityType
  <2>5. Cardinality(T) < n
    BY <1>1, <2>2, <2>3, <2>4
  <2> QED
    BY <1>1, <2>4, <2>5 DEF Position
<1>3. ASSUME NEW t \in S, NEW u \in S, t # u
      PROVE  Position(t, S) # Position(u, S)
  <2>1. t \in Nat /\ u \in Nat /\ due[t] \in Int /\ due[u] \in Int
    BY TimesAssumption
  <2>2. Before(t, u) \/ Before(u, t)
    BY <1>3, <2>1 DEF Before
  <2>3. Position(t, S) \in Int /\ Position(u, S) \in Int
    BY <1>1, <1>2
  <2>4. Position(t, S) < Position(u, S) \/ Position(u, S) < Position(t, S)
    BY <2>2, PlacesDiffer
  <2> QED
    BY <2>3, <2>4
<1>4. place \in Injection(S, 1 .. n)
  BY <1>2, <1>3 DEF Injection, IsInjective
<1>5. place \in Surjection(S, 1 .. n)
  BY <1>1, <1>4, FS_Injection
<1>6. \A i \in 1 .. n : \E t \in S : Position(t, S) = i
  BY <1>5 DEF Surjection
<1> QED
  BY <1>2, <1>3, <1>6

\* InOrder lists exactly members of its set: every place has its payment.
LEMMA InOrderLists ==
  ASSUME due \in [Transactions -> Int],
         NEW S \in SUBSET Transactions, IsFiniteSet(S)
  PROVE  InOrder(S) \in Seq(S)
<1>1. Cardinality(S) \in Nat
  BY FS_CardinalityType
<1>2. \A i \in 1 .. Cardinality(S) : (CHOOSE t \in S : Position(t, S) = i) \in S
  BY PlacesAreShared
<1> QED
  BY <1>1, <1>2 DEF InOrder

\* It lists each of them once, and in the order of the index.
LEMMA InOrderIsOrdered ==
  ASSUME due \in [Transactions -> Int],
         NEW S \in SUBSET Transactions, IsFiniteSet(S)
  PROVE  /\ \A t \in S : \E i \in DOMAIN InOrder(S) : InOrder(S)[i] = t
         /\ \A i, j \in DOMAIN InOrder(S) : InOrder(S)[i] = InOrder(S)[j] => i = j
         /\ \A i, j \in DOMAIN InOrder(S) : i < j => Before(InOrder(S)[i], InOrder(S)[j])
<1> DEFINE n == Cardinality(S)
           s == InOrder(S)
<1>1. n \in Nat
  BY FS_CardinalityType
<1>2. DOMAIN s = 1 .. n
  BY DEF InOrder
<1>3. ASSUME NEW i \in 1 .. n
      PROVE  s[i] \in S /\ Position(s[i], S) = i
  <2>1. \E t \in S : Position(t, S) = i
    BY PlacesAreShared
  <2>2. s[i] = CHOOSE t \in S : Position(t, S) = i
    BY DEF InOrder
  <2> QED
    BY <2>1, <2>2
<1> HIDE DEF s
<1>4. ASSUME NEW t \in S
      PROVE  \E i \in DOMAIN s : s[i] = t
  <2>1. Position(t, S) \in 1 .. n
    BY PlacesAreShared
  <2>2. s[Position(t, S)] \in S /\ Position(s[Position(t, S)], S) = Position(t, S)
    BY <1>3, <2>1
  <2>3. s[Position(t, S)] = t
    BY <2>2, PlacesAreShared
  <2> QED
    BY <1>2, <2>1, <2>3
<1>5. ASSUME NEW i \in DOMAIN s, NEW j \in DOMAIN s, s[i] = s[j]
      PROVE  i = j
  BY <1>2, <1>3, <1>5
<1>6. ASSUME NEW i \in DOMAIN s, NEW j \in DOMAIN s, i < j
      PROVE  Before(s[i], s[j])
  <2>1. s[i] \in S /\ s[j] \in S /\ Position(s[i], S) = i /\ Position(s[j], S) = j
    BY <1>2, <1>3
  <2>2. i \in Int /\ j \in Int
    BY <1>1, <1>2
  <2>3. s[i] # s[j]
    BY <1>6, <2>1, <2>2
  <2>4. s[i] \in Nat /\ s[j] \in Nat /\ due[s[i]] \in Int /\ due[s[j]] \in Int
    BY <2>1, TimesAssumption
  <2>5. Before(s[i], s[j]) \/ Before(s[j], s[i])
    BY <2>3, <2>4 DEF Before
  <2>6. ~Before(s[j], s[i])
    BY <1>6, <2>1, <2>2, PlacesDiffer
  <2> QED
    BY <2>5, <2>6
<1> QED
  BY <1>4, <1>5, <1>6 DEF s

-----------------------------------------------------------------------------
(* Writes to one row, and the run's next step.                             *)

\* The effect on the rows of every write but the batch's: t is written and
\* stays in the table, no other row changes.
Written(t) ==
  /\ phase' \in [Transactions -> Phases]
  /\ due' \in [Transactions -> Int]
  /\ leased' \in [Transactions -> BOOLEAN]
  /\ attempts' \in [Transactions -> 0 .. MaxAttempts]
  /\ phase'[t] # "ABSENT"
  /\ \A u \in Transactions \ {t} : phase'[u] = phase[u] /\ due'[u] = due[u]

\* A row that is to be checked again is written so.
LEMMA CheckAgainWrites ==
  ASSUME TypeOK, NEW t \in Transactions, NEW p \in Phases \ {"ABSENT"},
         NEW n \in 0 .. MaxAttempts, CheckAgain(t, p, n)
  PROVE  Written(t)
<1>1. PICK d \in Backoff(n) : Wait(t, d, FALSE)
  BY DEF CheckAgain
<1>2. d \in Int
  BY BackoffIsTime
<1> QED
  BY <1>1, <1>2 DEF TypeOK, CheckAgain, Wait, Written

\* A row that is settled is written so.
LEMMA SettleRowWrites ==
  ASSUME TypeOK, NEW t \in Transactions, SettleRow(t)
  PROVE  Written(t)
<1>1. MaxAttempts \in Nat
  BY TimesAssumption DEF MaxAttempts
<1> QED
  BY <1>1 DEF TypeOK, SettleRow, Wait, Written, Phases

\* A write that adds at most one payment to the table leaves it finite.
LEMMA OneMoreIsFinite ==
  ASSUME FinitelyMany, NEW t \in Transactions,
         \A u \in Transactions \ {t} : phase'[u] = phase[u]
  PROVE  FinitelyMany'
<1>1. Accepted' \subseteq Accepted \cup {t}
  BY DEF Accepted
<1>2. IsFiniteSet(Accepted \cup {t})
  BY FS_AddElement DEF FinitelyMany
<1> QED
  BY <1>1, <1>2, FS_Subset DEF FinitelyMany

\* A write to a row whose invocation is over keeps the inequality.
LEMMA WrittenKeepsTimeLeft ==
  ASSUME TypeOK, TimeLeft, NEW t \in Transactions, Written(t),
         alive'[t] = 0, \A u \in Transactions \ {t} : alive'[u] = alive[u]
  PROVE  TimeLeft'
<1> SUFFICES ASSUME NEW u \in Transactions, alive'[u] > 0
             PROVE  phase'[u] \in {"NOT_SENT", "SENDING"} /\ alive'[u] <= due'[u]
  BY DEF TimeLeft
<1>1. u # t
  OBVIOUS
<1> QED
  BY <1>1 DEF TimeLeft, Written

\* Wherever the run is, a write to t leaves what it holds in the table, if the
\* invocations of the payments it holds stay over.
LEMMA WrittenKeepsRunInv ==
  ASSUME TypeOK, RunInv, NEW t \in Transactions, Written(t),
         \A u \in Transactions : alive[u] = 0 => alive'[u] = 0,
         \A i \in DOMAIN run'.claimed :
           \E j \in DOMAIN run.claimed : run'.claimed[i] = run.claimed[j]
  PROVE  RunInv'
<1> SUFFICES ASSUME NEW i \in DOMAIN run'.claimed
             PROVE  phase'[run'.claimed[i]] # "ABSENT" /\ alive'[run'.claimed[i]] = 0
  BY DEF RunInv
<1>1. PICK j \in DOMAIN run.claimed : run'.claimed[i] = run.claimed[j]
  OBVIOUS
<1> DEFINE u == run.claimed[j]
<1>2. u \in Transactions
  BY DEF TypeOK
<1>3. phase[u] # "ABSENT" /\ alive[u] = 0
  BY DEF RunInv
<1>4. phase'[u] # "ABSENT" /\ alive'[u] = 0
  BY <1>2, <1>3 DEF Written
<1> QED
  BY <1>1, <1>4

\* The payment in hand was accepted once, its invocation is over, and the rest
\* of the batch is a part of the batch.
LEMMA CurrentFacts ==
  ASSUME TypeOK, RunInv, run.claimed # <<>>
  PROVE  /\ Current \in Transactions
         /\ phase[Current] # "ABSENT" /\ alive[Current] = 0
<1>1. run.claimed \in Seq(Transactions)
  BY DEF TypeOK
<1>2. 1 \in DOMAIN run.claimed /\ Current = run.claimed[1]
  BY <1>1 DEF Current
<1>3. run.claimed[1] \in Transactions
  BY <1>1, <1>2
<1> QED
  BY <1>2, <1>3 DEF RunInv

\* Going on to the next payment of the batch.
LEMMA DoneFacts ==
  ASSUME TypeOK, run.claimed # <<>>, NEW r \in 0 .. ReadLimit, Done(r)
  PROVE  /\ run' \in [at : {"idle", "process"}, claimed : Seq(Transactions),
                      reads : 0 .. ReadLimit, age : 0 .. WorkerTimeout]
         /\ \A i \in DOMAIN run'.claimed :
              \E j \in DOMAIN run.claimed : run'.claimed[i] = run.claimed[j]
<1> DEFINE rest == Tail(run.claimed)
<1>1. run.claimed \in Seq(Transactions)
  BY DEF TypeOK
<1>2. rest \in Seq(Transactions)
  BY <1>1
<1>3. \A i \in DOMAIN rest : i + 1 \in DOMAIN run.claimed /\ rest[i] = run.claimed[i + 1]
  BY <1>1
<1>4. run' = [run EXCEPT !.claimed = rest, !.reads = r]
  BY DEF Done
<1> HIDE DEF rest
<1>5. run'.claimed = rest
  BY <1>4 DEF TypeOK
<1>6. run' \in [at : {"idle", "process"}, claimed : Seq(Transactions),
                reads : 0 .. ReadLimit, age : 0 .. WorkerTimeout]
  BY <1>2, <1>4 DEF TypeOK
<1> QED
  BY <1>3, <1>5, <1>6

-----------------------------------------------------------------------------

(* Every action preserves the invariant.                                   *)

\* At first the table is empty and nothing runs.
LEMMA InitInv == Init => Inv
<1> SUFFICES ASSUME Init PROVE Inv
  OBVIOUS
<1>1. /\ Period \in Nat /\ ReadLimit \in Nat /\ WorkerTimeout \in Nat
      /\ ApiTimeout \in Nat /\ MaxPassed \in Nat /\ MaxFaults \in Nat
      /\ MaxAttempts \in Nat
  BY TimesAssumption DEF MaxAttempts
<1>2. Idle \in [at : {"idle", "process"}, claimed : Seq(Transactions),
                reads : 0 .. ReadLimit, age : 0 .. WorkerTimeout]
  BY <1>1 DEF Idle
<1>3. TypeOK
  BY <1>1, <1>2 DEF Init, TypeOK, Phases
<1>4. Accepted = {}
  BY DEF Init, Accepted
<1>5. FinitelyMany
  BY <1>4, FS_EmptySet DEF FinitelyMany
<1>6. TimeLeft
  BY DEF Init, TimeLeft
<1>7. RunInv
  BY DEF Init, Idle, RunInv
<1> QED
  BY <1>3, <1>5, <1>6, <1>7 DEF Inv

\* A step that leaves the rows and the invocations alone, and whose run holds
\* nothing new, keeps everything but the types.
LEMMA RowsKept ==
  ASSUME Inv, UNCHANGED <<phase, due, alive>>,
         run'.claimed = run.claimed \/ run'.claimed = <<>>
  PROVE  FinitelyMany' /\ TimeLeft' /\ RunInv'
<1>1. FinitelyMany'
  BY DEF Inv, FinitelyMany, Accepted
<1>2. TimeLeft'
  BY DEF Inv, TimeLeft
<1>3. CASE run'.claimed = run.claimed
  BY <1>1, <1>2, <1>3 DEF Inv, RunInv
<1>4. CASE run'.claimed = <<>>
  BY <1>1, <1>2, <1>4 DEF RunInv
<1> QED
  BY <1>3, <1>4

\* A payment is accepted: it waits a lease, its invocation lives no longer, and
\* no run can hold it, since what a run holds was accepted before.
LEMMA AcceptKeeps ==
  ASSUME Inv, NEW t \in Transactions, Accept(t)
  PROVE  Inv'
<1> USE DEF Inv
<1>1. Lease \in Nat /\ ApiTimeout \in Nat /\ ApiTimeout <= Lease
  BY TimesAssumption, LeaseAssumption
<1>2. /\ phase[t] = "ABSENT"
      /\ phase' = [phase EXCEPT ![t] = "NOT_SENT"]
      /\ due' = [due EXCEPT ![t] = Lease]
      /\ leased' = [leased EXCEPT ![t] = FALSE]
      /\ alive' = [alive EXCEPT ![t] = ApiTimeout]
      /\ UNCHANGED <<known, attempts, run, nextRun, passed, faults>>
  BY DEF Accept, AcceptedDue, Wait
<1>3. TypeOK'
  BY <1>1, <1>2 DEF TypeOK, Phases
<1>4. FinitelyMany'
  BY <1>2, OneMoreIsFinite DEF TypeOK
<1>5. TimeLeft'
  BY <1>1, <1>2 DEF TimeLeft, TypeOK
<1>6. ASSUME NEW i \in DOMAIN run.claimed
      PROVE  phase'[run.claimed[i]] # "ABSENT" /\ alive'[run.claimed[i]] = 0
  <2>1. run.claimed[i] \in Transactions
    BY DEF TypeOK
  <2>2. phase[run.claimed[i]] # "ABSENT" /\ alive[run.claimed[i]] = 0
    BY DEF RunInv
  <2> QED
    BY <1>2, <2>1, <2>2 DEF TypeOK
<1> QED
  BY <1>2, <1>3, <1>4, <1>5, <1>6 DEF RunInv

\* The lease of a dispatch is taken while the invocation lives: it outlasts it.
LEMMA ClaimDispatchKeeps ==
  ASSUME Inv, NEW t \in Transactions, ClaimDispatch(t)
  PROVE  Inv'
<1> USE DEF Inv
<1>1. Lease \in Nat /\ ApiTimeout \in Nat /\ ApiTimeout <= Lease
  BY TimesAssumption, LeaseAssumption
<1>2. /\ phase' = [phase EXCEPT ![t] = "SENDING"]
      /\ due' = [due EXCEPT ![t] = Lease]
      /\ leased' = [leased EXCEPT ![t] = TRUE]
      /\ UNCHANGED <<known, attempts, alive, run, nextRun, passed, faults>>
  BY DEF ClaimDispatch, Wait
<1>3. TypeOK'
  BY <1>1, <1>2 DEF TypeOK, Phases
<1>4. Written(t)
  BY <1>2, <1>3 DEF TypeOK, Written
<1>5. FinitelyMany'
  BY <1>4, OneMoreIsFinite DEF Written
<1>6. TimeLeft'
  BY <1>1, <1>2 DEF TimeLeft, TypeOK
<1>7. RunInv'
  BY <1>2, <1>4, WrittenKeepsRunInv
<1> QED
  BY <1>3, <1>5, <1>6, <1>7

\* An invocation that has its answer writes it and is over.
LEMMA AnsweredKeeps ==
  ASSUME Inv, NEW t \in Transactions, Answered(t)
  PROVE  Inv'
<1> USE DEF Inv
<1>1. 0 \in 0 .. MaxAttempts /\ ApiTimeout \in Nat
  BY TimesAssumption DEF MaxAttempts
<1>2. Written(t) /\ known' \in [Transactions -> BOOLEAN]
  <2>1. CASE CheckAgain(t, "ACKNOWLEDGED", 0) /\ known' = [known EXCEPT ![t] = TRUE]
    BY <1>1, <2>1, CheckAgainWrites DEF Phases, TypeOK
  <2>2. CASE SettleRow(t) /\ UNCHANGED known
    BY <2>2, SettleRowWrites DEF TypeOK
  <2>3. CASE CheckAgain(t, "UNKNOWN", 0) /\ UNCHANGED known
    BY <1>1, <2>3, CheckAgainWrites DEF Phases, TypeOK
  <2> QED
    BY <2>1, <2>2, <2>3 DEF Answered
<1>3. alive' = [alive EXCEPT ![t] = 0] /\ UNCHANGED <<run, nextRun, passed, faults>>
  BY DEF Answered
<1>4. TypeOK'
  BY <1>1, <1>2, <1>3 DEF TypeOK, Written
<1>5. FinitelyMany'
  BY <1>2, OneMoreIsFinite DEF Written
<1>6. alive'[t] = 0 /\ \A u \in Transactions \ {t} : alive'[u] = alive[u]
  BY <1>3 DEF TypeOK
<1>7. TimeLeft'
  BY <1>2, <1>6, WrittenKeepsTimeLeft
<1>8. \A u \in Transactions : alive[u] = 0 => alive'[u] = 0
  BY <1>6
<1>9. RunInv'
  BY <1>2, <1>3, <1>8, WrittenKeepsRunInv
<1> QED
  BY <1>4, <1>5, <1>7, <1>9

\* What the three ways of handling the payment in hand have in common.
LEMMA HandledKeeps ==
  ASSUME Inv, run.claimed # <<>>, Written(Current),
         NEW r \in 0 .. ReadLimit, Done(r),
         UNCHANGED <<known, alive, nextRun>>,
         passed' \in [Transactions -> 0 .. MaxPassed + 1],
         faults' \in 0 .. MaxFaults
  PROVE  Inv'
<1> USE DEF Inv
<1>1. Current \in Transactions /\ phase[Current] # "ABSENT" /\ alive[Current] = 0
  BY CurrentFacts
<1>2. /\ run' \in [at : {"idle", "process"}, claimed : Seq(Transactions),
                   reads : 0 .. ReadLimit, age : 0 .. WorkerTimeout]
      /\ \A i \in DOMAIN run'.claimed :
           \E j \in DOMAIN run.claimed : run'.claimed[i] = run.claimed[j]
  BY DoneFacts
<1>3. TypeOK'
  BY <1>2 DEF TypeOK, Written
<1>4. PICK t \in Transactions : t = Current
  BY <1>1
<1>5. Written(t) /\ alive'[t] = 0
  BY <1>1, <1>4
<1>6. FinitelyMany'
  BY <1>5, OneMoreIsFinite DEF Written
<1>7. TimeLeft'
  BY <1>5, WrittenKeepsTimeLeft
<1>8. RunInv'
  BY <1>2, <1>5, WrittenKeepsRunInv
<1> QED
  BY <1>3, <1>6, <1>7, <1>8

\* A payment without a provider id is resolved.
LEMMA UnreadableKeeps ==
  ASSUME Inv, Unreadable
  PROVE  Inv'
<1> USE DEF Inv
<1>1. Current \in Transactions
  BY CurrentFacts DEF Unreadable
<1>2. CountUp(attempts[Current]) \in 0 .. MaxAttempts
  BY <1>1, CountUpIsAttempt DEF TypeOK
<1>3. Written(Current)
  <2>1. CASE SettleRow(Current)
    BY <1>1, <2>1, SettleRowWrites
  <2>2. CASE CheckAgain(Current, "UNKNOWN", CountUp(attempts[Current]))
    BY <1>1, <1>2, <2>2, CheckAgainWrites DEF Phases
  <2> QED
    BY <2>1, <2>2 DEF Unreadable, Resolve
<1>4. run.reads \in 0 .. ReadLimit
  BY DEF TypeOK
<1> QED
  BY <1>3, <1>4, HandledKeeps DEF Unreadable, TypeOK

\* A payment is passed over: nothing is written.
LEMMA OverQuotaKeeps ==
  ASSUME Inv, OverQuota
  PROVE  Inv'
<1> USE DEF Inv
<1>1. Current \in Transactions /\ phase[Current] # "ABSENT"
  BY CurrentFacts DEF OverQuota
<1>2. UNCHANGED <<phase, attempts, due, leased>>
  BY DEF OverQuota, PassOver
<1>3. Written(Current)
  BY <1>1, <1>2 DEF TypeOK, Written
<1>4. run.reads \in 0 .. ReadLimit
  BY DEF TypeOK
<1>5. passed' \in [Transactions -> 0 .. MaxPassed + 1]
  <2>1. MaxPassed \in Nat /\ passed[Current] \in 0 .. MaxPassed + 1
    BY <1>1, TimesAssumption DEF TypeOK
  <2>2. (IF passed[Current] > MaxPassed THEN passed[Current]
         ELSE passed[Current] + 1) \in 0 .. MaxPassed + 1
    BY <2>1
  <2> QED
    BY <1>1, <2>2 DEF OverQuota, TypeOK
<1> QED
  BY <1>3, <1>4, <1>5, HandledKeeps DEF OverQuota, TypeOK

\* A payment is read at the provider.
LEMMA ReadKeeps ==
  ASSUME Inv, Read
  PROVE  Inv'
<1> USE DEF Inv
<1>1. Current \in Transactions
  BY CurrentFacts DEF Read
<1>2. CountUp(attempts[Current]) \in 0 .. MaxAttempts
  BY <1>1, CountUpIsAttempt DEF TypeOK
<1>3. Written(Current)
  <2>1. CASE SettleRow(Current)
    BY <1>1, <2>1, SettleRowWrites
  <2>2. CASE CheckAgain(Current, "ACKNOWLEDGED", CountUp(attempts[Current]))
    BY <1>1, <1>2, <2>2, CheckAgainWrites DEF Phases
  <2>3. CASE CheckAgain(Current, "UNKNOWN", CountUp(attempts[Current]))
    BY <1>1, <1>2, <2>3, CheckAgainWrites DEF Phases
  <2> QED
    BY <2>1, <2>2, <2>3 DEF Read
<1>4. ReadLimit \in Nat /\ MaxPassed \in Nat /\ MaxFaults \in Nat
  BY TimesAssumption
<1>5. run.reads + 1 \in 0 .. ReadLimit
  BY <1>4 DEF Read, TypeOK
<1>6. passed' \in [Transactions -> 0 .. MaxPassed + 1]
  BY <1>1, <1>4 DEF Read, TypeOK
<1>7. faults' \in 0 .. MaxFaults
  BY <1>4 DEF Read, TypeOK
<1> QED
  BY <1>3, <1>5, <1>6, <1>7, HandledKeeps DEF Read

\* A batch is taken: only payments whose wait is over, and so whose invocations
\* are over as well.
LEMMA StartRunKeeps ==
  ASSUME Inv, StartRun
  PROVE  Inv'
<1> USE DEF Inv
<1> DEFINE taken == {t \in Batch : Claimable(t)}
<1>1. Lease \in Nat /\ Period \in Nat /\ ReadLimit \in Nat /\ WorkerTimeout \in Nat
  BY TimesAssumption
<1>2. taken \subseteq Due /\ Due \subseteq Accepted /\ Due \subseteq Transactions
  BY DEF Batch, Due, Pending, Accepted
<1>3. IsFiniteSet(taken)
  BY <1>2, FS_Subset DEF FinitelyMany
<1>4. InOrder(taken) \in Seq(taken)
  BY <1>2, <1>3, InOrderLists DEF TypeOK
<1>5. \A t \in taken : t \in Transactions /\ phase[t] # "ABSENT" /\ alive[t] = 0
  <2> SUFFICES ASSUME NEW t \in taken
               PROVE  t \in Transactions /\ phase[t] # "ABSENT" /\ alive[t] = 0
    OBVIOUS
  <2>1. t \in Transactions /\ phase[t] # "ABSENT" /\ due[t] <= 0
    BY <1>2 DEF Due, Pending
  <2>2. alive[t] \in Nat /\ due[t] \in Int
    BY <2>1, TimesAssumption DEF TypeOK
  <2>3. ~(alive[t] > 0)
    BY <2>1, <2>2 DEF TimeLeft
  <2> QED
    BY <2>1, <2>2, <2>3
<1>6. /\ due' = [t \in Transactions |-> IF t \in taken THEN Lease ELSE due[t]]
      /\ leased' = [t \in Transactions |-> t \in taken \/ leased[t]]
      /\ phase' = [t \in Transactions |->
           IF t \in taken /\ phase[t] = "NOT_SENT" THEN "NOT_SENT_FAILED" ELSE phase[t]]
      /\ run' = [Idle EXCEPT !.at = "process", !.claimed = InOrder(taken)]
      /\ nextRun' = Period
      /\ UNCHANGED <<known, attempts, alive, passed, faults>>
  BY DEF StartRun
<1> HIDE DEF taken
<1>7. InOrder(taken) \in Seq(Transactions)
      /\ \A i \in DOMAIN InOrder(taken) : InOrder(taken)[i] \in taken
  <2>1. taken \subseteq Transactions
    BY <1>5
  <2>2. PICK s \in Seq(taken) : s = InOrder(taken)
    BY <1>4
  <2>3. s \in Seq(Transactions) /\ \A i \in DOMAIN s : s[i] \in taken
    BY <2>1
  <2>4. InOrder(taken) \in Seq(Transactions)
    BY <2>2, <2>3
  <2>5. \A i \in DOMAIN InOrder(taken) : InOrder(taken)[i] \in taken
    BY <2>2, <2>3
  <2> QED
    BY <2>4, <2>5
<1>8. run'.claimed = InOrder(taken)
  BY <1>6 DEF Idle
<1>9. run' \in [at : {"idle", "process"}, claimed : Seq(Transactions),
                reads : 0 .. ReadLimit, age : 0 .. WorkerTimeout]
  <2>1. PICK s \in Seq(Transactions) : s = InOrder(taken)
    BY <1>7
  <2>2. run' = [Idle EXCEPT !.at = "process", !.claimed = s]
    BY <1>6, <2>1
  <2>3. run' = [at |-> "process", claimed |-> s, reads |-> 0, age |-> 0]
    BY <2>2 DEF Idle
  <2> QED
    BY <1>1, <2>3
<1>10. TypeOK'
  <2>1. due' \in [Transactions -> Int]
    BY <1>1, <1>6 DEF TypeOK
  <2>2. leased' \in [Transactions -> BOOLEAN]
    BY <1>6 DEF TypeOK
  <2>3. phase' \in [Transactions -> Phases]
    BY <1>6 DEF TypeOK, Phases
  <2> QED
    BY <1>1, <1>6, <1>9, <2>1, <2>2, <2>3 DEF TypeOK
<1>11. Accepted' = Accepted
  BY <1>6 DEF Accepted
<1>12. FinitelyMany'
  BY <1>11 DEF FinitelyMany
<1>13. TimeLeft'
  <2> SUFFICES ASSUME NEW t \in Transactions, alive'[t] > 0
               PROVE  phase'[t] \in {"NOT_SENT", "SENDING"} /\ alive'[t] <= due'[t]
    BY DEF TimeLeft
  <2>1. t \notin taken /\ alive[t] > 0
    BY <1>5, <1>6
  <2> QED
    BY <1>6, <2>1 DEF TimeLeft
<1>14. RunInv'
  <2> SUFFICES ASSUME NEW i \in DOMAIN InOrder(taken)
               PROVE  phase'[InOrder(taken)[i]] # "ABSENT" /\ alive'[InOrder(taken)[i]] = 0
    BY <1>8 DEF RunInv
  <2>1. InOrder(taken)[i] \in taken
    BY <1>7
  <2> QED
    BY <1>5, <1>6, <2>1
<1> QED
  BY <1>10, <1>12, <1>13, <1>14

\* A run ends, fails, or is missed: no row is written.
LEMMA RunOverKeeps ==
  ASSUME Inv, RunEnds \/ RunFails \/ RunMissed
  PROVE  Inv'
<1> USE DEF Inv
<1>1. /\ Period \in Nat /\ ReadLimit \in Nat /\ WorkerTimeout \in Nat /\ MaxFaults \in Nat
  BY TimesAssumption
<1>2. UNCHANGED <<rows, alive, passed>> /\ (run' = run \/ run' = Idle)
  BY DEF RunEnds, RunFails, RunMissed, rows
<1>3. faults' \in 0 .. MaxFaults /\ nextRun' \in 0 .. Period
  BY <1>1 DEF RunEnds, RunFails, RunMissed, TypeOK
<1>4. Idle \in [at : {"idle", "process"}, claimed : Seq(Transactions),
                reads : 0 .. ReadLimit, age : 0 .. WorkerTimeout]
      /\ Idle.claimed = <<>>
  BY <1>1 DEF Idle
<1>5. TypeOK'
  BY <1>2, <1>3, <1>4 DEF TypeOK, rows
<1>6. FinitelyMany' /\ TimeLeft' /\ RunInv'
  BY <1>2, <1>4, RowsKept DEF rows
<1> QED
  BY <1>5, <1>6

\* Time takes from what an invocation has left and from what its payment waits.
LEMMA TimePassesKeeps ==
  ASSUME Inv, TimePasses
  PROVE  Inv'
<1> USE DEF Inv
<1>1. /\ Period \in Nat /\ ReadLimit \in Nat /\ WorkerTimeout \in Nat
      /\ ApiTimeout \in Nat /\ MaxOverdue \in Nat
  BY TimesAssumption
<1>2. UNCHANGED <<phase, known, leased, attempts, passed, faults>>
  BY DEF TimePasses
<1>3. alive' \in [Transactions -> 0 .. ApiTimeout]
  BY <1>1 DEF TimePasses, TypeOK
<1>4. due' \in [Transactions -> Int]
  BY <1>1 DEF TimePasses, TypeOK
<1>5. nextRun' \in 0 .. Period
  BY <1>1 DEF TimePasses, TypeOK
<1>6. run' \in [at : {"idle", "process"}, claimed : Seq(Transactions),
                reads : 0 .. ReadLimit, age : 0 .. WorkerTimeout]
      /\ run'.claimed = run.claimed
  <2>1. CASE run.at = "idle"
    BY <2>1 DEF TimePasses, TypeOK
  <2>2. CASE run.at # "idle"
    <3>1. run.age + 1 \in 0 .. WorkerTimeout
      BY <1>1, <2>2 DEF TimePasses, TypeOK
    <3>2. run' = [run EXCEPT !.age = run.age + 1]
      BY <2>2 DEF TimePasses
    <3> QED
      BY <3>1, <3>2 DEF TypeOK
  <2> QED
    BY <2>1, <2>2
<1>7. TypeOK'
  BY <1>2, <1>3, <1>4, <1>5, <1>6 DEF TypeOK
<1>8. FinitelyMany'
  BY <1>2 DEF FinitelyMany, Accepted
<1>9. TimeLeft'
  <2> SUFFICES ASSUME NEW t \in Transactions, alive'[t] > 0
               PROVE  phase'[t] \in {"NOT_SENT", "SENDING"} /\ alive'[t] <= due'[t]
    BY DEF TimeLeft
  <2>1. alive[t] \in Nat /\ due[t] \in Int
    BY <1>1 DEF TypeOK
  <2>2. alive[t] > 0 /\ alive'[t] = alive[t] - 1
    BY <2>1 DEF TimePasses
  <2>3. phase[t] \in {"NOT_SENT", "SENDING"} /\ alive[t] <= due[t]
    BY <2>2 DEF TimeLeft
  <2>4. due'[t] = due[t] - 1
    BY <1>1, <2>1, <2>2, <2>3 DEF TimePasses, Pending
  <2> QED
    BY <1>2, <2>1, <2>2, <2>3, <2>4
<1>10. \A t \in Transactions : alive[t] = 0 => alive'[t] = 0
  BY DEF TimePasses
<1>11. RunInv'
  <2> SUFFICES ASSUME NEW i \in DOMAIN run.claimed
               PROVE  phase[run.claimed[i]] # "ABSENT" /\ alive'[run.claimed[i]] = 0
    BY <1>2, <1>6 DEF RunInv
  <2>1. run.claimed[i] \in Transactions
    BY DEF TypeOK
  <2> QED
    BY <1>10, <2>1 DEF RunInv
<1> QED
  BY <1>7, <1>8, <1>9, <1>11

\* One step of the system.
LEMMA StepKeeps == Inv /\ [Next]_vars => Inv'
<1> SUFFICES ASSUME Inv, [Next]_vars PROVE Inv'
  OBVIOUS
<1>1. CASE \E t \in Transactions : Accept(t) \/ ClaimDispatch(t) \/ Answered(t)
  BY <1>1, AcceptKeeps, ClaimDispatchKeeps, AnsweredKeeps
<1>2. CASE StartRun
  BY <1>2, StartRunKeeps
<1>3. CASE WorkerNext
  BY <1>3, UnreadableKeeps, OverQuotaKeeps, ReadKeeps, RunOverKeeps DEF WorkerNext
<1>4. CASE RunFails \/ RunMissed
  BY <1>4, RunOverKeeps
<1>5. CASE TimePasses
  BY <1>5, TimePassesKeeps
<1>6. CASE UNCHANGED vars
  BY <1>6 DEF vars, Inv, TypeOK, FinitelyMany, Accepted, TimeLeft, RunInv
<1> QED
  BY <1>1, <1>2, <1>3, <1>4, <1>5, <1>6 DEF Next

-----------------------------------------------------------------------------
(* Turns: for how many payments the read quota is shared.                  *)

\* Where the payments the last run took stand: what their lease has left.
Turn == Lease - Period + nextRun

Waiting == {t \in Transactions : known[t] /\ Pending(t)}

\* The payments that come no later than those of the last run.
Eligible == {t \in Waiting : due[t] <= Turn}

Held == {run.claimed[i] : i \in DOMAIN run.claimed}

\* What the run still reads before it comes to t.
AheadOf(t) ==
  {u \in Accepted : known[u] /\ \E i, j \in DOMAIN run.claimed :
                      i < j /\ run.claimed[i] = u /\ run.claimed[j] = t}

\* A provider id comes with an answer, which ends the dispatch.
KnownInv ==
  \A t \in Transactions : known[t] => phase[t] \in {"ACKNOWLEDGED", "UNKNOWN", "SETTLED"}

\* A run holds a payment once, pending, under the lease it began with.
HeldInv ==
  /\ run.at = "idle" => run.claimed = <<>>
  /\ \A i \in DOMAIN run.claimed : Pending(run.claimed[i]) /\ due[run.claimed[i]] = Turn
  /\ \A i, j \in DOMAIN run.claimed : run.claimed[i] = run.claimed[j] => i = j

\* What is left of two quotas is enough for who may come before the next batch.
QuotaInv == run.at = "process" => Cardinality(Eligible) + run.reads <= 2 * ReadLimit

\* A payment that was passed over once more than there were failures is read next:
\* by the run that holds it, or by the next one, in which its lease is among the
\* earliest.
OwedInv ==
  \A t \in Transactions :
    /\ passed[t] <= faults + 1
    /\ passed[t] = faults + 1 =>
         /\ t \in Waiting
         /\ t \in Held => run.reads + Cardinality(AheadOf(t)) < ReadLimit
         /\ t \notin Held => due[t] = Turn /\ Cardinality(Eligible) <= ReadLimit

TurnInv == KnownInv /\ HeldInv /\ QuotaInv /\ OwedInv

\* As many payments with a provider id as two runs may read, and no more payments
\* than a batch takes.
FewWaiting ==
  /\ Cardinality(Waiting) <= 2 * ReadLimit
  /\ Cardinality({t \in Transactions : Pending(t)}) <= BatchSize

\* Parts of a finite set are counted, and a proper part has fewer members.
LEMMA Parts ==
  ASSUME NEW S, IsFiniteSet(S), NEW T \in SUBSET S
  PROVE  /\ IsFiniteSet(T)
         /\ Cardinality(T) \in Nat /\ Cardinality(S) \in Nat
         /\ Cardinality(T) <= Cardinality(S)
         /\ S # T => Cardinality(T) < Cardinality(S)
<1>1. IsFiniteSet(T) /\ Cardinality(T) <= Cardinality(S)
      /\ (Cardinality(S) = Cardinality(T) => S = T)
  BY FS_Subset
<1>2. Cardinality(T) \in Nat /\ Cardinality(S) \in Nat
  BY <1>1, FS_CardinalityType
<1> QED
  BY <1>1, <1>2

\* What is counted can be counted.
LEMMA Counted ==
  ASSUME FinitelyMany
  PROVE  /\ IsFiniteSet(Waiting) /\ IsFiniteSet(Eligible)
         /\ \A t : IsFiniteSet(AheadOf(t))
<1>1. Waiting \subseteq Accepted /\ Eligible \subseteq Accepted
  BY DEF Waiting, Eligible, Accepted, Pending
<1>2. \A t : AheadOf(t) \subseteq Accepted
  BY DEF AheadOf
<1> QED
  BY <1>1, <1>2, FS_Subset DEF FinitelyMany

\* The times are numbers, and Turn is never later than a lease taken now.
LEMMA TurnIsTime ==
  ASSUME TypeOK
  PROVE  /\ Lease \in Nat /\ Period \in Nat /\ nextRun \in Nat /\ ReadLimit \in Nat
         /\ Turn \in Int /\ Turn <= Lease /\ Lease < Period
<1>1. Lease \in Nat /\ Period \in Nat /\ ReadLimit \in Nat /\ Lease < Period
  BY TimesAssumption, TurnsAssumption
<1> QED
  BY <1>1 DEF TypeOK, Turn

\* An invocation writes a payment that has no provider id yet and that no run
\* holds: nobody comes before anybody who did not before.
LEMMA InvocationKeepsTurns ==
  ASSUME Inv, Inv', TurnInv, NEW t \in Transactions,
         Written(t), t \notin Held, ~known[t], t \notin Eligible',
         known'[t] => phase'[t] \in {"ACKNOWLEDGED", "UNKNOWN", "SETTLED"},
         \A u \in Transactions \ {t} : known'[u] = known[u],
         UNCHANGED <<run, nextRun, passed, faults>>
  PROVE  TurnInv'
<1> USE DEF Inv, TurnInv
<1>1. \A u \in Transactions \ {t} :
        phase'[u] = phase[u] /\ due'[u] = due[u] /\ known'[u] = known[u]
  BY DEF Written
<1>2. Turn' = Turn /\ Held' = Held
  BY DEF Turn, Held
<1>3. \A i \in DOMAIN run.claimed : run.claimed[i] \in Transactions \ {t}
  BY DEF TypeOK, Held
<1>4. KnownInv'
  BY <1>1 DEF KnownInv
<1>5. HeldInv'
  BY <1>1, <1>2, <1>3 DEF HeldInv, Pending
<1>6. Eligible' \subseteq Eligible
  BY <1>1, <1>2 DEF Eligible, Waiting, Pending
<1>7. /\ Cardinality(Eligible') \in Nat /\ Cardinality(Eligible) \in Nat
      /\ Cardinality(Eligible') <= Cardinality(Eligible)
  BY <1>6, Counted, Parts
<1>8. QuotaInv'
  <2>1. run.reads \in Int /\ ReadLimit \in Int
    BY TimesAssumption DEF TypeOK
  <2> QED
    BY <1>7, <2>1 DEF QuotaInv
<1>9. ASSUME NEW u \in Transactions
      PROVE  AheadOf(u)' \subseteq AheadOf(u)
  <2> SUFFICES ASSUME NEW v \in AheadOf(u)'
               PROVE  v \in AheadOf(u)
    OBVIOUS
  <2>1. PICK i \in DOMAIN run.claimed, j \in DOMAIN run.claimed :
          i < j /\ run.claimed[i] = v /\ run.claimed[j] = u
    BY DEF AheadOf
  <2>2. v \in Transactions \ {t} /\ v \in Accepted' /\ known'[v]
    BY <1>3, <2>1 DEF AheadOf
  <2>3. v \in Accepted /\ known[v]
    BY <1>1, <2>2 DEF Accepted
  <2> QED
    BY <2>1, <2>3 DEF AheadOf
<1>10. OwedInv'
  <2> SUFFICES ASSUME NEW u \in Transactions
               PROVE  /\ passed[u] <= faults + 1
                      /\ passed[u] = faults + 1 =>
                           /\ u \in Waiting'
                           /\ u \in Held => run.reads + Cardinality(AheadOf(u)') < ReadLimit
                           /\ u \notin Held => /\ due'[u] = Turn
                                               /\ Cardinality(Eligible') <= ReadLimit
    BY <1>2 DEF OwedInv
  <2>1. passed[u] <= faults + 1
    BY DEF OwedInv
  <2>2. ASSUME passed[u] = faults + 1
        PROVE  /\ u \in Waiting'
               /\ u \in Held => run.reads + Cardinality(AheadOf(u)') < ReadLimit
               /\ u \notin Held => due'[u] = Turn /\ Cardinality(Eligible') <= ReadLimit
    <3>1. u \in Waiting /\ u # t
      BY <2>2 DEF OwedInv, Waiting
    <3>2. u \in Waiting' /\ due'[u] = due[u]
      BY <1>1, <3>1 DEF Waiting, Pending
    <3>3. /\ Cardinality(AheadOf(u)') \in Nat /\ Cardinality(AheadOf(u)) \in Nat
          /\ Cardinality(AheadOf(u)') <= Cardinality(AheadOf(u))
      BY <1>9, Counted, Parts
    <3>4. run.reads \in Int /\ ReadLimit \in Int
      BY TimesAssumption DEF TypeOK
    <3>5. /\ u \in Held => run.reads + Cardinality(AheadOf(u)) < ReadLimit
          /\ u \notin Held => due[u] = Turn /\ Cardinality(Eligible) <= ReadLimit
      BY <2>2 DEF OwedInv
    <3>6. u \in Held => run.reads + Cardinality(AheadOf(u)') < ReadLimit
      BY <3>3, <3>4, <3>5
    <3>7. u \notin Held => due'[u] = Turn /\ Cardinality(Eligible') <= ReadLimit
      BY <1>7, <3>2, <3>4, <3>5
    <3> QED
      BY <3>2, <3>6, <3>7
  <2> QED
    BY <2>1, <2>2
<1> QED
  BY <1>4, <1>5, <1>8, <1>10

\* A payment is accepted, its dispatch claimed, or its answer written.
LEMMA InvocationsKeepTurns ==
  ASSUME Inv, Inv', TurnInv, NEW t \in Transactions,
         Accept(t) \/ ClaimDispatch(t) \/ Answered(t)
  PROVE  TurnInv'
<1> USE DEF Inv, TurnInv
<1>1. t \notin Held
  <2>1. phase[t] = "ABSENT" \/ alive[t] > 0
    BY DEF Accept, ClaimDispatch, Answered
  <2>2. \A i \in DOMAIN run.claimed : run.claimed[i] # t
    BY <2>1 DEF RunInv
  <2> QED
    BY <2>2 DEF Held
<1>2. ~known[t]
  BY DEF Accept, ClaimDispatch, Answered, KnownInv
<1>3. UNCHANGED <<run, nextRun, passed, faults>>
  BY DEF Accept, ClaimDispatch, Answered
<1>4. CASE Accept(t) \/ ClaimDispatch(t)
  <2>1. known' = known
    BY <1>4 DEF Accept, ClaimDispatch
  <2>2. Written(t)
    <3>1. /\ phase' \in [Transactions -> Phases] /\ due' \in [Transactions -> Int]
          /\ leased' \in [Transactions -> BOOLEAN]
          /\ attempts' \in [Transactions -> 0 .. MaxAttempts]
      BY DEF TypeOK
    <3>2. /\ phase'[t] # "ABSENT"
          /\ \A u \in Transactions \ {t} : phase'[u] = phase[u] /\ due'[u] = due[u]
      BY <1>4 DEF Accept, AcceptedDue, ClaimDispatch, Wait, TypeOK
    <3> QED
      BY <3>1, <3>2 DEF Written
  <2>3. t \notin Eligible'
    BY <1>2, <2>1 DEF Eligible, Waiting
  <2> QED
    BY <1>1, <1>2, <1>3, <2>1, <2>2, <2>3, InvocationKeepsTurns
<1>5. CASE Answered(t)
  <2>1. PICK d \in Int : \/ /\ CheckAgain(t, "ACKNOWLEDGED", 0)
                            /\ known' = [known EXCEPT ![t] = TRUE]
                            /\ due' = [due EXCEPT ![t] = d] /\ d > Lease
                         \/ SettleRow(t) /\ UNCHANGED known
                         \/ CheckAgain(t, "UNKNOWN", 0) /\ UNCHANGED known
    <3>1. 0 \in 0 .. MaxAttempts
      BY TimesAssumption DEF MaxAttempts
    <3>2. CASE CheckAgain(t, "ACKNOWLEDGED", 0) /\ known' = [known EXCEPT ![t] = TRUE]
      <4>1. PICK d \in Backoff(0) : Wait(t, d, FALSE)
        BY <3>2 DEF CheckAgain
      <4>2. d \in Int /\ d > Lease
        BY <3>1, BackoffIsTime, TurnsAssumption
      <4> QED
        BY <3>2, <4>1, <4>2 DEF Wait
    <3> QED
      BY <1>5, <3>2 DEF Answered
  <2>2. Written(t)
    <3>1. 0 \in 0 .. MaxAttempts
      BY TimesAssumption DEF MaxAttempts
    <3> QED
      BY <2>1, <3>1, CheckAgainWrites, SettleRowWrites DEF Phases
  <2>3. t \notin Eligible'
    <3>1. CASE CheckAgain(t, "ACKNOWLEDGED", 0) /\ due' = [due EXCEPT ![t] = d] /\ d > Lease
      <4>1. due'[t] = d
        BY <3>1 DEF TypeOK
      <4>2. Turn' \in Int /\ Turn' <= Lease
        BY <1>3, TurnIsTime DEF Turn
      <4>3. Lease \in Int
        BY TimesAssumption
      <4>4. ~(d <= Turn')
        BY <3>1, <4>2, <4>3
      <4> QED
        BY <4>1, <4>4 DEF Eligible
    <3>2. CASE UNCHANGED known
      BY <1>2, <3>2 DEF Eligible, Waiting
    <3> QED
      BY <2>1, <3>1, <3>2
  <2>4. known'[t] => phase'[t] \in {"ACKNOWLEDGED", "UNKNOWN", "SETTLED"}
    BY <1>2, <2>1 DEF CheckAgain, TypeOK
  <2>5. \A u \in Transactions \ {t} : known'[u] = known[u]
    BY <2>1 DEF TypeOK
  <2> QED
    BY <1>1, <1>2, <1>3, <2>2, <2>3, <2>4, <2>5, InvocationKeepsTurns
<1> QED
  BY <1>4, <1>5

\* What a run holds once it has gone on to the next payment.
LEMMA RestFacts ==
  ASSUME Inv, TurnInv, run.claimed # <<>>, Done(run'.reads), known' = known,
         FinitelyMany', phase'[Current] # "ABSENT",
         \A u \in Transactions \ {Current} : phase'[u] = phase[u]
  PROVE  /\ Current \in Held /\ Pending(Current) /\ due[Current] = Turn
         /\ \A i, j \in DOMAIN run'.claimed : run'.claimed[i] = run'.claimed[j] => i = j
         /\ Held' = Held \ {Current}
         /\ run'.at = run.at
         /\ \A u \in Transactions :
              /\ Cardinality(AheadOf(u)') \in Nat /\ Cardinality(AheadOf(u)) \in Nat
              /\ Cardinality(AheadOf(u)') <= Cardinality(AheadOf(u))
              /\ u \in Held' /\ known[Current] =>
                   Cardinality(AheadOf(u)') < Cardinality(AheadOf(u))
<1> USE DEF Inv, TurnInv
<1> DEFINE all == run.claimed
           rest == Tail(run.claimed)
<1>1. all \in Seq(Transactions) /\ all # <<>>
  BY DEF TypeOK
<1>2. /\ rest \in Seq(Transactions)
      /\ DOMAIN all = 1 .. Len(all) /\ DOMAIN rest = 1 .. Len(all) - 1 /\ Len(all) \in Nat \ {0}
      /\ \A i \in DOMAIN rest : i + 1 \in DOMAIN all /\ rest[i] = all[i + 1]
      /\ Current = all[1]
  BY <1>1 DEF Current
<1>3. run' = [run EXCEPT !.claimed = rest, !.reads = run'.reads]
  BY DEF Done
<1>4. \A i, j \in DOMAIN all : all[i] = all[j] => i = j
  BY DEF HeldInv
<1>5. \A i \in DOMAIN all : Pending(all[i]) /\ due[all[i]] = Turn
  BY DEF HeldInv
<1>6. \A i \in DOMAIN all : i = 1 \/ (i - 1 \in DOMAIN rest /\ rest[i - 1] = all[i])
  BY <1>2
<1> HIDE DEF rest
<1>7. run'.claimed = rest /\ run'.at = run.at
  BY <1>3 DEF TypeOK
<1>8. Held = {all[i] : i \in DOMAIN all} /\ Held' = {rest[i] : i \in DOMAIN rest}
  BY <1>7 DEF Held
<1>9. Current \in Transactions
  BY CurrentFacts
<1> HIDE DEF all
<1>10. \A i, j \in DOMAIN rest : rest[i] = rest[j] => i = j
  <2> SUFFICES ASSUME NEW i \in DOMAIN rest, NEW j \in DOMAIN rest, rest[i] = rest[j]
               PROVE  i = j
    OBVIOUS
  <2>1. i + 1 \in DOMAIN all /\ j + 1 \in DOMAIN all /\ all[i + 1] = all[j + 1]
    BY <1>2
  <2>2. i + 1 = j + 1
    BY <1>4, <2>1
  <2> QED
    BY <1>2, <2>2
<1>11. 1 \in DOMAIN all
  BY <1>2
<1>12. Held' = Held \ {Current}
  <2>1. ASSUME NEW u \in Held'
        PROVE  u \in Held \ {Current}
    <3>1. PICK i \in DOMAIN rest : u = rest[i]
      BY <1>8
    <3>2. i + 1 \in DOMAIN all /\ u = all[i + 1] /\ i + 1 # 1
      BY <1>2, <3>1
    <3>3. u # all[1]
      BY <1>4, <1>11, <3>2
    <3> QED
      BY <1>2, <1>8, <3>2, <3>3
  <2>2. ASSUME NEW u \in Held \ {Current}
        PROVE  u \in Held'
    <3>1. PICK i \in DOMAIN all : u = all[i]
      BY <1>8
    <3>2. i # 1
      BY <1>2, <3>1
    <3> QED
      BY <1>6, <1>8, <3>1, <3>2
  <2> QED
    BY <2>1, <2>2
<1>13. Accepted' = Accepted
  <2>1. phase[Current] # "ABSENT"
    BY CurrentFacts
  <2> QED
    BY <1>9, <2>1 DEF Accepted
<1>14. ASSUME NEW u \in Transactions
       PROVE  /\ Cardinality(AheadOf(u)') \in Nat /\ Cardinality(AheadOf(u)) \in Nat
              /\ Cardinality(AheadOf(u)') <= Cardinality(AheadOf(u))
              /\ u \in Held' /\ known[Current] =>
                   Cardinality(AheadOf(u)') < Cardinality(AheadOf(u))
  <2>1. AheadOf(u) = {v \in Accepted : known[v] /\ \E i, j \in DOMAIN all :
                        i < j /\ all[i] = v /\ all[j] = u}
    BY DEF AheadOf, all
  <2>2. AheadOf(u)' = {v \in Accepted : known[v] /\ \E i, j \in DOMAIN rest :
                         i < j /\ rest[i] = v /\ rest[j] = u}
    BY <1>7, <1>13 DEF AheadOf
  <2>3. ASSUME NEW v \in AheadOf(u)'
        PROVE  v \in AheadOf(u) /\ v # Current
    <3>1. PICK i \in DOMAIN rest, j \in DOMAIN rest :
            i < j /\ rest[i] = v /\ rest[j] = u
      BY <2>2
    <3>2. /\ i + 1 \in DOMAIN all /\ j + 1 \in DOMAIN all /\ i + 1 < j + 1
          /\ all[i + 1] = v /\ all[j + 1] = u /\ i + 1 # 1
      BY <1>2, <3>1
    <3>3. v \in AheadOf(u)
      BY <2>1, <2>2, <3>2
    <3>4. v # all[1]
      BY <1>4, <1>11, <3>2
    <3> QED
      BY <1>2, <3>3, <3>4
  <2>4. u \in Held' /\ known[Current] => Current \in AheadOf(u)
    <3> SUFFICES ASSUME u \in Held', known[Current]
                 PROVE  Current \in AheadOf(u)
      OBVIOUS
    <3>1. PICK j \in DOMAIN rest : u = rest[j]
      BY <1>8
    <3>2. j + 1 \in DOMAIN all /\ all[j + 1] = u /\ 1 < j + 1
      BY <1>2, <3>1
    <3>3. Current \in Accepted
      BY CurrentFacts DEF Accepted
    <3> QED
      BY <1>2, <1>11, <2>1, <3>2, <3>3
  <2>5. AheadOf(u)' \in SUBSET AheadOf(u) /\ IsFiniteSet(AheadOf(u))
    BY <2>3, Counted
  <2> QED
    BY <2>3, <2>4, <2>5, Parts
<1> QED
  BY <1>2, <1>5, <1>7, <1>8, <1>10, <1>11, <1>12, <1>14

\* The payment in hand is resolved, passed over or read: what the three have in
\* common is that nobody else is written.
LEMMA HandlingKeepsHeld ==
  ASSUME Inv, Inv', TurnInv, run.claimed # <<>>, Done(run'.reads), known' = known,
         nextRun' = nextRun, Written(Current),
         known[Current] => phase'[Current] \in {"ACKNOWLEDGED", "UNKNOWN", "SETTLED"}
  PROVE  KnownInv' /\ HeldInv'
<1> USE DEF Inv, TurnInv
<1>1. /\ \A i, j \in DOMAIN run'.claimed : run'.claimed[i] = run'.claimed[j] => i = j
      /\ Held' = Held \ {Current} /\ run'.at = run.at
  BY RestFacts DEF Written
<1>2. \A u \in Transactions \ {Current} : phase'[u] = phase[u] /\ due'[u] = due[u]
  BY DEF Written
<1>3. Turn' = Turn
  BY DEF Turn
<1>4. KnownInv'
  BY <1>2 DEF KnownInv
<1>5. run.at # "idle"
  BY DEF HeldInv
<1>6. ASSUME NEW i \in DOMAIN run'.claimed
      PROVE  /\ phase'[run'.claimed[i]] \notin {"ABSENT", "SETTLED"}
             /\ due'[run'.claimed[i]] = Turn'
  <2>1. run'.claimed[i] \in Held'
    BY DEF Held
  <2>2. PICK j \in DOMAIN run.claimed : run'.claimed[i] = run.claimed[j]
    BY <1>1, <2>1 DEF Held
  <2> DEFINE u == run.claimed[j]
  <2>3. u \in Transactions \ {Current}
    BY <1>1, <2>1, <2>2 DEF TypeOK
  <2>4. Pending(u) /\ due[u] = Turn
    BY DEF HeldInv
  <2>5. phase'[u] \notin {"ABSENT", "SETTLED"} /\ due'[u] = Turn'
    BY <1>2, <1>3, <2>3, <2>4 DEF Pending
  <2> QED
    BY <2>2, <2>5
<1>7. HeldInv'
  BY <1>1, <1>5, <1>6 DEF HeldInv, Pending
<1> QED
  BY <1>4, <1>7

\* A payment without a provider id does not count.
LEMMA UnreadableKeepsTurns ==
  ASSUME Inv, Inv', TurnInv, Unreadable
  PROVE  TurnInv'
<1> USE DEF Inv, TurnInv
<1>1. /\ run.at = "process" /\ run.claimed # <<>> /\ ~known[Current]
      /\ Done(run.reads) /\ Resolve(Current)
      /\ UNCHANGED <<known, alive, nextRun, passed, faults>>
  BY DEF Unreadable
<1>2. Current \in Transactions
  BY <1>1, CurrentFacts
<1>3. Written(Current)
  <2>1. CountUp(attempts[Current]) \in 0 .. MaxAttempts
    BY <1>2, CountUpIsAttempt DEF TypeOK
  <2>2. CASE SettleRow(Current)
    BY <1>2, <2>2, SettleRowWrites
  <2>3. CASE CheckAgain(Current, "UNKNOWN", CountUp(attempts[Current]))
    BY <1>2, <2>1, <2>3, CheckAgainWrites DEF Phases
  <2> QED
    BY <1>1, <2>2, <2>3 DEF Resolve
<1>4. run'.reads = run.reads
  BY <1>1 DEF Done, TypeOK
<1>5. /\ Held' = Held \ {Current} /\ run'.at = run.at /\ Current \in Held
      /\ \A u \in Transactions :
              /\ Cardinality(AheadOf(u)') \in Nat /\ Cardinality(AheadOf(u)) \in Nat
              /\ Cardinality(AheadOf(u)') <= Cardinality(AheadOf(u))
  BY <1>1, <1>3, <1>4, RestFacts DEF Written
<1>6. KnownInv' /\ HeldInv'
  BY <1>1, <1>3, <1>4, HandlingKeepsHeld
<1>7. \A u \in Transactions \ {Current} : phase'[u] = phase[u] /\ due'[u] = due[u]
  BY <1>3 DEF Written
<1>8. Turn' = Turn
  BY <1>1 DEF Turn
<1>9. Waiting \subseteq Waiting' /\ Eligible' \subseteq Eligible
  BY <1>1, <1>7, <1>8 DEF Waiting, Eligible, Pending
<1>10. /\ Cardinality(Eligible') \in Nat /\ Cardinality(Eligible) \in Nat
       /\ Cardinality(Eligible') <= Cardinality(Eligible)
  BY <1>9, Counted, Parts
<1>11. run.reads \in Int /\ ReadLimit \in Int
  BY TimesAssumption DEF TypeOK
<1>12. QuotaInv'
  BY <1>4, <1>5, <1>10, <1>11 DEF QuotaInv
<1>13. OwedInv'
  <2> SUFFICES ASSUME NEW u \in Transactions
               PROVE  /\ passed[u] <= faults + 1
                      /\ passed[u] = faults + 1 =>
                           /\ u \in Waiting'
                           /\ u \in Held' => run.reads + Cardinality(AheadOf(u)') < ReadLimit
                           /\ u \notin Held' => /\ due'[u] = Turn
                                                /\ Cardinality(Eligible') <= ReadLimit
    BY <1>1, <1>4, <1>8 DEF OwedInv
  <2>1. passed[u] <= faults + 1
    BY DEF OwedInv
  <2>2. ASSUME passed[u] = faults + 1
        PROVE  /\ u \in Waiting'
               /\ u \in Held' => run.reads + Cardinality(AheadOf(u)') < ReadLimit
               /\ u \notin Held' => due'[u] = Turn /\ Cardinality(Eligible') <= ReadLimit
    <3>1. /\ u \in Waiting
          /\ u \in Held => run.reads + Cardinality(AheadOf(u)) < ReadLimit
          /\ u \notin Held => due[u] = Turn /\ Cardinality(Eligible) <= ReadLimit
      BY <2>2 DEF OwedInv
    <3>2. u # Current
      BY <1>1, <3>1 DEF Waiting
    <3>3. u \in Held' => run.reads + Cardinality(AheadOf(u)') < ReadLimit
      BY <1>5, <1>11, <3>1
    <3>4. u \notin Held' => due'[u] = Turn /\ Cardinality(Eligible') <= ReadLimit
      BY <1>5, <1>7, <1>10, <1>11, <3>1, <3>2
    <3> QED
      BY <1>9, <3>1, <3>3, <3>4
  <2> QED
    BY <2>1, <2>2
<1> QED
  BY <1>6, <1>12, <1>13

\* A payment is passed over when the quota is spent; then it may be owed a read,
\* but had not been yet, and few enough come before the next batch.
LEMMA OverQuotaKeepsTurns ==
  ASSUME Inv, Inv', TurnInv, OverQuota
  PROVE  TurnInv'
<1> USE DEF Inv, TurnInv
<1>1. /\ run.at = "process" /\ run.claimed # <<>> /\ known[Current]
      /\ run.reads >= ReadLimit
      /\ UNCHANGED <<phase, attempts, due, leased>>
      /\ Done(run.reads)
      /\ passed' = [passed EXCEPT ![Current] =
                      IF passed[Current] > MaxPassed THEN passed[Current] ELSE passed[Current] + 1]
      /\ UNCHANGED <<known, alive, nextRun, faults>>
  BY DEF OverQuota, PassOver
<1>2. Current \in Transactions /\ phase[Current] # "ABSENT"
  BY <1>1, CurrentFacts
<1>3. Written(Current)
  BY <1>1, <1>2 DEF Written, TypeOK
<1>4. run'.reads = run.reads
  BY <1>1 DEF Done, TypeOK
<1>5. /\ Current \in Held /\ Pending(Current) /\ due[Current] = Turn
      /\ Held' = Held \ {Current} /\ run'.at = run.at
      /\ \A u \in Transactions : Cardinality(AheadOf(u)) \in Nat
  BY <1>1, <1>3, <1>4, RestFacts DEF Written
<1>6. KnownInv' /\ HeldInv'
  <2>1. phase'[Current] \in {"ACKNOWLEDGED", "UNKNOWN", "SETTLED"}
    BY <1>1, <1>2 DEF KnownInv
  <2> QED
    BY <1>1, <1>3, <1>4, <2>1, HandlingKeepsHeld
<1>7. Turn' = Turn /\ Waiting' = Waiting /\ Eligible' = Eligible
  BY <1>1 DEF Turn, Waiting, Eligible, Pending
<1>8. Cardinality(Eligible) \in Nat
  BY Counted, FS_CardinalityType
<1>9. /\ run.reads \in Nat /\ ReadLimit \in Nat /\ faults \in Nat /\ MaxPassed \in Nat
      /\ \A u \in Transactions : passed[u] \in Nat
  BY TimesAssumption DEF TypeOK
<1>10. QuotaInv'
  BY <1>4, <1>5, <1>7 DEF QuotaInv
<1>11. Cardinality(Eligible) <= ReadLimit
  BY <1>1, <1>8, <1>9 DEF QuotaInv
<1>12. \A u \in Held : passed[u] # faults + 1
  <2> SUFFICES ASSUME NEW u \in Held, passed[u] = faults + 1
               PROVE  FALSE
    OBVIOUS
  <2>1. u \in Transactions
    BY DEF Held, TypeOK
  <2>2. run.reads + Cardinality(AheadOf(u)) < ReadLimit
    BY <2>1 DEF OwedInv
  <2> QED
    BY <1>1, <1>5, <1>9, <2>1, <2>2
<1>13. OwedInv'
  <2> SUFFICES ASSUME NEW u \in Transactions
               PROVE  /\ passed'[u] <= faults + 1
                      /\ passed'[u] = faults + 1 =>
                           /\ u \in Waiting
                           /\ u \notin Held'
                           /\ due[u] = Turn
                           /\ Cardinality(Eligible) <= ReadLimit
    BY <1>1, <1>4, <1>7 DEF OwedInv
  <2>1. CASE u = Current
    <3>1. passed[u] <= faults + 1 /\ passed[u] # faults + 1
      BY <1>5, <1>12, <2>1 DEF OwedInv
    <3>2. passed'[u] = (IF passed[u] > MaxPassed THEN passed[u] ELSE passed[u] + 1)
      BY <1>1, <2>1 DEF TypeOK
    <3>3. passed'[u] <= faults + 1
      BY <1>9, <3>1, <3>2
    <3>4. u \in Waiting /\ u \notin Held' /\ due[u] = Turn
      BY <1>1, <1>5, <2>1 DEF Waiting
    <3> QED
      BY <1>11, <3>3, <3>4
  <2>2. CASE u # Current
    <3>1. passed'[u] = passed[u]
      BY <1>1, <2>2 DEF TypeOK
    <3>2. passed[u] <= faults + 1
      BY DEF OwedInv
    <3>3. ASSUME passed[u] = faults + 1
          PROVE  u \in Waiting /\ u \notin Held' /\ due[u] = Turn
      <4>1. u \notin Held
        BY <1>12, <3>3
      <4> QED
        BY <1>5, <3>3, <4>1 DEF OwedInv
    <3> QED
      BY <1>11, <3>1, <3>2, <3>3
  <2> QED
    BY <2>1, <2>2
<1> QED
  BY <1>6, <1>10, <1>13

\* A payment is read: it will not be back before those of this run, and one less
\* is ahead of the others.  A failed read is one more failure, and nobody is owed.
LEMMA ReadKeepsTurns ==
  ASSUME Inv, Inv', TurnInv, Read
  PROVE  TurnInv'
<1> USE DEF Inv, TurnInv
<1>1. /\ run.at = "process" /\ run.claimed # <<>> /\ known[Current]
      /\ run.reads < ReadLimit
      /\ Done(run.reads + 1)
      /\ passed' = [passed EXCEPT ![Current] = 0]
      /\ UNCHANGED <<known, alive, nextRun>>
      /\ faults' = faults \/ faults' = faults + 1
  BY DEF Read
<1>2. Current \in Transactions /\ phase[Current] # "ABSENT"
  BY <1>1, CurrentFacts
<1>3. CountUp(attempts[Current]) \in 0 .. MaxAttempts
  BY <1>2, CountUpIsAttempt DEF TypeOK
<1>4. \/ SettleRow(Current)
      \/ CheckAgain(Current, "ACKNOWLEDGED", CountUp(attempts[Current]))
      \/ CheckAgain(Current, "UNKNOWN", CountUp(attempts[Current]))
  BY DEF Read
<1>5. Written(Current)
  BY <1>2, <1>3, <1>4, SettleRowWrites, CheckAgainWrites DEF Phases
<1>6. run'.reads = run.reads + 1
  BY <1>1 DEF Done, TypeOK
<1>7. /\ Current \in Held /\ Pending(Current) /\ due[Current] = Turn
      /\ Held' = Held \ {Current} /\ run'.at = run.at
      /\ \A u \in Transactions :
              /\ Cardinality(AheadOf(u)') \in Nat /\ Cardinality(AheadOf(u)) \in Nat
              /\ u \in Held' /\ known[Current] =>
                   Cardinality(AheadOf(u)') < Cardinality(AheadOf(u))
  BY <1>1, <1>5, <1>6, RestFacts DEF Written
<1>8. phase'[Current] \in {"ACKNOWLEDGED", "UNKNOWN", "SETTLED"}
  BY <1>2, <1>4 DEF SettleRow, CheckAgain, TypeOK
<1>9. KnownInv' /\ HeldInv'
  BY <1>1, <1>5, <1>6, <1>8, HandlingKeepsHeld
<1>10. \A u \in Transactions \ {Current} : phase'[u] = phase[u] /\ due'[u] = due[u]
  BY <1>5 DEF Written
<1>11. Turn' = Turn /\ Turn \in Int /\ Turn <= Lease /\ Lease \in Nat
  BY <1>1, TurnIsTime DEF Turn
<1>12. Current \notin Eligible'
  <2>1. CASE SettleRow(Current)
    <3>1. phase'[Current] = "SETTLED"
      BY <1>2, <2>1 DEF SettleRow, TypeOK
    <3> QED
      BY <3>1 DEF Eligible, Waiting, Pending
  <2>2. ASSUME NEW p, CheckAgain(Current, p, CountUp(attempts[Current]))
        PROVE  Current \notin Eligible'
    <3>1. PICK d \in Backoff(CountUp(attempts[Current])) : Wait(Current, d, FALSE)
      BY <2>2 DEF CheckAgain
    <3>2. d \in Int /\ d > Lease
      BY <1>3, BackoffIsTime, TurnsAssumption
    <3>3. due'[Current] = d
      BY <1>2, <3>1 DEF Wait, TypeOK
    <3>4. ~(due'[Current] <= Turn')
      BY <1>11, <3>2, <3>3
    <3> QED
      BY <3>4 DEF Eligible
  <2> QED
    BY <1>4, <2>1, <2>2
<1>13. Current \in Eligible /\ Eligible' \subseteq Eligible \ {Current}
  <2>1. Current \in Eligible
    BY <1>1, <1>2, <1>7, <1>11 DEF Eligible, Waiting
  <2>2. \A u \in Eligible' : u \in Eligible
    BY <1>1, <1>10, <1>11, <1>12 DEF Eligible, Waiting, Pending
  <2> QED
    BY <1>12, <2>1, <2>2
<1>14. /\ Cardinality(Eligible') \in Nat /\ Cardinality(Eligible) \in Nat
       /\ Cardinality(Eligible') < Cardinality(Eligible)
  <2>1. Eligible' \in SUBSET Eligible /\ Eligible # Eligible'
    BY <1>12, <1>13
  <2> QED
    BY <2>1, Counted, Parts
<1>15. /\ run.reads \in Nat /\ ReadLimit \in Nat /\ faults \in Nat
       /\ \A u \in Transactions : passed[u] \in Nat
  BY TimesAssumption DEF TypeOK
<1>16. QuotaInv'
  BY <1>1, <1>6, <1>14, <1>15 DEF QuotaInv
<1>17. OwedInv'
  <2> SUFFICES ASSUME NEW u \in Transactions
               PROVE  /\ passed'[u] <= faults' + 1
                      /\ passed'[u] = faults' + 1 =>
                           /\ u \in Waiting'
                           /\ u \in Held' => run.reads + 1 + Cardinality(AheadOf(u)') < ReadLimit
                           /\ u \notin Held' => /\ due'[u] = Turn
                                                /\ Cardinality(Eligible') <= ReadLimit
    BY <1>6, <1>11 DEF OwedInv
  <2>1. CASE u = Current
    <3>1. passed'[u] = 0
      BY <1>1, <2>1 DEF TypeOK
    <3>2. faults' \in Nat
      BY <1>1, <1>15
    <3>3. \A n \in Nat : 0 <= n + 1 /\ 0 # n + 1
      OBVIOUS
    <3> QED
      BY <3>1, <3>2, <3>3
  <2>2. CASE u # Current
    <3>1. passed'[u] = passed[u] /\ passed[u] <= faults + 1
      BY <1>1, <2>2 DEF TypeOK, OwedInv
    <3>2. CASE faults' = faults + 1
      <4>1. passed[u] <= faults' /\ passed[u] # faults' + 1
        BY <1>15, <3>1, <3>2
      <4>2. faults' \in Nat
        BY <1>15, <3>2
      <4> QED
        BY <1>15, <3>1, <4>1, <4>2
    <3>3. CASE faults' = faults
      <4>1. ASSUME passed[u] = faults + 1
            PROVE  /\ u \in Waiting'
                   /\ u \in Held' => run.reads + 1 + Cardinality(AheadOf(u)') < ReadLimit
                   /\ u \notin Held' => due'[u] = Turn /\ Cardinality(Eligible') <= ReadLimit
        <5>1. /\ u \in Waiting
              /\ u \in Held => run.reads + Cardinality(AheadOf(u)) < ReadLimit
              /\ u \notin Held => due[u] = Turn /\ Cardinality(Eligible) <= ReadLimit
          BY <4>1 DEF OwedInv
        <5>2. u \in Waiting'
          BY <1>1, <1>10, <2>2, <5>1 DEF Waiting, Pending
        <5>3. u \in Held' => run.reads + 1 + Cardinality(AheadOf(u)') < ReadLimit
          BY <1>1, <1>7, <1>15, <5>1
        <5>4. u \notin Held' => due'[u] = Turn /\ Cardinality(Eligible') <= ReadLimit
          BY <1>7, <1>10, <1>14, <1>15, <2>2, <5>1
        <5> QED
          BY <5>2, <5>3, <5>4
      <4> QED
        BY <3>1, <3>3, <4>1
    <3> QED
      BY <1>1, <3>2, <3>3
  <2> QED
    BY <2>1, <2>2
<1> QED
  BY <1>9, <1>16, <1>17

\* A run that ends holds nothing any more.
LEMMA RunEndsKeepsTurns ==
  ASSUME Inv, Inv', TurnInv, RunEnds
  PROVE  TurnInv'
<1> USE DEF Inv, TurnInv
<1>1. run.claimed = <<>> /\ run' = Idle /\ UNCHANGED <<rows, alive, nextRun, passed, faults>>
  BY DEF RunEnds
<1>2. run'.at = "idle" /\ run'.claimed = <<>>
  BY <1>1 DEF Idle
<1>3. UNCHANGED <<phase, known, due, nextRun, passed, faults>>
  BY <1>1 DEF rows
<1>4. KnownInv' /\ HeldInv' /\ QuotaInv'
  BY <1>2, <1>3 DEF KnownInv, HeldInv, QuotaInv
<1>5. Held = {} /\ Held' = {}
  BY <1>1, <1>2 DEF Held
<1>6. Turn' = Turn /\ Waiting' = Waiting /\ Eligible' = Eligible
  BY <1>3 DEF Turn, Waiting, Eligible, Pending
<1>7. OwedInv'
  BY <1>3, <1>5, <1>6 DEF OwedInv
<1> QED
  BY <1>4, <1>7

\* After a failed or a missed run nobody is owed a read.
LEMMA FailureKeepsTurns ==
  ASSUME Inv, Inv', TurnInv, RunFails \/ RunMissed
  PROVE  TurnInv'
<1> USE DEF Inv, TurnInv
<1>1. UNCHANGED <<phase, known, due, passed>> /\ faults' = faults + 1
  BY DEF RunFails, RunMissed, rows
<1>2. run'.at = "idle" /\ run'.claimed = <<>>
  BY DEF RunFails, RunMissed, Idle, HeldInv
<1>3. KnownInv' /\ HeldInv' /\ QuotaInv'
  BY <1>1, <1>2 DEF KnownInv, HeldInv, QuotaInv
<1>4. OwedInv'
  <2> SUFFICES ASSUME NEW u \in Transactions
               PROVE  passed'[u] <= faults' + 1 /\ passed'[u] # faults' + 1
    BY DEF OwedInv
  <2>1. passed[u] <= faults + 1 /\ passed[u] \in Int /\ faults \in Int
    BY DEF OwedInv, TypeOK
  <2> QED
    BY <1>1, <2>1
<1> QED
  BY <1>3, <1>4

\* Time takes from all who wait alike; only who has waited for very long is not
\* told apart any more, and that is longer than Turn.
LEMMA TimePassesKeepsTurns ==
  ASSUME Inv, Inv', TurnInv, TimePasses
  PROVE  TurnInv'
<1> USE DEF Inv, TurnInv
<1>1. /\ nextRun > 0 /\ nextRun' = nextRun - 1
      /\ due' = [t \in Transactions |->
                   IF Pending(t) /\ due[t] > -MaxOverdue THEN due[t] - 1 ELSE due[t]]
      /\ UNCHANGED <<phase, known, leased, attempts, passed, faults>>
  BY DEF TimePasses
<1>2. run'.at = run.at /\ run'.claimed = run.claimed /\ run'.reads = run.reads
  BY DEF TimePasses, TypeOK
<1>3. /\ Lease \in Nat /\ Period \in Nat /\ MaxOverdue \in Nat /\ ReadLimit \in Nat
      /\ nextRun \in Nat /\ Period - Lease <= MaxOverdue
  BY TimesAssumption, BoundsAssumption DEF TypeOK
<1>4. Turn \in Int /\ Turn' = Turn - 1 /\ Turn > -MaxOverdue
  BY <1>1, <1>3 DEF Turn
<1>5. ASSUME NEW t \in Transactions
      PROVE  /\ due[t] \in Int
             /\ Pending(t) /\ due[t] = Turn => due'[t] = Turn'
             /\ Pending(t) /\ due'[t] <= Turn' => due[t] <= Turn
  <2>1. due[t] \in Int
    BY DEF TypeOK
  <2>2. Pending(t) => due'[t] = IF due[t] > -MaxOverdue THEN due[t] - 1 ELSE due[t]
    BY <1>1
  <2> QED
    BY <1>3, <1>4, <2>1, <2>2
<1>6. Held' = Held /\ Accepted' = Accepted
  BY <1>1, <1>2 DEF Held, Accepted
<1>7. \A u \in Transactions : AheadOf(u)' = AheadOf(u)
  BY <1>1, <1>2, <1>6 DEF AheadOf
<1>8. Waiting' = Waiting
  BY <1>1 DEF Waiting, Pending
<1>9. Eligible' \subseteq Eligible
  BY <1>5, <1>8 DEF Eligible, Waiting
<1>10. /\ Cardinality(Eligible') \in Nat /\ Cardinality(Eligible) \in Nat
       /\ Cardinality(Eligible') <= Cardinality(Eligible)
  BY <1>9, Counted, Parts
<1>11. KnownInv'
  BY <1>1 DEF KnownInv
<1>12. HeldInv'
  <2>1. ASSUME NEW i \in DOMAIN run.claimed
        PROVE  /\ phase'[run.claimed[i]] \notin {"ABSENT", "SETTLED"}
               /\ due'[run.claimed[i]] = Turn'
    <3>1. run.claimed[i] \in Transactions
      BY DEF TypeOK
    <3>2. Pending(run.claimed[i]) /\ due[run.claimed[i]] = Turn
      BY DEF HeldInv
    <3> QED
      BY <1>1, <1>5, <3>1, <3>2 DEF Pending
  <2> QED
    BY <1>2, <2>1 DEF HeldInv, Pending
<1>13. run.reads \in Int
  BY DEF TypeOK
<1>14. QuotaInv'
  BY <1>2, <1>3, <1>10, <1>13 DEF QuotaInv
<1>15. OwedInv'
  <2> SUFFICES ASSUME NEW u \in Transactions
               PROVE  /\ passed[u] <= faults + 1
                      /\ passed[u] = faults + 1 =>
                           /\ u \in Waiting
                           /\ u \in Held => run.reads + Cardinality(AheadOf(u)) < ReadLimit
                           /\ u \notin Held => /\ due'[u] = Turn'
                                               /\ Cardinality(Eligible') <= ReadLimit
    BY <1>1, <1>2, <1>6, <1>7, <1>8 DEF OwedInv
  <2>1. ASSUME passed[u] = faults + 1, u \notin Held
        PROVE  due'[u] = Turn' /\ Cardinality(Eligible') <= ReadLimit
    <3>1. u \in Waiting /\ due[u] = Turn /\ Cardinality(Eligible) <= ReadLimit
      BY <2>1 DEF OwedInv
    <3> QED
      BY <1>3, <1>5, <1>10, <3>1 DEF Waiting
  <2> QED
    BY <2>1 DEF OwedInv
<1> QED
  BY <1>11, <1>12, <1>14, <1>15

\* A batch is taken.  Who is owed a read is due and in it, behind no more than
\* those who were eligible before him; and the next two runs have room for all.
LEMMA StartRunKeepsTurns ==
  ASSUME Inv, Inv', TurnInv, FewWaiting, StartRun
  PROVE  TurnInv'
<1> USE DEF Inv, TurnInv
<1> DEFINE taken == {t \in Batch : Claimable(t)}
           order == InOrder(taken)
<1>1. run.at = "idle" /\ nextRun = 0
  BY DEF StartRun
<1>2. /\ due' = [t \in Transactions |-> IF t \in taken THEN Lease ELSE due[t]]
      /\ phase' = [t \in Transactions |->
           IF t \in taken /\ phase[t] = "NOT_SENT" THEN "NOT_SENT_FAILED" ELSE phase[t]]
      /\ run' = [Idle EXCEPT !.at = "process", !.claimed = order]
      /\ nextRun' = Period
      /\ UNCHANGED <<known, attempts, alive, passed, faults>>
  BY DEF StartRun
<1>3. /\ Lease \in Nat /\ Period \in Nat /\ ReadLimit \in Nat \ {0} /\ BatchSize \in Nat
      /\ Lease < Period
  BY TimesAssumption, TurnsAssumption
<1>4. Turn = Lease - Period /\ Turn \in Int /\ Turn < 0 /\ Turn' = Lease
  BY <1>1, <1>2, <1>3 DEF Turn
<1>5. /\ taken \in SUBSET Transactions /\ taken \subseteq Due /\ Due \in SUBSET Transactions
      /\ Due \subseteq {t \in Transactions : Pending(t)}
  BY DEF Batch, Due
<1>6. /\ IsFiniteSet({t \in Transactions : Pending(t)}) /\ IsFiniteSet(Due)
      /\ IsFiniteSet(taken)
  <2>1. {t \in Transactions : Pending(t)} \subseteq Accepted
    BY DEF Pending, Accepted
  <2> QED
    BY <1>5, <2>1, FS_Subset DEF FinitelyMany
<1>7. due \in [Transactions -> Int]
  BY DEF TypeOK
<1>8. /\ \A t \in taken : \E i \in DOMAIN order : order[i] = t
      /\ \A i, j \in DOMAIN order : order[i] = order[j] => i = j
      /\ \A i, j \in DOMAIN order : i < j => Before(order[i], order[j])
  BY <1>5, <1>6, <1>7, InOrderIsOrdered
<1>9. \A i \in DOMAIN order : order[i] \in taken
  <2>1. order \in Seq(taken)
    BY <1>5, <1>6, <1>7, InOrderLists
  <2> QED
    BY <2>1
<1>10. ASSUME NEW t \in Transactions, Pending(t), due[t] < 0
       PROVE  t \in taken
  <2>1. t \in Due
    BY <1>7, <1>10 DEF Due
  <2>2. Position(t, Due) \in 1 .. Cardinality(Due)
    BY <1>5, <1>6, <1>7, <2>1, PlacesAreShared
  <2>3. /\ Cardinality(Due) <= Cardinality({u \in Transactions : Pending(u)})
        /\ Cardinality(Due) \in Nat
        /\ Cardinality({u \in Transactions : Pending(u)}) \in Nat
    BY <1>5, <1>6, Parts
  <2>4. Position(t, Due) <= BatchSize
    BY <1>3, <2>2, <2>3 DEF FewWaiting
  <2> QED
    BY <1>7, <1>10, <2>1, <2>4 DEF Batch, Claimable
<1> HIDE DEF taken, order
<1>11. run'.at = "process" /\ run'.claimed = order /\ run'.reads = 0
  BY <1>2 DEF Idle
<1>12. run.claimed = <<>>
  BY <1>1 DEF HeldInv
<1>13. Held = {} /\ Held' = taken
  <2>1. Held' = {order[i] : i \in DOMAIN order}
    BY <1>11 DEF Held
  <2>2. Held = {}
    BY <1>12 DEF Held
  <2>3. Held' = taken
    BY <1>8, <1>9, <2>1
  <2> QED
    BY <2>2, <2>3
<1>14. \A t \in taken : t \in Transactions /\ Pending(t) /\ due'[t] = Lease
                        /\ phase'[t] \notin {"ABSENT", "SETTLED"}
  BY <1>2, <1>5 DEF Pending
<1>15. KnownInv'
  BY <1>2 DEF KnownInv
<1>16. HeldInv'
  <2>1. ASSUME NEW i \in DOMAIN order
        PROVE  phase'[order[i]] \notin {"ABSENT", "SETTLED"} /\ due'[order[i]] = Turn'
    BY <1>4, <1>9, <1>14
  <2> QED
    BY <1>8, <1>11, <2>1 DEF HeldInv, Pending
<1>17. Waiting' = Waiting
  BY <1>2 DEF Waiting, Pending
<1>18. QuotaInv'
  <2>1. Eligible' \in SUBSET Waiting
    BY <1>17 DEF Eligible
  <2>2. /\ Cardinality(Eligible') \in Nat /\ Cardinality(Waiting) \in Nat
        /\ Cardinality(Eligible') <= Cardinality(Waiting)
    BY <2>1, Counted, Parts
  <2> QED
    BY <1>3, <1>11, <2>2 DEF QuotaInv, FewWaiting
<1>19. ASSUME NEW u \in Transactions, passed[u] = faults + 1
       PROVE  /\ u \in Waiting' /\ u \in Held'
              /\ run'.reads + Cardinality(AheadOf(u)') < ReadLimit
  <2>1. u \in Waiting /\ due[u] = Turn /\ Cardinality(Eligible) <= ReadLimit
    BY <1>13, <1>19 DEF OwedInv
  <2>2. u \in taken
    BY <1>4, <1>10, <2>1 DEF Waiting
  <2>3. u \in Eligible
    BY <1>4, <2>1 DEF Eligible
  <2>4. ASSUME NEW v \in AheadOf(u)'
        PROVE  v \in Eligible /\ v # u
    <3>1. PICK i \in DOMAIN order, j \in DOMAIN order :
            i < j /\ order[i] = v /\ order[j] = u /\ known[v]
      BY <1>2, <1>11 DEF AheadOf
    <3>2. v \in taken /\ Before(v, u)
      BY <1>8, <1>9, <3>1
    <3>3. v \in Waiting /\ due[v] \in Int /\ v \in Nat /\ u \in Nat /\ due[u] \in Int
      BY <1>7, <1>14, <3>1, <3>2, TimesAssumption DEF Waiting
    <3>4. due[v] < due[u] \/ (due[v] = due[u] /\ v < u)
      BY <3>2 DEF Before
    <3>5. due[v] <= Turn
      BY <1>4, <2>1, <3>3, <3>4
    <3>6. v # u
      BY <3>3, <3>4
    <3> QED
      BY <3>3, <3>5, <3>6 DEF Eligible
  <2>5. AheadOf(u)' \in SUBSET Eligible /\ Eligible # AheadOf(u)'
    BY <2>3, <2>4
  <2>6. /\ Cardinality(AheadOf(u)') \in Nat /\ Cardinality(Eligible) \in Nat
        /\ Cardinality(AheadOf(u)') < Cardinality(Eligible)
    BY <2>5, Counted, Parts
  <2> QED
    BY <1>3, <1>11, <1>13, <1>17, <2>1, <2>2, <2>6
<1>20. OwedInv'
  BY <1>2, <1>19 DEF OwedInv
<1> QED
  BY <1>15, <1>16, <1>18, <1>20

\* No payment is there at first, so none is owed a read.
LEMMA InitTurns == Init => TurnInv
<1> SUFFICES ASSUME Init PROVE TurnInv
  OBVIOUS
<1>1. \A t \in Transactions : known[t] = FALSE /\ passed[t] = 0
  BY DEF Init
<1>2. faults = 0 /\ run.at = "idle" /\ run.claimed = <<>>
  BY DEF Init, Idle
<1>3. KnownInv /\ HeldInv /\ QuotaInv
  BY <1>1, <1>2 DEF KnownInv, HeldInv, QuotaInv
<1>4. OwedInv
  BY <1>1, <1>2 DEF OwedInv
<1> QED
  BY <1>3, <1>4 DEF TurnInv

\* One step of the system, with few enough payments.
LEMMA StepKeepsTurns == Inv /\ Inv' /\ TurnInv /\ FewWaiting /\ [Next]_vars => TurnInv'
<1> SUFFICES ASSUME Inv, Inv', TurnInv, FewWaiting, [Next]_vars PROVE TurnInv'
  OBVIOUS
<1>1. CASE \E t \in Transactions : Accept(t) \/ ClaimDispatch(t) \/ Answered(t)
  BY <1>1, InvocationsKeepTurns
<1>2. CASE StartRun
  BY <1>2, StartRunKeepsTurns
<1>3. CASE WorkerNext
  BY <1>3, UnreadableKeepsTurns, OverQuotaKeepsTurns, ReadKeepsTurns, RunEndsKeepsTurns
     DEF WorkerNext
<1>4. CASE RunFails \/ RunMissed
  BY <1>4, FailureKeepsTurns
<1>5. CASE TimePasses
  BY <1>5, TimePassesKeepsTurns
<1>6. CASE UNCHANGED vars
  <2>1. Held' = Held /\ Turn' = Turn /\ Waiting' = Waiting /\ Eligible' = Eligible
    BY <1>6 DEF vars, Held, Turn, Waiting, Eligible, Pending
  <2>2. \A u : AheadOf(u)' = AheadOf(u)
    BY <1>6 DEF vars, AheadOf, Accepted
  <2>3. KnownInv' /\ HeldInv' /\ QuotaInv'
    BY <1>6, <2>1 DEF vars, TurnInv, KnownInv, HeldInv, QuotaInv, Pending
  <2>4. OwedInv'
    BY <1>6, <2>1, <2>2 DEF vars, TurnInv, OwedInv
  <2> QED
    BY <2>3, <2>4 DEF TurnInv
<1> QED
  BY <1>1, <1>2, <1>3, <1>4, <1>5, <1>6 DEF Next

-----------------------------------------------------------------------------
(* The theorems.                                                           *)

\* The invariant holds in every behaviour.
LEMMA AlwaysInv == Spec => []Inv
<1> QED
  BY InitInv, StepKeeps, PTL DEF Spec

\* Rows, run and waiting times have their types.
THEOREM BatchTypeCorrect == Spec => []TypeOK
<1>1. Inv => TypeOK
  BY DEF Inv
<1> QED
  BY <1>1, AlwaysInv, PTL

\* claimDue takes no payment whose invocation may still be at work, and gives
\* none of them up: while an invocation lives its payment is not due.
THEOREM LeavesInvocationsCorrect == Spec => []LeavesRunningInvocationsAlone
<1>1. Inv => LeavesRunningInvocationsAlone
  <2> SUFFICES ASSUME Inv, NEW t \in Transactions, alive[t] > 0
               PROVE  /\ phase[t] # "NOT_SENT_FAILED"
                      /\ \A i \in DOMAIN run.claimed : run.claimed[i] # t
    BY DEF LeavesRunningInvocationsAlone
  <2>1. phase[t] \in {"NOT_SENT", "SENDING"}
    BY DEF Inv, TimeLeft
  <2>2. \A i \in DOMAIN run.claimed : alive[run.claimed[i]] = 0
    BY DEF Inv, RunInv
  <2> QED
    BY <2>1, <2>2
<1> QED
  BY <1>1, AlwaysInv, PTL

\* The read quota is shared in turns as long as no more payments with a provider
\* id wait than two runs may read, and no more payments than a batch takes: the
\* worker passes a payment over once, and once more for each failure.
THEOREM TurnsCorrect == Spec /\ []FewWaiting => []TakesTurns
<1>1. Inv /\ TurnInv => TakesTurns
  <2> SUFFICES ASSUME Inv, TurnInv, NEW t \in Transactions
               PROVE  passed[t] <= MaxPassed
    BY DEF TakesTurns
  <2>1. passed[t] <= faults + 1
    BY DEF TurnInv, OwedInv
  <2>2. /\ passed[t] \in Int /\ faults \in Int /\ faults <= MaxFaults
        /\ MaxFaults \in Nat /\ MaxPassed \in Nat /\ MaxFaults < MaxPassed
    BY TimesAssumption, BoundsAssumption DEF Inv, TypeOK
  <2> QED
    BY <2>1, <2>2
<1> QED
  BY <1>1, InitInv, StepKeeps, InitTurns, StepKeepsTurns, PTL DEF Spec

\* Waiting payments are no more than there are payments.
LEMMA FewInAll ==
  ASSUME IsFiniteSet(Transactions),
         Cardinality(Transactions) <= 2 * ReadLimit, Cardinality(Transactions) <= BatchSize
  PROVE  FewWaiting
<1>1. Waiting \in SUBSET Transactions /\ {t \in Transactions : Pending(t)} \in SUBSET Transactions
  BY DEF Waiting
<1>2. \A T \in SUBSET Transactions :
        /\ Cardinality(T) \in Nat /\ Cardinality(Transactions) \in Nat
        /\ Cardinality(T) <= Cardinality(Transactions)
  BY Parts
<1>3. ReadLimit \in Nat /\ BatchSize \in Nat
  BY TimesAssumption
<1> QED
  BY <1>1, <1>2, <1>3 DEF FewWaiting

\* In particular, turns are taken when no more payments than that are ever made, as
\* in an instance of two payments whose quota is one.
COROLLARY TurnsOfFew ==
  ASSUME IsFiniteSet(Transactions),
         Cardinality(Transactions) <= 2 * ReadLimit, Cardinality(Transactions) <= BatchSize
  PROVE  Spec => []TakesTurns
<1>1. FewWaiting
  BY FewInAll
<1> QED
  BY <1>1, TurnsCorrect, PTL
=============================================================================
