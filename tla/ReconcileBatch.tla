--------------------------- MODULE ReconcileBatch ---------------------------
(***************************************************************************)
(* The worker's batches in time: whose turn is it, and when?               *)
(*                                                                         *)
(* A payment waits for its nextCheckAt.  Every minute the worker lists the *)
(* earliest ones, takes each under a 45 s lease that is also its new       *)
(* nextCheckAt, and reads the provider for at most PROVIDER_READ_LIMIT of  *)
(* them; the others keep the lease and come back when it has ended.  A     *)
(* payment that was read comes back after a jittered backoff.              *)
(*                                                                         *)
(* Time is discrete and relative: due[t] is nextCheckAt minus now, and     *)
(* TimePasses takes one from everything that is waiting.  Rows, rivals and *)
(* settlement are in CheckoutPayment; here a settled payment is SETTLED.   *)
(***************************************************************************)
EXTENDS Integers, Sequences, FiniteSets

CONSTANTS
  Transactions,     \* numbers: the index breaks ties by transaction id
  Lease,            \* RECONCILIATION_LEASE_MS
  Delays,           \* backoffPolicy.delaysMs
  RecurringDelay,   \* backoffPolicy.recurringDelayMs
  Period,           \* the schedule's rate(1 minute)
  ApiTimeout,       \* after which the platform stops an invocation
  WorkerTimeout,    \* after which it stops the worker
  BatchSize,        \* RECONCILIATION_BATCH_SIZE
  ReadLimit,        \* PROVIDER_READ_LIMIT
  MaxOverdue,       \* bound: how far in the past a nextCheckAt is told apart
  MaxPassed,        \* runs in a row that may pass a payment over
  MaxFaults         \* bound: failed reads, failed and missed runs

ASSUME TimesAssumption ==
  /\ {Lease, RecurringDelay, Period, ApiTimeout, WorkerTimeout, BatchSize,
      ReadLimit, MaxOverdue} \subseteq Nat \ {0}
  /\ Delays \in Seq(Nat \ {0}) /\ Delays # <<>>
  /\ {MaxPassed, MaxFaults} \subseteq Nat
  /\ Transactions \subseteq Nat

\* The platform stops the API before a lease taken in it ends: 10 s and 45 s.
ASSUME LeaseAssumption == ApiTimeout <= Lease

VARIABLES
  phase,      \* phase[t]: dispatchPhase, or ABSENT, or SETTLED
  known,      \* known[t]: the row has a providerId
  due,        \* due[t]: nextCheckAt - now
  leased,     \* leased[t]: leaseUntil is present; it equals nextCheckAt then
  attempts,   \* attempts[t], up to one more than there are Delays
  alive,      \* alive[t]: time the invocation that submitted t has left
  run,        \* the worker's run
  nextRun,    \* time until the schedule starts the worker again
  passed,     \* history: runs in a row that took t without reading it; told
              \* apart up to one more than MaxPassed
  faults      \* failures so far

vars == <<phase, known, due, leased, attempts, alive, run, nextRun,
          passed, faults>>
rows == <<phase, known, due, leased, attempts>>

Idle == [at |-> "idle", claimed |-> <<>>, reads |-> 0, age |-> 0]

Phases == {"ABSENT", "NOT_SENT", "NOT_SENT_FAILED", "SENDING", "ACKNOWLEDGED",
           "UNKNOWN", "SETTLED"}

\* Listed in GSI1-Reconcile: the row is PENDING.
Pending(t) == phase[t] \notin {"ABSENT", "SETTLED"}

MaxAttempts == Len(Delays) + 1
CountUp(n) == IF n < MaxAttempts THEN n + 1 ELSE n

\* checkedAt plus what nextCheckAt(from, attempts) may answer: the jitter is
\* 20% of the base either way.
Backoff(n) ==
  LET first == IF n = 0 THEN 1 ELSE n
      base  == IF first <= Len(Delays) THEN Delays[first] ELSE RecurringDelay
  IN  {base - base \div 5, base, base + base \div 5}

\* A lease ends before the next run, and before any backoff does: 45 s against a
\* minute, and against the 48 s that the shortest delay may come to.
ASSUME TurnsAssumption ==
  /\ Lease < Period
  /\ \A n \in 0 .. MaxAttempts : \A d \in Backoff(n) : d > Lease

\* The bounds tell apart a payment whose lease has ended, and one passed over
\* once more than there are failures.
ASSUME BoundsAssumption == Period - Lease <= MaxOverdue /\ MaxFaults < MaxPassed

-----------------------------------------------------------------------------
(* What one conditional write does to the waiting times of a row.          *)

Wait(t, time, underLease) ==
  /\ due' = [due EXCEPT ![t] = time]
  /\ leased' = [leased EXCEPT ![t] = underLease]

\* acknowledgeProvider and markUnknown: counted, checked again after a backoff.
CheckAgain(t, newPhase, n) ==
  /\ phase' = [phase EXCEPT ![t] = newPhase]
  /\ attempts' = [attempts EXCEPT ![t] = n]
  /\ \E d \in Backoff(n) : Wait(t, d, FALSE)

\* finalize: the row leaves both indexes.
SettleRow(t) ==
  /\ phase' = [phase EXCEPT ![t] = "SETTLED"]
  /\ attempts' = [attempts EXCEPT ![t] = 0]
  /\ Wait(t, 0, FALSE)

-----------------------------------------------------------------------------
(* An invocation of the API that submits t, stopped after ApiTimeout.      *)

\* The nextCheckAt a submission is stored with: when a lease taken now ends.
AcceptedDueNow(t) == Wait(t, 0, FALSE)   \* faulty: due as soon as accepted
AcceptedDue(t) == Wait(t, Lease, FALSE)

\* preparePayment.
Accept(t) ==
  /\ phase[t] = "ABSENT"
  /\ phase' = [phase EXCEPT ![t] = "NOT_SENT"]
  /\ AcceptedDue(t)
  /\ alive' = [alive EXCEPT ![t] = ApiTimeout]
  /\ UNCHANGED <<known, attempts, run, nextRun, passed, faults>>

\* The lease is taken before the POST.
ClaimDispatch(t) ==
  /\ alive[t] > 0 /\ phase[t] = "NOT_SENT"
  /\ phase' = [phase EXCEPT ![t] = "SENDING"]
  /\ Wait(t, Lease, TRUE)
  /\ UNCHANGED <<known, attempts, alive, run, nextRun, passed, faults>>

\* createOnce returned: acknowledged with an id, final at once, or unknown.
Answered(t) ==
  /\ alive[t] > 0 /\ phase[t] = "SENDING"
  /\ \/ CheckAgain(t, "ACKNOWLEDGED", 0) /\ known' = [known EXCEPT ![t] = TRUE]
     \/ SettleRow(t) /\ UNCHANGED known
     \/ CheckAgain(t, "UNKNOWN", 0) /\ UNCHANGED known
  /\ alive' = [alive EXCEPT ![t] = 0]
  /\ UNCHANGED <<run, nextRun, passed, faults>>

-----------------------------------------------------------------------------
(* The worker's run: reconcileDue over claimDue.                           *)

\* t is before u in the index: by nextCheckAt, then by transaction id.
Before(t, u) == due[t] < due[u] \/ (due[t] = due[u] /\ t < u)

\* The query of claimDue: what is due, earliest first, BatchSize at most.
Due == {t \in Transactions : Pending(t) /\ due[t] <= 0}

\* t's place among S in the index, and S listed in that order.
Position(t, S) == Cardinality({u \in S : Before(u, t)}) + 1
InOrder(S) == [i \in 1 .. Cardinality(S) |-> CHOOSE t \in S : Position(t, S) = i]

Batch == {t \in Due : Position(t, Due) <= BatchSize}

\* The condition of claimDue's update, evaluated when the run begins.
Claimable(t) == Pending(t) /\ due[t] <= 0 /\ (leased[t] => due[t] < 0)

\* claimDue: each row of the batch that still may be taken is leased, and given
\* up if it was not sent.  CheckoutPayment takes it row by row, against rivals.
StartRun ==
  /\ run.at = "idle" /\ nextRun = 0
  /\ LET taken == {t \in Batch : Claimable(t)}
     IN  /\ due' = [t \in Transactions |-> IF t \in taken THEN Lease ELSE due[t]]
         /\ leased' = [t \in Transactions |-> t \in taken \/ leased[t]]
         /\ phase' = [t \in Transactions |->
              IF t \in taken /\ phase[t] = "NOT_SENT" THEN "NOT_SENT_FAILED" ELSE phase[t]]
         /\ run' = [Idle EXCEPT !.at = "process", !.claimed = InOrder(taken)]
  /\ nextRun' = Period
  /\ UNCHANGED <<known, attempts, alive, passed, faults>>

Current == Head(run.claimed)
Done(reads) == run' = [run EXCEPT !.claimed = Tail(@), !.reads = reads]

\* No providerId: settled if it was never sent, else unknown once more.
Resolve(t) ==
  IF phase[t] = "NOT_SENT_FAILED"
  THEN SettleRow(t)
  ELSE CheckAgain(t, "UNKNOWN", CountUp(attempts[t]))

Unreadable ==
  /\ run.at = "process" /\ run.claimed # <<>> /\ ~known[Current]
  /\ Resolve(Current)
  /\ Done(run.reads)
  /\ UNCHANGED <<known, alive, nextRun, passed, faults>>

\* The quota is spent: the row keeps its lease, and is not counted.
PassOverAsRead(t) == CheckAgain(t, phase[t], CountUp(attempts[t]))   \* faulty
PassOver(t) == UNCHANGED <<phase, attempts, due, leased>>

OverQuota ==
  /\ run.at = "process" /\ run.claimed # <<>> /\ known[Current]
  /\ run.reads >= ReadLimit
  /\ PassOver(Current)
  /\ Done(run.reads)
  /\ passed' = [passed EXCEPT ![Current] = IF @ > MaxPassed THEN @ ELSE @ + 1]
  /\ UNCHANGED <<known, alive, nextRun, faults>>

\* getById: a final status, or PENDING for as long as the provider likes.  A
\* read may fail.
Read ==
  /\ run.at = "process" /\ run.claimed # <<>> /\ known[Current]
  /\ run.reads < ReadLimit
  /\ \/ SettleRow(Current) /\ UNCHANGED faults
     \/ /\ CheckAgain(Current, "ACKNOWLEDGED", CountUp(attempts[Current]))
        /\ UNCHANGED faults
     \/ /\ faults < MaxFaults /\ faults' = faults + 1
        /\ CheckAgain(Current, "UNKNOWN", CountUp(attempts[Current]))
  /\ Done(run.reads + 1)
  /\ passed' = [passed EXCEPT ![Current] = 0]
  /\ UNCHANGED <<known, alive, nextRun>>

RunEnds ==
  /\ run.at = "process" /\ run.claimed = <<>>
  /\ run' = Idle
  /\ UNCHANGED <<rows, alive, nextRun, passed, faults>>

\* A request of the run fails and reconcileDue returns the error: what is left
\* of the batch keeps its lease.  The platform may run the worker again soon.
RunFails ==
  /\ run.at # "idle" /\ faults < MaxFaults
  /\ faults' = faults + 1
  /\ run' = Idle
  /\ nextRun' \in {0, nextRun}
  /\ UNCHANGED <<rows, alive, passed>>

\* The schedule misses a run.
RunMissed ==
  /\ run.at = "idle" /\ nextRun = 0 /\ faults < MaxFaults
  /\ faults' = faults + 1
  /\ nextRun' = Period
  /\ UNCHANGED <<rows, alive, run, passed>>

-----------------------------------------------------------------------------
(* The environment.                                                        *)

\* One unit of time.  The platform stops an invocation that has run too long.  A
\* run that the schedule owes starts before more time passes, and ends before
\* WorkerTimeout unless it fails.
TimePasses ==
  /\ nextRun > 0
  /\ run.at # "idle" => run.age + 1 < WorkerTimeout
  /\ due' = [t \in Transactions |->
       IF Pending(t) /\ due[t] > -MaxOverdue THEN due[t] - 1 ELSE due[t]]
  /\ alive' = [t \in Transactions |-> IF alive[t] > 0 THEN alive[t] - 1 ELSE 0]
  /\ nextRun' = nextRun - 1
  /\ run' = IF run.at = "idle" THEN run ELSE [run EXCEPT !.age = @ + 1]
  /\ UNCHANGED <<phase, known, leased, attempts, passed, faults>>

-----------------------------------------------------------------------------
Init ==
  /\ phase = [t \in Transactions |-> "ABSENT"]
  /\ known = [t \in Transactions |-> FALSE]
  /\ due = [t \in Transactions |-> 0]
  /\ leased = [t \in Transactions |-> FALSE]
  /\ attempts = [t \in Transactions |-> 0]
  /\ alive = [t \in Transactions |-> 0]
  /\ run = Idle
  /\ nextRun = Period
  /\ passed = [t \in Transactions |-> 0]
  /\ faults = 0

WorkerNext == Unreadable \/ OverQuota \/ Read \/ RunEnds

Next ==
  \/ \E t \in Transactions : Accept(t) \/ ClaimDispatch(t) \/ Answered(t)
  \/ StartRun \/ WorkerNext \/ RunFails \/ RunMissed
  \/ TimePasses

Spec == Init /\ [][Next]_vars

\* Time passes, the schedule starts the worker, and the worker makes progress;
\* nothing is assumed of invocations or of the provider.
FairSpec == Spec /\ WF_vars(TimePasses) /\ WF_vars(StartRun) /\ WF_vars(WorkerNext)

-----------------------------------------------------------------------------
(* Properties.                                                             *)

\* The rows, the run and the waiting times have their types.
TypeOK ==
  /\ phase \in [Transactions -> Phases]
  /\ known \in [Transactions -> BOOLEAN]
  /\ due \in [Transactions -> Int] /\ leased \in [Transactions -> BOOLEAN]
  /\ attempts \in [Transactions -> 0 .. MaxAttempts]
  /\ alive \in [Transactions -> 0 .. ApiTimeout]
  /\ run \in [at : {"idle", "process"}, claimed : Seq(Transactions),
              reads : 0 .. ReadLimit, age : 0 .. WorkerTimeout]
  /\ nextRun \in 0 .. Period
  /\ passed \in [Transactions -> 0 .. MaxPassed + 1] /\ faults \in 0 .. MaxFaults

\* The worker takes no payment whose invocation may still be at work: neither
\* gives it up before it is sent, nor calls it unknown while it is being sent.
LeavesRunningInvocationsAlone ==
  \A t \in Transactions : alive[t] > 0 =>
    /\ phase[t] # "NOT_SENT_FAILED"
    /\ \A i \in DOMAIN run.claimed : run.claimed[i] # t

\* The read quota is shared in turns: between two reads of a payment, others
\* are read before it in a bounded number of runs.
TakesTurns == \A t \in Transactions : passed[t] <= MaxPassed

\* A pending payment with a provider id is read again and again, whatever the
\* others do: none of them keeps the quota for itself.
IsReadAgain ==
  \A t \in Transactions :
    <>[](Pending(t) /\ known[t]) => []<><<Read /\ Current = t>>_vars
=============================================================================
