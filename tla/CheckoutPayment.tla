-------------------------- MODULE CheckoutPayment --------------------------
(***************************************************************************)
(* The payment lifecycle: concurrent invocations of submitPayment, the     *)
(* scheduled reconciliation worker and the payment provider, over the      *)
(* tables of PaymentStore.                                                 *)
(*                                                                         *)
(* An actor runs the code of checkout-service.ts and of the repository     *)
(* methods it calls, one request to DynamoDB or to the provider per step:  *)
(* everything may happen between two awaits.  What an actor read stays in  *)
(* op[a] and may be stale when it is used.  A Lambda may be stopped at any *)
(* await (Stop), and a request may fail.  Reads that only precede a write  *)
(* of the same condition keep their own step, because their early returns  *)
(* differ from those of the failed write.                                  *)
(*                                                                         *)
(* An invocation of submitPayment mints one transaction id, so invocations *)
(* are named by it: actor t \in Txns runs one request, which may end up    *)
(* working on the payment of another invocation (a replay).  The provider  *)
(* is external; its id of the charge for payment t is t.                   *)
(***************************************************************************)
EXTENDS PaymentStore

CONSTANTS Worker,           \* the reconciliation worker
          ProviderOutcomes, \* final statuses the provider may decide
          ReadLimit,        \* PROVIDER_READ_LIMIT: provider reads per run (2)
          BatchSize,        \* RECONCILIATION_BATCH_SIZE: claims per run (10)
          MaxFaults         \* bound: requests that fail and Lambdas that stop

ASSUME WorkerAssumption == Worker \notin Txns
ASSUME OutcomesAssumption == ProviderOutcomes \subseteq FinalStatus
ASSUME LimitsAssumption == {ReadLimit, BatchSize, MaxFaults} \subseteq Nat
ASSUME ProviderIdsAreTxns == ProviderIds = Txns

VARIABLES pc,       \* pc[a]: the await actor a stands at
          op,       \* op[a]: what actor a carries across awaits
          req,      \* req[p]: the HTTP request of invocation p
          answer,   \* answer[p]: the transaction p's 202 names, or NULL
          todo,     \* candidates of the worker's GSI query still to be claimed
          claimed,  \* claimed[t]: the payment as the worker claimed it, or NULL
          reads,    \* provider reads of this worker run
          charge,   \* charge[t]: the provider's own state of payment t
          posts,    \* posts[t]: POSTs ever sent for payment t (at most 2 counted)
          faults    \* requests that failed and Lambdas that stopped so far

serviceVars  == <<pc, op, req, answer>>
workerVars   == <<todo, claimed, reads>>
providerVars == <<charge, posts>>
vars == <<storeVars, serviceVars, workerVars, providerVars, faults>>

Actors == Txns \cup {Worker}

\* REVERSED: voided after it had been approved.  REJECTED: refused, no charge.
ChargeStatus == FinalStatus \cup {"NONE", "INFLIGHT", "PENDING", "REJECTED", "REVERSED"}

\* The status a response or a GET carries for a charge.
Reported(t) == IF charge[t] = "REVERSED" THEN "VOIDED" ELSE charge[t]

Fault == faults < MaxFaults /\ faults' = faults + 1
NoFault == UNCHANGED faults

\* What the provider answers about payment t: where the charge stands, or, when
\* the answer is late, where it stood before.
ProviderAnswers(t, status) ==
    /\ charge[t] \notin {"NONE", "INFLIGHT", "REJECTED"}
    /\ \/ status = Reported(t) /\ NoFault
       \/ /\ status \in (CASE charge[t] = "PENDING"  -> {}
                            [] charge[t] = "REVERSED" -> {"PENDING", "APPROVED"}
                            [] OTHER                  -> {"PENDING"})
          /\ Fault

NoOp == [txn |-> NULL, seen |-> NULL, status |-> "PENDING",
         recovery |-> "none", destination |-> 0]

Init ==
    /\ StoreInit
    /\ pc = [a \in Actors |-> "idle"]
    /\ op = [a \in Actors |-> NoOp]
    /\ req = [p \in Txns |-> NULL]
    /\ answer = [p \in Txns |-> NULL]
    /\ todo = {}
    /\ claimed = [t \in Txns |-> NULL]
    /\ reads = 0
    /\ charge = [t \in Txns |-> "NONE"]
    /\ posts = [t \in Txns |-> 0]
    /\ faults = 0

At(a, label) == pc[a] = label
Goto(a, label) == pc' = [pc EXCEPT ![a] = label]

\* The operation the actor was carrying out returned ok, or returned an error.
\* submitPayment answers 202 either way; the worker's run goes on or is given up,
\* and what it had claimed stays leased.
Done(a) ==
    /\ op' = [op EXCEPT ![a] = NoOp]
    /\ IF a = Worker
       THEN Goto(a, "batch") /\ UNCHANGED answer
       ELSE Goto(a, "answered") /\ answer' = [answer EXCEPT ![a] = op[a].txn]
    /\ UNCHANGED <<req, workerVars>>

EndRun ==
    /\ op' = [op EXCEPT ![Worker] = NoOp]
    /\ Goto(Worker, "idle")
    /\ todo' = {}
    /\ claimed' = [t \in Txns |-> NULL]
    /\ reads' = 0
    /\ UNCHANGED <<req, answer>>

Failed(a) == IF a = Worker THEN EndRun ELSE Done(a)

\* The actor goes on to its next await with new contents of op[a].
Continue(a, label, o) ==
    /\ Goto(a, label)
    /\ op' = [op EXCEPT ![a] = o]
    /\ UNCHANGED <<req, answer, workerVars>>

Working(t) == [NoOp EXCEPT !.txn = t]

\* The call of finalize an actor makes once it knows an outcome.
Finalize(a, status, recovery) ==
    Continue(a, "finalize", [Working(op[a].txn) EXCEPT !.status = status, !.recovery = recovery])

ProviderStatusOf(o) == IF o.recovery = "PROVIDER_NOT_SENT" THEN "none" ELSE o.status

\* findIdempotency is read before anything else, again by preparePayment, and
\* again when its transaction is cancelled.
Lookups == {"lookup", "prepare", "cancelled"}

\* What the code goes on to when the request it awaits fails: whether the write
\* was applied it cannot tell.
Fails(a) ==
    /\ Fault
    /\ \/ /\ pc[a] \in Lookups \cup {"preparing"}
          /\ Goto(a, "refused")
          /\ UNCHANGED <<op, req, answer, workerVars>>
       \/ /\ pc[a] \in {"posted", "ack", "acking"}
          /\ Continue(a, "unknown", Working(op[a].txn))
       \/ /\ At(a, "effects")
          /\ op[a].status = "APPROVED"
          /\ Continue(a, "escalate", op[a])
       \/ /\ At(a, "escalate")
          /\ Done(a)
       \/ /\ \/ pc[a] \in {"claim", "claiming", "finalize", "settling", "flag", "escalate",
                           "unknown", "marking", "claimDue", "claimDueWrite"}
             \/ At(a, "effects") /\ op[a].status # "APPROVED"
          /\ Failed(a)

-----------------------------------------------------------------------------
(* submitPayment, up to the durable acceptance *)

IdempotencyRow(p) == idempotency[req[p].checkoutId][req[p].key]

\* authorize: reads the checkout the request is about.  The If-Match version is
\* any version the client may have been given.
Submit(p, c, k, expectedVersion) ==
    /\ At(p, "idle")
    /\ checkout[c] # NULL
    /\ expectedVersion \in ReadyDraft.version .. checkout[c].version
    /\ req' = [req EXCEPT ![p] =
          [checkoutId |-> c, key |-> k, expectedVersion |-> expectedVersion,
           submittable |-> \/ checkout[c].status = "READY"
                           \/ checkout[c].activeTransactionId # NULL]]
    /\ Goto(p, "lookup")
    /\ NoFault
    /\ UNCHANGED <<storeVars, op, answer, workerVars, providerVars>>

Replay(p) ==
    /\ pc[p] \in Lookups
    /\ IdempotencyRow(p) # NULL
    /\ IdempotencyRow(p).semanticHash = req[p].expectedVersion
    /\ Continue(p, "claim", Working(IdempotencyRow(p).transactionId))
    /\ NoFault
    /\ UNCHANGED <<storeVars, providerVars>>

\* An error response: another body under the same key; a replay of an unsent
\* payment whose acceptances no longer verify; a checkout that is not READY, a
\* stale quote, price or acceptance; a lost compare-and-set; no stock.
Refuse(p) ==
    /\ \/ /\ pc[p] \in Lookups
          /\ IdempotencyRow(p) # NULL
          /\ \/ IdempotencyRow(p).semanticHash # req[p].expectedVersion
             \/ LET t == IdempotencyRow(p).transactionId IN
                /\ IsPending(t)
                /\ payment[t].dispatchPhase \in {"NOT_SENT", "NOT_SENT_FAILED"}
       \/ /\ At(p, "lookup")
          /\ IdempotencyRow(p) = NULL
       \/ /\ At(p, "prepare")
          /\ IdempotencyRow(p) = NULL
          /\ ~CheckoutIsAt(req[p].checkoutId, req[p].expectedVersion)
       \/ /\ At(p, "cancelled")
          /\ IdempotencyRow(p) = NULL
    /\ Goto(p, "refused")
    /\ NoFault
    /\ UNCHANGED <<storeVars, op, req, answer, workerVars, providerVars>>

\* The request passes submitPayment's checks, then preparePayment's own reads.
Proceed(p) ==
    /\ pc[p] \in {"lookup", "prepare"}
    /\ IdempotencyRow(p) = NULL
    /\ \/ /\ At(p, "lookup")
          /\ req[p].submittable
          /\ Goto(p, "prepare")
       \/ /\ At(p, "prepare")
          /\ CheckoutIsAt(req[p].checkoutId, req[p].expectedVersion)
          /\ Goto(p, "preparing")
    /\ NoFault
    /\ UNCHANGED <<storeVars, op, req, answer, workerVars, providerVars>>

Prepare(p) ==
    /\ At(p, "preparing")
    /\ PreparePaymentWrite(req[p].checkoutId, req[p].key, p, req[p].expectedVersion)
    /\ \/ Continue(p, "claim", Working(p)) /\ NoFault
       \/ Fails(p)
    /\ UNCHANGED providerVars

\* The transaction is cancelled: by one of its conditions, or because another
\* transaction holds one of its rows.
PrepareCancelled(p) ==
    /\ At(p, "preparing")
    /\ \/ /\ ~ /\ HasStock
               /\ CheckoutIsAt(req[p].checkoutId, req[p].expectedVersion)
               /\ IdempotencyRow(p) = NULL
          /\ NoFault
       \/ Fault
    /\ Goto(p, "cancelled")
    /\ UNCHANGED <<storeVars, op, req, answer, workerVars, providerVars>>

-----------------------------------------------------------------------------
(* dispatchIfLeader: one invocation sends the payment, the others answer *)

Dispatchable(t) == IsPending(t) /\ payment[t].dispatchPhase = "NOT_SENT"

ClaimRead(p) ==
    /\ At(p, "claim")
    /\ IF Dispatchable(op[p].txn) THEN Continue(p, "claiming", op[p]) ELSE Done(p)
    /\ NoFault
    /\ UNCHANGED <<storeVars, providerVars>>

ClaimDispatch(p) ==
    /\ At(p, "claiming")
    /\ \/ /\ ClaimDispatchWrite(op[p].txn)
          /\ \/ Continue(p, "create", op[p]) /\ NoFault
             \/ Fails(p)
       \/ /\ ~Dispatchable(op[p].txn)
          /\ Done(p) /\ NoFault
          /\ UNCHANGED storeVars
    /\ UNCHANGED providerVars

\* createOnce gives up before the POST: the provider's acceptance snapshot is
\* missing or stale (PROVEN_NOT_SENT), or the provider is not configured (an
\* error, which dispatchIfLeader takes for an unknown outcome).
DoNotPost(p) ==
    /\ At(p, "create")
    /\ \/ Finalize(p, "ERROR", "PROVIDER_NOT_SENT")
       \/ Continue(p, "unknown", op[p])
    /\ NoFault
    /\ UNCHANGED <<storeVars, providerVars>>

Post(p) ==
    LET t == op[p].txn IN
    /\ At(p, "create")
    /\ posts[t] < 2
    /\ posts' = [posts EXCEPT ![t] = @ + 1]
    /\ charge' = [charge EXCEPT ![t] = IF @ = "NONE" THEN "INFLIGHT" ELSE @]
    /\ Continue(p, "posted", op[p])
    /\ NoFault
    /\ UNCHANGED storeVars

\* The answer to the POST arrives.  The sandbox adapter takes a refusal for an
\* unknown outcome, the scripted one for a definitive rejection.
PostAnswered(p) ==
    LET t == op[p].txn IN
    /\ At(p, "posted")
    /\ \/ \E status \in PaymentStatus :
             /\ ProviderAnswers(t, status)
             /\ Continue(p, "ack", [op[p] EXCEPT !.status = status])
       \/ /\ charge[t] = "REJECTED"
          /\ \/ Finalize(p, "ERROR", "PAYMENT_TOKEN_REJECTED")
             \/ Continue(p, "unknown", op[p])
          /\ NoFault
    /\ UNCHANGED <<storeVars, providerVars>>

-----------------------------------------------------------------------------
(* applyProviderObservation: acknowledge, then finalize a final outcome *)

Acknowledged(a) ==
    IF op[a].status = "PENDING" THEN Done(a) ELSE Finalize(a, op[a].status, "none")

AckRead(a) ==
    LET t == op[a].txn IN
    /\ At(a, "ack")
    /\ CASE IsPending(t) -> Continue(a, "acking", op[a])
         [] ~IsPending(t) /\ payment[t].providerId = t -> Acknowledged(a)
         [] OTHER -> Continue(a, "unknown", Working(t))
    /\ NoFault
    /\ UNCHANGED <<storeVars, providerVars>>

Acknowledge(a) ==
    LET t == op[a].txn IN
    /\ At(a, "acking")
    /\ \/ /\ AcknowledgeProviderWrite(t, t, op[a].status)
          /\ \/ Acknowledged(a) /\ NoFault
             \/ Fails(a)
       \/ /\ ~IsPending(t)
          /\ Acknowledged(a) /\ NoFault
          /\ UNCHANGED storeVars
    /\ UNCHANGED providerVars

MarkUnknownRead(a) ==
    /\ At(a, "unknown")
    /\ IF IsPending(op[a].txn) THEN Continue(a, "marking", op[a]) ELSE Done(a)
    /\ NoFault
    /\ UNCHANGED <<storeVars, providerVars>>

MarkUnknown(a) ==
    /\ At(a, "marking")
    /\ \/ /\ MarkUnknownWrite(op[a].txn)
          /\ \/ Done(a) /\ NoFault
             \/ Fails(a)
       \/ /\ ~IsPending(op[a].txn)
          /\ Done(a) /\ NoFault
          /\ UNCHANGED storeVars
    /\ UNCHANGED providerVars

-----------------------------------------------------------------------------
(* finalize *)

\* The payment turned out to be settled already: as this actor would have, or
\* otherwise.
AlreadySettled(a) ==
    IF payment[op[a].txn].paymentStatus = op[a].status
    THEN Done(a)
    ELSE Continue(a, "flag", [op[a] EXCEPT !.seen = SnapshotOf(op[a].txn)])

FinalizeRead(a) ==
    LET t == op[a].txn IN
    /\ At(a, "finalize")
    /\ IF ~IsPending(t) THEN AlreadySettled(a)
       ELSE IF FinalizeAdmits(SnapshotOf(t), op[a].status, ProviderStatusOf(op[a]), op[a].recovery)
       THEN Continue(a, "effects", [op[a] EXCEPT !.seen = SnapshotOf(t)])
       ELSE Failed(a)
    /\ NoFault
    /\ UNCHANGED <<storeVars, providerVars>>

\* Promise.all of the checkout and the reservation.
EffectsRead(a) ==
    LET t == op[a].txn
        details == checkout[payment[t].checkoutId].deliveryDetails
        approved == op[a].status = "APPROVED"
    IN
    /\ At(a, "effects")
    /\ CASE reservation[t] # "ACTIVE" /\ ~approved -> Failed(a)
         [] approved /\ (reservation[t] # "ACTIVE" \/ details = 0) ->
               Continue(a, "escalate", op[a])
         [] OTHER -> Continue(a, "settling", [op[a] EXCEPT !.destination = details])
    /\ NoFault
    /\ UNCHANGED <<storeVars, providerVars>>

SettleWrite(a) ==
    LET o == op[a] IN
    IF o.status = "APPROVED"
    THEN FinalizeApprovedWrite(o.txn, o.seen, o.destination)
    ELSE FinalizeFailureWrite(o.txn, o.seen, o.status, ProviderStatusOf(o), o.recovery)

Settle(a) ==
    /\ At(a, "settling")
    /\ SettleWrite(a)
    /\ \/ Done(a) /\ NoFault
       \/ Fails(a)
    /\ UNCHANGED providerVars

\* The transaction is cancelled: a settled payment is looked at first, then the
\* conditions that failed.
SettleCancelled(a) ==
    LET o == op[a]
        paymentMoved == ~FinalPaymentCondition(o.txn, o.seen, o.recovery)
        nothingHeld  == ~ReservationCondition(o.txn, o.status)
    IN
    /\ At(a, "settling")
    /\ paymentMoved \/ nothingHeld \/ ~OwnerRowsCondition(o.txn)
    /\ IF ~IsPending(o.txn) THEN AlreadySettled(a)
       ELSE IF ~paymentMoved /\ nothingHeld /\ o.status = "APPROVED"
       THEN Continue(a, "escalate", o)
       ELSE Failed(a)
    /\ NoFault
    /\ UNCHANGED <<storeVars, providerVars>>

Flag(a) ==
    /\ At(a, "flag")
    /\ RecordFinalConflictWrite(op[a].txn, op[a].seen.paymentStatus)
    /\ \/ Done(a) /\ NoFault
       \/ Fails(a)
    /\ UNCHANGED providerVars

Escalate(a) ==
    /\ At(a, "escalate")
    /\ \/ /\ RecordApprovedInventoryConflictWrite(op[a].txn)
          /\ \/ Done(a) /\ NoFault
             \/ Fails(a)
       \/ /\ ~(IsPending(op[a].txn) /\ OwnerRowsCondition(op[a].txn))
          /\ Done(a) /\ NoFault
          /\ UNCHANGED storeVars
    /\ UNCHANGED providerVars

-----------------------------------------------------------------------------
(* The scheduled worker: reconcileDue, with at most one run at a time *)

\* The query of the GSI that lists due payments, which may lag behind the table.
StartRun(candidates) ==
    /\ At(Worker, "idle")
    /\ candidates \subseteq Accepted
    /\ Cardinality(candidates) <= BatchSize
    /\ todo' = candidates
    /\ Goto(Worker, "claimDue")
    /\ NoFault
    /\ UNCHANGED <<storeVars, op, req, answer, claimed, reads, providerVars>>

\* The consistent read of one candidate.
ClaimDueRead(t) ==
    /\ At(Worker, "claimDue")
    /\ t \in todo
    /\ todo' = todo \ {t}
    /\ IF IsPending(t) /\ payment[t].due
       THEN /\ Goto(Worker, "claimDueWrite")
            /\ op' = [op EXCEPT ![Worker] = [Working(t) EXCEPT !.seen = SnapshotOf(t)]]
       ELSE UNCHANGED <<pc, op>>
    /\ NoFault
    /\ UNCHANGED <<storeVars, req, answer, claimed, reads, providerVars>>

ClaimDue ==
    LET t == op[Worker].txn
        phase == op[Worker].seen.dispatchPhase
    IN
    /\ At(Worker, "claimDueWrite")
    /\ \/ /\ ClaimDueWrite(t, phase)
          /\ \/ /\ claimed' = [claimed EXCEPT ![t] = [providerId    |-> payment[t].providerId,
                                                      dispatchPhase |-> payment'[t].dispatchPhase]]
                /\ op' = [op EXCEPT ![Worker] = NoOp]
                /\ Goto(Worker, "claimDue")
                /\ NoFault
                /\ UNCHANGED <<req, answer, todo, reads>>
             \/ Fails(Worker)
       \/ /\ ~(IsPending(t) /\ payment[t].due /\ payment[t].dispatchPhase = phase)
          /\ op' = [op EXCEPT ![Worker] = NoOp]
          /\ Goto(Worker, "claimDue")
          /\ NoFault
          /\ UNCHANGED <<storeVars, req, answer, todo, claimed, reads>>
    /\ UNCHANGED providerVars

ClaimedAll ==
    /\ At(Worker, "claimDue")
    /\ todo = {}
    /\ Goto(Worker, "batch")
    /\ NoFault
    /\ UNCHANGED <<storeVars, op, req, answer, workerVars, providerVars>>

\* The loop body takes up one claimed payment and goes on to its first await.
TakeUp(t, label, o) ==
    /\ claimed' = [claimed EXCEPT ![t] = NULL]
    /\ Goto(Worker, label)
    /\ op' = [op EXCEPT ![Worker] = o]
    /\ UNCHANGED <<storeVars, req, answer, todo, providerVars>>

\* faulty: every payment without a provider id is taken for unsent
ReconcileAsUnsent(t) ==
    /\ At(Worker, "batch")
    /\ claimed[t] # NULL
    /\ claimed[t].providerId = NULL
    /\ TakeUp(t, "finalize", [Working(t) EXCEPT !.status = "ERROR",
                                                !.recovery = "PROVIDER_NOT_SENT"])
    /\ NoFault
    /\ UNCHANGED reads

\* Never acknowledged: released when its dispatch was never claimed, otherwise
\* kept as unknown.
ReconcileUnsent(t) ==
    /\ At(Worker, "batch")
    /\ claimed[t] # NULL
    /\ claimed[t].providerId = NULL
    /\ IF claimed[t].dispatchPhase = "NOT_SENT_FAILED"
       THEN TakeUp(t, "finalize", [Working(t) EXCEPT !.status = "ERROR",
                                                     !.recovery = "PROVIDER_NOT_SENT"])
       ELSE TakeUp(t, "unknown", Working(t))
    /\ NoFault
    /\ UNCHANGED reads

\* faulty: the quota is not looked at
ReconcileReadAll(t) ==
    /\ At(Worker, "batch")
    /\ claimed[t] # NULL
    /\ claimed[t].providerId # NULL
    /\ reads' = reads + 1
    /\ \E status \in PaymentStatus :
          /\ ProviderAnswers(t, status)
          /\ TakeUp(t, "ack", [Working(t) EXCEPT !.status = status])

\* Acknowledged: read back by provider id, while the run's quota lasts.
ReconcileRead(t) ==
    /\ At(Worker, "batch")
    /\ claimed[t] # NULL
    /\ claimed[t].providerId # NULL
    /\ reads < ReadLimit
    /\ reads' = reads + 1
    /\ \/ \E status \in PaymentStatus :
             /\ ProviderAnswers(t, status)
             /\ TakeUp(t, "ack", [Working(t) EXCEPT !.status = status])
       \/ Fault /\ TakeUp(t, "unknown", Working(t))

OverQuota(t) ==
    /\ At(Worker, "batch")
    /\ claimed[t] # NULL
    /\ claimed[t].providerId # NULL
    /\ reads >= ReadLimit
    /\ TakeUp(t, "batch", NoOp)
    /\ NoFault
    /\ UNCHANGED reads

RunEnds ==
    /\ At(Worker, "batch")
    /\ \A t \in Txns : claimed[t] = NULL
    /\ EndRun
    /\ NoFault
    /\ UNCHANGED <<storeVars, providerVars>>

-----------------------------------------------------------------------------
(* The provider, the clock, the buyer's other tab and the platform *)

ReceivePost(t) ==
    /\ charge[t] = "INFLIGHT"
    /\ \E status \in {"PENDING", "REJECTED"} : charge' = [charge EXCEPT ![t] = status]
    /\ UNCHANGED <<storeVars, serviceVars, workerVars, posts, faults>>

DecideCharge(t) ==
    /\ \/ /\ charge[t] = "PENDING"
          /\ \E status \in ProviderOutcomes : charge' = [charge EXCEPT ![t] = status]
       \/ /\ charge[t] = "APPROVED"
          /\ "VOIDED" \in ProviderOutcomes
          /\ charge' = [charge EXCEPT ![t] = "REVERSED"]
    /\ UNCHANGED <<storeVars, serviceVars, workerVars, posts, faults>>

Clock(t) ==
    /\ BecomesDue(t)
    /\ UNCHANGED <<serviceVars, workerVars, providerVars, faults>>

EditDetails(c) ==
    /\ checkout[c] # NULL
    /\ ReplaceDeliveryDetailsWrite(c, checkout[c].version, checkout[c].customer # 0)
    /\ UNCHANGED <<serviceVars, workerVars, providerVars, faults>>

RequestFails(a) == Fails(a) /\ UNCHANGED <<storeVars, providerVars>>

\* The Lambda is stopped at an await.
Stop(a) ==
    /\ pc[a] \notin {"idle", "answered", "refused", "stopped"}
    /\ Fault
    /\ IF a = Worker
       THEN EndRun
       ELSE /\ Goto(a, "stopped")
            /\ op' = [op EXCEPT ![a] = NoOp]
            /\ UNCHANGED <<req, answer, workerVars>>
    /\ UNCHANGED <<storeVars, providerVars>>

Invocation(p) ==
    \/ \E c \in Checkouts, k \in Keys, v \in Version : Submit(p, c, k, v)
    \/ Replay(p) \/ Refuse(p) \/ Proceed(p) \/ Prepare(p) \/ PrepareCancelled(p)
    \/ ClaimRead(p) \/ ClaimDispatch(p) \/ DoNotPost(p) \/ Post(p) \/ PostAnswered(p)

\* What both an invocation and the worker do with an outcome.
Apply(a) ==
    \/ AckRead(a) \/ Acknowledge(a) \/ MarkUnknownRead(a) \/ MarkUnknown(a)
    \/ FinalizeRead(a) \/ EffectsRead(a) \/ Settle(a) \/ SettleCancelled(a)
    \/ Flag(a) \/ Escalate(a)

ReconcileStep ==
    \/ \E t \in Txns : ClaimDueRead(t)
    \/ ClaimDue
    \/ ClaimedAll
    \/ \E t \in Txns : ReconcileUnsent(t) \/ ReconcileRead(t) \/ OverQuota(t)
    \/ RunEnds

Reconcile == ReconcileStep \/ \E candidates \in SUBSET Txns : StartRun(candidates)

Environment ==
    \/ \E t \in Txns : ReceivePost(t) \/ DecideCharge(t) \/ Clock(t)
    \/ \E c \in Checkouts : EditDetails(c)
    \/ \E a \in Actors : RequestFails(a) \/ Stop(a)

Next ==
    \/ \E p \in Txns : Invocation(p)
    \/ \E a \in Actors : Apply(a)
    \/ Reconcile
    \/ Environment

Spec == Init /\ [][Next]_vars

\* The schedule keeps starting the worker, whose index lists every payment again
\* and again; a started run goes on, and time passes.  Nothing is assumed of the
\* invocations, which may stop for ever, nor of the buyer or the provider.
Fairness ==
    /\ WF_vars(ReconcileStep \/ Apply(Worker))
    /\ \A t \in Txns : WF_vars(Clock(t))
    /\ \A t \in Txns : SF_vars(\E candidates \in SUBSET Txns :
                                   t \in candidates /\ StartRun(candidates))

FairSpec == Spec /\ Fairness

-----------------------------------------------------------------------------
(* Properties *)

ServiceTypeOK ==
    /\ TypeOK
    /\ pc \in [Actors -> {"idle", "lookup", "prepare", "preparing", "cancelled", "claim",
                          "claiming", "create", "posted", "ack", "acking", "unknown", "marking",
                          "finalize", "effects", "settling", "flag", "escalate", "answered",
                          "refused", "stopped", "claimDue", "claimDueWrite", "batch"}]
    /\ op \in [Actors -> [txn : Txns \cup {NULL}, seen : Snapshot \cup {NULL},
                          status : PaymentStatus, recovery : RecoveryCode,
                          destination : Version]]
    /\ answer \in [Txns -> Txns \cup {NULL}]
    /\ todo \subseteq Txns
    /\ reads \in 0 .. ReadLimit
    /\ charge \in [Txns -> ChargeStatus]
    /\ posts \in [Txns -> 0 .. 2]
    /\ faults \in 0 .. MaxFaults

\* The provider is asked for money at most once per payment, whatever is
\* retried, replayed, stopped half-way or reconciled.
SingleSend == \A t \in Txns : posts[t] <= 1

\* "Never sent" is never a guess: a payment given up as unsent, or about to be,
\* has not reached the provider and never will.
UnsentIsUncharged ==
    \A t \in Accepted :
        \/ payment[t].dispatchPhase \in {"NOT_SENT", "NOT_SENT_FAILED"}
        \/ payment[t].recoveryCode = "PROVIDER_NOT_SENT"
        => posts[t] = 0 /\ charge[t] = "NONE"

\* A settled payment carries an outcome the provider did give for this charge,
\* even when late, lost or contradicting answers reach several actors.
FinalStatusWasReported ==
    \A t \in Accepted :
        LET status == payment[t].paymentStatus IN
        /\ status = "APPROVED" => charge[t] \in {"APPROVED", "REVERSED"}
        /\ status = "DECLINED" => charge[t] = "DECLINED"
        /\ status = "VOIDED"   => charge[t] \in {"VOIDED", "REVERSED"}
        /\ status = "ERROR"    => charge[t] \in {"ERROR", "REJECTED", "NONE"}

\* A buyer told START_NEW_CHECKOUT is not about to pay twice: the old charge is
\* over, and nobody is about to send it.
SafeToBuyAgain ==
    \A t \in Accepted :
        "START_NEW_CHECKOUT" \in AllowedActionsFor(payment[t]) =>
            /\ charge[t] \notin {"INFLIGHT", "PENDING", "APPROVED"}
            /\ \A p \in Txns : ~(op[p].txn = t /\ pc[p] = "create")

\* Every 202 the submissions of one checkout ever get names the same payment,
\* the one the checkout is locked by.
AnswersAgree ==
    \A p \in Txns :
        answer[p] # NULL =>
            /\ payment[answer[p]] # NULL
            /\ payment[answer[p]].checkoutId = req[p].checkoutId
            /\ checkout[req[p].checkoutId].activeTransactionId = answer[p]

\* A parcel goes to the address the buyer submitted: a draft edit from another
\* tab, however it interleaves, never redirects an accepted payment.
ShippedAsSubmitted ==
    \A t \in Accepted :
        delivery[t] # 0 =>
            delivery[t] <= idempotency[payment[t].checkoutId][payment[t].idempotencyKeyHash].semanticHash

\* The service is a client of the store: all its writes are the store's, with
\* arguments finalize's own checks have let through, so that everything shown
\* of PaymentStore holds here too.
UsesStore == StoreSpec

\* A charge the backend knows by its provider id and the provider has decided is
\* settled in the end, whichever invocations stopped half-way.
DecidedIsSettled ==
    \A t \in Txns :
        (/\ t \in Accepted
         /\ payment[t].providerId # NULL
         /\ charge[t] \in FinalStatus \cup {"REVERSED"})
        ~> (t \in Accepted /\ IsTerminalPayment(payment[t].paymentStatus))

\* An accepted payment nobody claims the dispatch of does not hold its unit for
\* ever: it is sent, or released.
UnsentIsReleased ==
    \A t \in Txns :
        (IsPending(t) /\ payment[t].dispatchPhase \in {"NOT_SENT", "NOT_SENT_FAILED"})
        ~> (t \in Accepted /\ \/ payment[t].dispatchPhase = "SENDING"
                              \/ reservation[t] = "RELEASED")

-----------------------------------------------------------------------------
(* What the design document says and the code does not keep *)

\* PAY-T06 and FAL-17 of the design: the inventory conflict is for an approval
\* that finds no reservation to consume.  finalize also records it when its read
\* of the checkout or of the reservation merely fails.
ConflictOnlyWithoutReservation ==
    \A t \in Accepted :
        payment[t].integrityStatus = "APPROVED_INVENTORY_CONFLICT" => reservation[t] # "ACTIVE"

\* TXN-06 of the design, with DSP-T04 and DSP-T07: a payment becomes UNKNOWN from
\* SENDING, or stays UNKNOWN.  markUnknown asks only for a pending payment, so an
\* acknowledged one whose read-back fails becomes UNKNOWN too.
UnknownOnlyFromSending ==
    [][\A t \in Accepted :
          payment'[t].dispatchPhase = "UNKNOWN"
            => payment[t].dispatchPhase \in {"SENDING", "UNKNOWN"}]_vars
=============================================================================
