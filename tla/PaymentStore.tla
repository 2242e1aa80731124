---------------------------- MODULE PaymentStore ----------------------------
(***************************************************************************)
(* The durable state of the backend and every conditional write the        *)
(* DynamoDB repository sends to it                                         *)
(* (dynamodb-checkout.repository.ts).  A row is an element of a function,  *)
(* an action is one UpdateItem or one TransactWriteItems: its guard is the *)
(* write's ConditionExpression, and all its items change together or not   *)
(* at all.  A write whose condition fails changes nothing and is no step   *)
(* of this module; what the caller does then is in CheckoutPayment.        *)
(*                                                                         *)
(* StoreSpec is the store under its most general client: any write, in any *)
(* order, with any arguments the repository's own early returns let        *)
(* through.  What holds here holds whatever the service on top does.       *)
(*                                                                         *)
(* One product row: a checkout never touches another product's row.        *)
(* TRANSACTION lock rows are written with their payment and never change,  *)
(* so payment[t] # NULL stands for both.  Clocks: due says that a payment's*)
(* nextCheckAt (and its leaseUntil, which is never later) is in the past.  *)
(***************************************************************************)
EXTENDS Integers, FiniteSets, CheckoutDomain

CONSTANTS Checkouts,    \* checkout sessions
          Txns,         \* transaction ids, one per accepted submission
          Keys,         \* Idempotency-Key values
          ProviderIds,  \* transaction ids the payment provider hands out
          Stock,        \* onHand the catalog was seeded with
          MaxVersion,   \* bound: drafts are edited only below this version
          NULL          \* an absent row or attribute

ASSUME StockAssumption == Stock \in Nat
ASSUME VersionAssumption == MaxVersion \in Nat /\ MaxVersion >= 3
ASSUME TxnsAssumption == IsFiniteSet(Txns) /\ NULL \notin Txns
ASSUME ProviderIdsAssumption == NULL \notin ProviderIds

VARIABLES product,       \* the product's inventory row
          checkout,      \* checkout[c]: META, CUSTOMER and DELIVERY_DETAILS rows
          payment,       \* payment[t]: the PAYMENT row
          reservation,   \* reservation[t]: the RESERVATION row's status
          delivery,      \* delivery[t]: the DELIVERY row, as the version of
                         \* the details it was addressed with; 0 = no row
          idempotency,   \* idempotency[c][k]: the IDEMPOTENCY row
          providerLock   \* providerLock[i]: the transaction a PROVIDER lock names

storeVars == <<product, checkout, payment, reservation, delivery, idempotency, providerLock>>

-----------------------------------------------------------------------------
(* Row types *)

Version == 0 .. MaxVersion + 1   \* 0: that part of the checkout is absent

Product == [onHand : Nat, reserved : Nat, available : Int]

Checkout == [status : CheckoutStatus, version : Version,
             activeTransactionId : Txns \cup {NULL},
             customer : Version, deliveryDetails : Version]

Payment == [checkoutId : Checkouts, idempotencyKeyHash : Keys,
            paymentStatus : PaymentStatus, dispatchPhase : DispatchPhase,
            providerId : ProviderIds \cup {NULL}, providerStatus : ProviderStatus,
            reservationStatus : ReservationStatus, integrityStatus : IntegrityStatus,
            recoveryCode : RecoveryCode, hasDelivery : BOOLEAN,
            effectsApplied : BOOLEAN, due : BOOLEAN]

\* semanticHash covers the request's If-Match version and its body; two
\* requests with one key differ exactly when their hashes do.
Idempotency == [transactionId : Txns, semanticHash : Version, status : {"IN_PROGRESS", "FINAL"}]

\* No row is mistaken for an absent one.
ASSUME NullAssumption == NULL \notin Checkout /\ NULL \notin Payment /\ NULL \notin Idempotency

\* The fields of a payment a reader carries from its read to its write.
Snapshot == [paymentStatus : PaymentStatus, dispatchPhase : DispatchPhase,
             providerId : ProviderIds \cup {NULL}, providerStatus : ProviderStatus]

SnapshotOf(t) == [paymentStatus  |-> payment[t].paymentStatus,
                  dispatchPhase  |-> payment[t].dispatchPhase,
                  providerId     |-> payment[t].providerId,
                  providerStatus |-> payment[t].providerStatus]

Accepted == {t \in Txns : payment[t] # NULL}

IsPending(t) == payment[t] # NULL /\ payment[t].paymentStatus = "PENDING"

\* A draft with both halves filled in: created at 1, customer at 2, details at 3.
ReadyDraft == [status |-> "READY", version |-> 3, activeTransactionId |-> NULL,
               customer |-> 2, deliveryDetails |-> 3]

StoreInit ==
    /\ product = [onHand |-> Stock, reserved |-> 0, available |-> Stock]
    /\ checkout \in [Checkouts -> {NULL, ReadyDraft}]
    /\ payment = [t \in Txns |-> NULL]
    /\ reservation = [t \in Txns |-> "NONE"]
    /\ delivery = [t \in Txns |-> 0]
    /\ idempotency = [c \in Checkouts |-> [k \in Keys |-> NULL]]
    /\ providerLock = [i \in ProviderIds |-> NULL]

-----------------------------------------------------------------------------
(* Drafting a checkout *)

CreateWrite(c) ==
    /\ checkout[c] = NULL
    /\ checkout' = [checkout EXCEPT ![c] =
          [status |-> "DRAFT", version |-> 1, activeTransactionId |-> NULL,
           customer |-> 0, deliveryDetails |-> 0]]
    /\ UNCHANGED <<product, payment, reservation, delivery, idempotency, providerLock>>

\* faulty: the version without the payment lock, and the lock without the version
CheckoutIsUnlocked(c, expectedVersion) ==
    /\ checkout[c] # NULL
    /\ checkout[c].activeTransactionId = NULL

CheckoutIsAtVersion(c, expectedVersion) ==
    /\ checkout[c] # NULL
    /\ checkout[c].version = expectedVersion

\* The compare-and-set both PUTs and the submission make on the META row.
CheckoutIsAt(c, expectedVersion) ==
    /\ checkout[c] # NULL
    /\ checkout[c].version = expectedVersion
    /\ checkout[c].activeTransactionId = NULL

\* hasDetails is what the PUT's own earlier read of the checkout showed.
ReplaceCustomerWrite(c, expectedVersion, hasDetails) ==
    /\ expectedVersion < MaxVersion
    /\ CheckoutIsAt(c, expectedVersion)
    /\ checkout' = [checkout EXCEPT ![c] =
          [@ EXCEPT !.version = expectedVersion + 1,
                    !.customer = expectedVersion + 1,
                    !.status = IF hasDetails THEN "READY" ELSE "DRAFT"]]
    /\ UNCHANGED <<product, payment, reservation, delivery, idempotency, providerLock>>

ReplaceDeliveryDetailsWrite(c, expectedVersion, hasCustomer) ==
    /\ expectedVersion < MaxVersion
    /\ CheckoutIsAt(c, expectedVersion)
    /\ checkout' = [checkout EXCEPT ![c] =
          [@ EXCEPT !.version = expectedVersion + 1,
                    !.deliveryDetails = expectedVersion + 1,
                    !.status = IF hasCustomer THEN "READY" ELSE "DRAFT"]]
    /\ UNCHANGED <<product, payment, reservation, delivery, idempotency, providerLock>>

-----------------------------------------------------------------------------
(* Accepting and dispatching a payment *)

HasStockOnHand == product.onHand >= 1  \* faulty: counts reserved units too
HasStock == product.available >= 1 /\ product.reserved < product.onHand

\* The IDEMPOTENCY row that binds key k of checkout c to payment t.
ForgetKey(c, k, t, hash) == UNCHANGED idempotency  \* faulty: left out of the transaction
RememberKey(c, k, t, hash) ==
    idempotency' = [idempotency EXCEPT ![c][k] =
        [transactionId |-> t, semanticHash |-> hash, status |-> "IN_PROGRESS"]]

PreparePaymentWrite(c, k, t, expectedVersion) ==
    /\ HasStock
    /\ CheckoutIsAt(c, expectedVersion)
    /\ payment[t] = NULL
    /\ reservation[t] = "NONE"
    /\ idempotency[c][k] = NULL
    /\ product' = [product EXCEPT !.reserved = @ + 1, !.available = @ - 1]
    /\ checkout' = [checkout EXCEPT ![c] =
          [@ EXCEPT !.status = "PAYMENT_PENDING", !.version = expectedVersion + 1,
                    !.activeTransactionId = t]]
    /\ payment' = [payment EXCEPT ![t] =
          [checkoutId |-> c, idempotencyKeyHash |-> k,
           paymentStatus |-> "PENDING", dispatchPhase |-> "NOT_SENT",
           providerId |-> NULL, providerStatus |-> "none",
           reservationStatus |-> "ACTIVE", integrityStatus |-> "OK",
           recoveryCode |-> "none", hasDelivery |-> FALSE,
           effectsApplied |-> FALSE, due |-> FALSE]]
    /\ reservation' = [reservation EXCEPT ![t] = "ACTIVE"]
    /\ RememberKey(c, k, t, expectedVersion)
    /\ UNCHANGED <<delivery, providerLock>>

\* faulty: any pending payment may be claimed
ClaimDispatchAgain(t) ==
    /\ IsPending(t)
    /\ payment' = [payment EXCEPT ![t] =
          [@ EXCEPT !.dispatchPhase = "SENDING", !.due = FALSE]]
    /\ UNCHANGED <<product, checkout, reservation, delivery, idempotency, providerLock>>

ClaimDispatchWrite(t) ==
    /\ IsPending(t)
    /\ payment[t].dispatchPhase = "NOT_SENT"
    /\ payment' = [payment EXCEPT ![t] =
          [@ EXCEPT !.dispatchPhase = "SENDING", !.due = FALSE]]
    /\ UNCHANGED <<product, checkout, reservation, delivery, idempotency, providerLock>>

\* The PROVIDER lock row is absent, or this payment's own.
LockIgnored(t, id) == TRUE  \* faulty: the lock is overwritten
LockIsFree(t, id) == providerLock[id] \in {NULL, t}

\* The payment row knows no other provider transaction.
FirstIdOnly(t, id) == payment[t].providerId = NULL  \* faulty: acknowledged only once
IdAgrees(t, id) == payment[t].providerId \in {NULL, id}

AcknowledgeProviderWrite(t, id, status) ==
    /\ IsPending(t)
    /\ IdAgrees(t, id)
    /\ LockIsFree(t, id)
    /\ payment' = [payment EXCEPT ![t] =
          [@ EXCEPT !.providerId = id, !.providerStatus = status,
                    !.dispatchPhase = "ACKNOWLEDGED", !.due = FALSE]]
    /\ providerLock' = [providerLock EXCEPT ![id] = t]
    /\ UNCHANGED <<product, checkout, reservation, delivery, idempotency>>

MarkUnknownWrite(t) ==
    /\ IsPending(t)
    /\ payment' = [payment EXCEPT ![t] =
          [@ EXCEPT !.dispatchPhase = "UNKNOWN",
                    !.recoveryCode = "PROVIDER_OUTCOME_UNKNOWN", !.due = FALSE]]
    /\ UNCHANGED <<product, checkout, reservation, delivery, idempotency, providerLock>>

\* What a claim makes of the phase: unclaimed dispatches are given up.
KeptPhase(phase) == phase  \* faulty: an unclaimed dispatch stays claimable
GivenUpPhase(phase) ==  \* faulty: a dispatch under way is given up too
    IF phase \in {"NOT_SENT", "SENDING"} THEN "NOT_SENT_FAILED" ELSE phase
ClaimedPhase(phase) == IF phase = "NOT_SENT" THEN "NOT_SENT_FAILED" ELSE phase

\* The worker's claim: expectedPhase is the phase its consistent read showed.
ClaimDueWrite(t, expectedPhase) ==
    /\ IsPending(t)
    /\ payment[t].dispatchPhase = expectedPhase
    /\ payment[t].due
    /\ payment' = [payment EXCEPT ![t] =
          [@ EXCEPT !.dispatchPhase = ClaimedPhase(expectedPhase), !.due = FALSE]]
    /\ UNCHANGED <<product, checkout, reservation, delivery, idempotency, providerLock>>

\* The clock passes the payment's nextCheckAt and its lease.
BecomesDue(t) ==
    /\ IsPending(t)
    /\ ~payment[t].due
    /\ payment' = [payment EXCEPT ![t] = [@ EXCEPT !.due = TRUE]]
    /\ UNCHANGED <<product, checkout, reservation, delivery, idempotency, providerLock>>

-----------------------------------------------------------------------------
(* Settling a payment *)

\* finalize's own checks of the payment it has read as PENDING: what proof the
\* recovery code demands before any effect is attempted.
FinalizeAdmitsUnproven(seen, status, providerStatus, recovery) ==  \* faulty: no proof
    recovery = "none" => providerStatus = status

FinalizeAdmits(seen, status, providerStatus, recovery) ==
    /\ recovery = "PROVIDER_NOT_SENT" =>
          /\ status = "ERROR"
          /\ providerStatus = "none"
          /\ seen.providerId = NULL
          /\ seen.dispatchPhase \in {"SENDING", "NOT_SENT_FAILED"}
    /\ recovery = "none" =>
          /\ providerStatus = status
          /\ seen.providerStatus = providerStatus
          /\ seen.providerId # NULL
          /\ seen.dispatchPhase = "ACKNOWLEDGED"

\* faulty: a settled payment may be settled again
SettledPaymentCondition(t, seen, recovery) ==
    /\ payment[t].reservationStatus = "ACTIVE"
    /\ ~payment[t].effectsApplied

\* The condition finalPaymentUpdate puts on the PAYMENT row, against the
\* snapshot finalize read.
FinalPaymentCondition(t, seen, recovery) ==
    /\ IsPending(t)
    /\ payment[t].reservationStatus = "ACTIVE"
    /\ ~payment[t].effectsApplied
    /\ recovery \in {"none", "PROVIDER_NOT_SENT"} =>
          payment[t].dispatchPhase = seen.dispatchPhase
    /\ recovery = "none" =>
          /\ payment[t].providerId = seen.providerId
          /\ payment[t].providerStatus = seen.providerStatus

\* checkoutFinalUpdate and idempotencyFinalUpdate: their conditions, and the
\* rows they leave.
OwnerRowsCondition(t) ==
    LET p == payment[t] IN
    /\ checkout[p.checkoutId] # NULL
    /\ checkout[p.checkoutId].activeTransactionId = t
    /\ idempotency[p.checkoutId][p.idempotencyKeyHash] # NULL
    /\ idempotency[p.checkoutId][p.idempotencyKeyHash].transactionId = t

\* faulty: the idempotency row stays IN_PROGRESS
CloseCheckoutOnly(t, status) ==
    /\ checkout' = [checkout EXCEPT ![payment[t].checkoutId].status =
          CheckoutStatusForPayment(status)]
    /\ UNCHANGED idempotency

CloseOwnerRows(t, status) ==
    LET p == payment[t] IN
    /\ checkout' = [checkout EXCEPT ![p.checkoutId].status = CheckoutStatusForPayment(status)]
    /\ idempotency' = [idempotency EXCEPT ![p.checkoutId][p.idempotencyKeyHash].status = "FINAL"]

\* The conditions on the RESERVATION row and on the product row, which the two
\* settling transactions differ in.
ReservationCondition(t, status) ==
    /\ reservation[t] = "ACTIVE"
    /\ product.reserved >= 1
    /\ status = "APPROVED" => product.onHand >= 1

\* destination: the version of the delivery details finalize read.
FinalizeApprovedWrite(t, seen, destination) ==
    /\ FinalPaymentCondition(t, seen, "none")
    /\ ReservationCondition(t, "APPROVED")
    /\ OwnerRowsCondition(t)
    /\ payment' = [payment EXCEPT ![t] =
          [@ EXCEPT !.paymentStatus = "APPROVED", !.providerStatus = "APPROVED",
                    !.dispatchPhase = "ACKNOWLEDGED", !.reservationStatus = "CONSUMED",
                    !.integrityStatus = "OK", !.effectsApplied = TRUE,
                    !.hasDelivery = TRUE, !.recoveryCode = "none", !.due = FALSE]]
    /\ reservation' = [reservation EXCEPT ![t] = "CONSUMED"]
    /\ product' = [product EXCEPT !.onHand = @ - 1, !.reserved = @ - 1]
    /\ delivery' = [delivery EXCEPT ![t] = destination]
    /\ CloseOwnerRows(t, "APPROVED")
    /\ UNCHANGED providerLock

FinalizeFailureWrite(t, seen, status, providerStatus, recovery) ==
    /\ FinalPaymentCondition(t, seen, recovery)
    /\ ReservationCondition(t, status)
    /\ OwnerRowsCondition(t)
    /\ payment' = [payment EXCEPT ![t] =
          [@ EXCEPT !.paymentStatus = status, !.providerStatus = providerStatus,
                    !.dispatchPhase = IF recovery = "PROVIDER_NOT_SENT"
                                      THEN "NOT_SENT_FAILED" ELSE "ACKNOWLEDGED",
                    !.reservationStatus = "RELEASED", !.integrityStatus = "OK",
                    !.effectsApplied = TRUE, !.recoveryCode = recovery, !.due = FALSE]]
    /\ reservation' = [reservation EXCEPT ![t] = "RELEASED"]
    /\ product' = [product EXCEPT !.reserved = @ - 1, !.available = @ + 1]
    /\ CloseOwnerRows(t, status)
    /\ UNCHANGED <<delivery, providerLock>>

\* faulty: the unit of an approved payment goes back on sale
ReleaseApprovedWrite(t) ==
    /\ IsPending(t)
    /\ OwnerRowsCondition(t)
    /\ payment' = [payment EXCEPT ![t] =
          [@ EXCEPT !.paymentStatus = "APPROVED", !.reservationStatus = "RELEASED",
                    !.integrityStatus = "APPROVED_INVENTORY_CONFLICT"]]
    /\ reservation' = [reservation EXCEPT ![t] = "RELEASED"]
    /\ product' = [product EXCEPT !.reserved = @ - 1, !.available = @ + 1]
    /\ CloseOwnerRows(t, "APPROVED")
    /\ UNCHANGED <<delivery, providerLock>>

\* Approved without a reservation to consume or details to ship to: the outcome
\* is recorded, none of its effects is.
RecordApprovedInventoryConflictWrite(t) ==
    /\ IsPending(t)
    /\ OwnerRowsCondition(t)
    /\ payment' = [payment EXCEPT ![t] =
          [@ EXCEPT !.paymentStatus = "APPROVED", !.providerStatus = "APPROVED",
                    !.dispatchPhase = "ACKNOWLEDGED",
                    !.integrityStatus = "APPROVED_INVENTORY_CONFLICT",
                    !.recoveryCode = "STATE_TRANSITION_CONFLICT", !.due = FALSE]]
    /\ CloseOwnerRows(t, "APPROVED")
    /\ UNCHANGED <<product, reservation, delivery, providerLock>>

\* A second, different outcome for a settled payment: flagged, never applied.
RecordFinalConflictWrite(t, currentStatus) ==
    /\ payment[t] # NULL
    /\ payment[t].paymentStatus = currentStatus
    /\ payment' = [payment EXCEPT ![t] =
          [@ EXCEPT !.integrityStatus = "FINAL_STATE_CONFLICT",
                    !.recoveryCode = "STATE_TRANSITION_CONFLICT"]]
    /\ UNCHANGED <<product, checkout, reservation, delivery, idempotency, providerLock>>

-----------------------------------------------------------------------------
(* The most general client *)

DraftStep ==
    \/ \E c \in Checkouts : CreateWrite(c)
    \/ \E c \in Checkouts, v \in Version, other \in BOOLEAN :
          ReplaceCustomerWrite(c, v, other)
    \/ \E c \in Checkouts, v \in Version, other \in BOOLEAN :
          ReplaceDeliveryDetailsWrite(c, v, other)

DispatchStep ==
    \/ \E c \in Checkouts, k \in Keys, t \in Txns, v \in Version :
          PreparePaymentWrite(c, k, t, v)
    \/ \E t \in Txns : ClaimDispatchWrite(t)
    \/ \E t \in Txns, id \in ProviderIds, status \in PaymentStatus :
          AcknowledgeProviderWrite(t, id, status)
    \/ \E t \in Txns : MarkUnknownWrite(t)
    \/ \E t \in Txns, phase \in DispatchPhase : ClaimDueWrite(t, phase)
    \/ \E t \in Txns : BecomesDue(t)

\* The snapshots FinalizeAdmits lets through, up to the fields no later
\* condition compares: acknowledged with the outcome, or never sent.
AcknowledgedAs(id, status) ==
    [paymentStatus |-> "PENDING", dispatchPhase |-> "ACKNOWLEDGED",
     providerId |-> id, providerStatus |-> status]

UnsentIn(phase) ==
    [paymentStatus |-> "PENDING", dispatchPhase |-> phase,
     providerId |-> NULL, providerStatus |-> "none"]

SettleStep ==
    \/ \E t \in Accepted, id \in ProviderIds, destination \in Version \ {0} :
          FinalizeApprovedWrite(t, AcknowledgedAs(id, "APPROVED"), destination)
    \/ \E t \in Accepted, id \in ProviderIds, status \in FailureStatus :
          FinalizeFailureWrite(t, AcknowledgedAs(id, status), status, status, "none")
    \/ \E t \in Accepted, phase \in {"SENDING", "NOT_SENT_FAILED"} :
          FinalizeFailureWrite(t, UnsentIn(phase), "ERROR", "none", "PROVIDER_NOT_SENT")
    \/ \E t \in Accepted :
          FinalizeFailureWrite(t, SnapshotOf(t), "ERROR", "ERROR", "PAYMENT_TOKEN_REJECTED")
    \/ \E t \in Accepted : RecordApprovedInventoryConflictWrite(t)
    \/ \E t \in Accepted, status \in FinalStatus : RecordFinalConflictWrite(t, status)

StoreNext == DraftStep \/ DispatchStep \/ SettleStep

StoreSpec == StoreInit /\ [][StoreNext]_storeVars

-----------------------------------------------------------------------------
(* Properties *)

\* Every row has the shape its reader's type guard accepts.
TypeOK ==
    /\ product \in Product
    /\ checkout \in [Checkouts -> Checkout \cup {NULL}]
    /\ payment \in [Txns -> Payment \cup {NULL}]
    /\ reservation \in [Txns -> ReservationStatus]
    /\ delivery \in [Txns -> Version]
    /\ idempotency \in [Checkouts -> [Keys -> Idempotency \cup {NULL}]]
    /\ providerLock \in [ProviderIds -> Txns \cup {NULL}]

Active   == {t \in Txns : reservation[t] = "ACTIVE"}
Consumed == {t \in Txns : reservation[t] = "CONSUMED"}

\* The three counters of the product row, each moved by separate conditional
\* writes of different transactions, agree with the reservation rows: available
\* is onHand - reserved and never negative, every reserved unit has exactly one
\* ACTIVE reservation and every unit gone exactly one CONSUMED one, so no
\* interleaving oversells the product or leaks a unit.
InventoryMatchesReservations ==
    /\ product.available = product.onHand - product.reserved
    /\ product.available >= 0
    /\ product.reserved = Cardinality(Active)
    /\ product.onHand + Cardinality(Consumed) = Stock

\* A checkout has at most one payment, and it is the one its META row names:
\* two submissions with different keys or stale ETags cannot both be accepted.
OnePaymentPerCheckout ==
    \A t \in Txns : payment[t] # NULL =>
        /\ checkout[payment[t].checkoutId] # NULL
        /\ checkout[payment[t].checkoutId].activeTransactionId = t

\* The settlement of a payment is the same in all the tables it is spread over:
\* the reservation, the inventory flag, the delivery, the checkout's status and
\* the idempotency row tell the same story as the PAYMENT row.
SettledTogether ==
    \A t \in Txns : payment[t] # NULL =>
        LET p == payment[t] IN
        /\ p.reservationStatus = reservation[t]
        /\ p.effectsApplied <=> reservation[t] \in {"CONSUMED", "RELEASED"}
        /\ p.hasDelivery <=> delivery[t] # 0
        /\ delivery[t] # 0 <=> reservation[t] = "CONSUMED"
        /\ reservation[t] = "CONSUMED" => p.paymentStatus = "APPROVED"
        /\ p.paymentStatus \in FailureStatus <=> reservation[t] = "RELEASED"
        /\ checkout[p.checkoutId] # NULL =>
              checkout[p.checkoutId].status = CheckoutStatusForPayment(p.paymentStatus)
        /\ idempotency[p.checkoutId][p.idempotencyKeyHash] # NULL =>
              (idempotency[p.checkoutId][p.idempotencyKeyHash].status = "FINAL"
                 <=> IsTerminalPayment(p.paymentStatus))

\* A replayed key finds the payment it was first used for, and only that one.
KeyNamesItsPayment ==
    \A c \in Checkouts, k \in Keys, t \in Txns :
        (idempotency[c][k] # NULL /\ idempotency[c][k].transactionId = t)
          <=> /\ payment[t] # NULL
              /\ payment[t].checkoutId = c
              /\ payment[t].idempotencyKeyHash = k

\* No two payments are ever attributed to one provider transaction.
ProviderIdNamesOnePayment ==
    \A t, u \in Accepted :
        /\ payment[t].providerId # NULL
        /\ payment[t].providerId = payment[u].providerId
        => t = u

\* Before an acknowledgement no payment knows a provider id, so "never sent"
\* can be concluded from the dispatch phase alone.
UnsentHasNoProviderId ==
    \A t \in Accepted :
        payment[t].dispatchPhase \in {"NOT_SENT", "SENDING", "NOT_SENT_FAILED"}
          => payment[t].providerId = NULL

\* A settled payment keeps its status, its effects and its checkout for ever,
\* and an accepted payment is never forgotten: late outcomes may only flag it.
SettlementIsFinal ==
    [][\A t \in Txns :
          payment[t] # NULL =>
            /\ payment'[t] # NULL
            /\ payment'[t].checkoutId = payment[t].checkoutId
            /\ IsTerminalPayment(payment[t].paymentStatus) =>
                 /\ payment'[t].paymentStatus = payment[t].paymentStatus
                 /\ reservation'[t] = reservation[t]
                 /\ delivery'[t] = delivery[t]
                 /\ checkout'[payment[t].checkoutId] = checkout[payment[t].checkoutId]
      ]_storeVars

-----------------------------------------------------------------------------
(* Refinement *)

OutcomeOf(t) ==
    CASE payment[t] = NULL                    -> "none"
      [] /\ payment[t] # NULL
         /\ payment[t].paymentStatus = "PENDING" -> "pending"
      [] /\ payment[t] # NULL
         /\ payment[t].paymentStatus = "APPROVED"
         /\ payment[t].effectsApplied          -> "sold"
      [] /\ payment[t] # NULL
         /\ payment[t].paymentStatus = "APPROVED"
         /\ ~payment[t].effectsApplied         -> "review"
      [] OTHER                                -> "failed"

Promise == INSTANCE PaymentPromise WITH
    free    <- product.available,
    attempt <- [c \in Checkouts |->
                  IF checkout[c] = NULL THEN NULL ELSE checkout[c].activeTransactionId],
    outcome <- [t \in Txns |-> OutcomeOf(t)],
    shipped <- {t \in Txns : delivery[t] # 0}

\* The store implements PaymentPromise: each of its writes accepts, sells,
\* fails or escalates one payment in one step, or changes nothing promised.
KeepsPromise == Promise!PromiseSpec
=============================================================================
