---------------------------- MODULE InMemoryStore ----------------------------
(***************************************************************************)
(* The in-memory adapters of the local demo                                *)
(* (in-memory-checkout.repository.ts, in-memory-catalog.repository.ts).    *)
(*                                                                         *)
(* Mutations run one after another in a queue, without conditions on rows. *)
(* Submitting and settling a payment await the catalog, whose counters     *)
(* change at once, and change their own maps only when they resume: busy   *)
(* is the mutation that awaits.  No other mutation runs meanwhile, but     *)
(* queries do, since they do not queue.  Any caller may send any mutation; *)
(* the catalog is called by this repository only.                          *)
(*                                                                         *)
(* Capabilities, updatedAt, the webhook log (which nothing calls) and the  *)
(* contents of drafts are left out; due is nextCheckAt <= now.             *)
(***************************************************************************)
EXTENDS Integers, FiniteSets, CheckoutDomain

CONSTANTS Checkouts, Txns, Keys, ProviderIds,
          Stock,        \* onHand the catalog starts with
          MaxVersion,   \* bound: drafts are edited only below this version
          NULL

ASSUME InMemoryAssumption ==
  /\ Stock \in Nat /\ MaxVersion \in Nat
  /\ IsFiniteSet(Txns) /\ NULL \notin Txns \cup ProviderIds

\* What the maps hold.
Checkout ==
  [status : CheckoutStatus, version : 1 .. MaxVersion + 1, active : Txns \cup {NULL},
   customer : BOOLEAN, details : BOOLEAN]

Transaction ==
  [checkout : Checkouts, paymentStatus : PaymentStatus, dispatchPhase : DispatchPhase,
   providerId : ProviderIds \cup {NULL}, providerStatus : ProviderStatus,
   reservationStatus : ReservationStatus, integrityStatus : IntegrityStatus,
   recoveryCode : RecoveryCode, effectsApplied : BOOLEAN, due : BOOLEAN]

IdempotencyRecord == [transaction : Txns, semanticHash : 1 .. MaxVersion]

\* No record is mistaken for a missing one.
ASSUME NullAssumption ==
  NULL \notin Checkout /\ NULL \notin Transaction /\ NULL \notin IdempotencyRecord

VARIABLES product,       \* the catalog's row
          checkouts,     \* checkouts[c], or NULL
          transactions,  \* transactions[t], or NULL
          deliveries,    \* transactions with a delivery
          idempotency,   \* idempotency[c][k]: the transaction and the hash, or NULL
          busy           \* the mutation that awaits the catalog

vars == <<product, checkouts, transactions, deliveries, idempotency, busy>>
maps == <<checkouts, transactions, deliveries, idempotency>>

Idle == [op |-> "none"]

Draft == [status |-> "DRAFT", version |-> 1, active |-> NULL, customer |-> FALSE,
          details |-> FALSE]

Accepted == {t \in Txns : transactions[t] # NULL}
Pending(t) == transactions[t] # NULL /\ ~IsTerminalPayment(transactions[t].paymentStatus)

\* storeTransaction.
Store(t, transaction) ==
  /\ transactions' = [transactions EXCEPT ![t] = transaction]
  /\ UNCHANGED <<product, checkouts, deliveries, idempotency, busy>>

-----------------------------------------------------------------------------
(* Drafts                                                                  *)

Create(c) ==
  /\ busy = Idle /\ checkouts[c] = NULL
  /\ checkouts' = [checkouts EXCEPT ![c] = Draft]
  /\ UNCHANGED <<product, transactions, deliveries, idempotency, busy>>

\* The version the caller knows, and no payment yet.
EditedWhilePaying(c, version) ==   \* faulty: the payment is not looked at
  checkouts[c] # NULL /\ checkouts[c].version = version
IsAt(c, version) ==
  /\ checkouts[c] # NULL
  /\ checkouts[c].version = version
  /\ checkouts[c].active = NULL

ReplaceCustomer(c, version) ==
  /\ busy = Idle /\ version < MaxVersion /\ IsAt(c, version)
  /\ checkouts' = [checkouts EXCEPT ![c] =
       [@ EXCEPT !.version = version + 1, !.customer = TRUE,
                 !.status = IF checkouts[c].details THEN "READY" ELSE "DRAFT"]]
  /\ UNCHANGED <<product, transactions, deliveries, idempotency, busy>>

ReplaceDeliveryDetails(c, version) ==
  /\ busy = Idle /\ version < MaxVersion /\ IsAt(c, version)
  /\ checkouts' = [checkouts EXCEPT ![c] =
       [@ EXCEPT !.version = version + 1, !.details = TRUE,
                 !.status = IF checkouts[c].customer THEN "READY" ELSE "DRAFT"]]
  /\ UNCHANGED <<product, transactions, deliveries, idempotency, busy>>

-----------------------------------------------------------------------------
(* Submission: the catalog reserves, then the maps are written.            *)

HasUnit == product.available >= 1

PreparePayment(c, k, t, version) ==
  /\ busy = Idle /\ transactions[t] = NULL
  /\ checkouts[c] # NULL /\ idempotency[c][k] = NULL /\ IsAt(c, version)
  /\ HasUnit
  /\ product' = [product EXCEPT !.reserved = @ + 1, !.available = @ - 1]
  /\ busy' = [op |-> "reserved", c |-> c, k |-> k, t |-> t, version |-> version]
  /\ UNCHANGED maps

Reserved ==
  /\ busy.op = "reserved"
  /\ LET c == busy.c  t == busy.t
     IN  /\ checkouts' = [checkouts EXCEPT ![c] =
              [@ EXCEPT !.status = "PAYMENT_PENDING", !.version = checkouts[c].version + 1,
                        !.active = t]]
         /\ transactions' = [transactions EXCEPT ![t] =
              [checkout |-> c, paymentStatus |-> "PENDING", dispatchPhase |-> "NOT_SENT",
               providerId |-> NULL, providerStatus |-> "none", reservationStatus |-> "ACTIVE",
               integrityStatus |-> "OK", recoveryCode |-> "none", effectsApplied |-> FALSE,
               due |-> FALSE]]
         /\ idempotency' = [idempotency EXCEPT ![c][busy.k] =
              [transaction |-> t, semanticHash |-> busy.version]]
  /\ busy' = Idle
  /\ UNCHANGED <<product, deliveries>>

-----------------------------------------------------------------------------
(* Dispatch                                                                *)

ClaimDispatch(t) ==
  /\ busy = Idle /\ transactions[t] # NULL /\ transactions[t].dispatchPhase = "NOT_SENT"
  /\ Store(t, [transactions[t] EXCEPT !.dispatchPhase = "SENDING", !.due = FALSE])

\* No other transaction has the id: the scan that stands for the lock row.
OwnsId(t, id) ==
  /\ \A u \in Accepted \ {t} : transactions[u].providerId # id
  /\ transactions[t].providerId \in {NULL, id}

\* nextCheckAt moves only if the provider has not decided yet.
AcknowledgeProvider(t, id, status) ==
  /\ busy = Idle /\ Pending(t) /\ OwnsId(t, id)
  /\ Store(t, [transactions[t] EXCEPT
       !.providerId = id, !.providerStatus = status, !.dispatchPhase = "ACKNOWLEDGED",
       !.due = IF status = "PENDING" THEN FALSE ELSE @])

MarkUnknown(t) ==
  /\ busy = Idle /\ Pending(t)
  /\ Store(t, [transactions[t] EXCEPT
       !.dispatchPhase = "UNKNOWN", !.recoveryCode = "PROVIDER_OUTCOME_UNKNOWN",
       !.due = FALSE])

\* claimDue, of any of the due payments that fit its limit: there is no lease
\* to lose, nextCheckAt alone keeps the next run away.
ClaimDue(claimed) ==
  /\ busy = Idle /\ claimed # {}
  /\ \A t \in claimed : Pending(t) /\ transactions[t].due
  /\ transactions' = [t \in Txns |->
       IF t \notin claimed THEN transactions[t]
       ELSE [transactions[t] EXCEPT !.due = FALSE,
               !.dispatchPhase = IF @ = "NOT_SENT" THEN "NOT_SENT_FAILED" ELSE @]]
  /\ UNCHANGED <<product, checkouts, deliveries, idempotency, busy>>

BecomesDue(t) ==
  /\ Pending(t) /\ ~transactions[t].due
  /\ transactions' = [transactions EXCEPT ![t].due = TRUE]
  /\ UNCHANGED <<product, checkouts, deliveries, idempotency, busy>>

-----------------------------------------------------------------------------
(* Settlement: the catalog consumes or releases, then the maps are written.*)

\* The proof finalize asks for.
Admits(t, status, providerStatus, recovery) ==
  LET p == transactions[t] IN
  /\ recovery = "PROVIDER_NOT_SENT" =>
       /\ status = "ERROR" /\ providerStatus = "none" /\ p.providerId = NULL
       /\ p.dispatchPhase \in {"SENDING", "NOT_SENT_FAILED"}
  /\ recovery = "none" =>
       /\ providerStatus = status /\ p.providerStatus = status
       /\ p.providerId # NULL /\ p.dispatchPhase = "ACKNOWLEDGED"

CheckoutOf(t) == transactions[t].checkout

Closed(t, status) ==
  checkouts' = [checkouts EXCEPT ![CheckoutOf(t)].status = CheckoutStatusForPayment(status)]

\* A settled payment keeps its status; a different outcome flags it.
FinalizeAgain(t, status) ==
  /\ busy = Idle /\ transactions[t] # NULL /\ ~Pending(t)
  /\ transactions[t].paymentStatus # status
  /\ Store(t, [transactions[t] EXCEPT !.integrityStatus = "FINAL_STATE_CONFLICT"])

\* Without its unit a payment would be approved and not shipped
\* (approvedInventoryConflict); ApprovalFindsItsUnit shows this cannot happen.
LacksItsUnit(t) ==
  \/ transactions[t].reservationStatus # "ACTIVE"
  \/ product.reserved < 1 \/ product.onHand < 1

\* APPROVED: a payment with its unit and with details to ship to.
FinalizeApproved(t) ==
  /\ busy = Idle /\ Pending(t) /\ Admits(t, "APPROVED", "APPROVED", "none")
  /\ checkouts[CheckoutOf(t)].details /\ ~LacksItsUnit(t)
  /\ product' = [product EXCEPT !.onHand = @ - 1, !.reserved = @ - 1]
  /\ busy' = [op |-> "consumed", t |-> t]
  /\ UNCHANGED maps

Consumed ==
  /\ busy.op = "consumed"
  /\ LET t == busy.t
     IN  /\ deliveries' = deliveries \cup {t}
         /\ transactions' = [transactions EXCEPT ![t] =
              [@ EXCEPT !.paymentStatus = "APPROVED", !.providerStatus = "APPROVED",
                        !.dispatchPhase = "ACKNOWLEDGED", !.reservationStatus = "CONSUMED",
                        !.integrityStatus = "OK", !.effectsApplied = TRUE]]
         /\ Closed(t, "APPROVED")
  /\ busy' = Idle
  /\ UNCHANGED <<product, idempotency>>

\* Declined, voided, in error, rejected or never sent.
FinalizeFailure(t, status, providerStatus, recovery) ==
  /\ busy = Idle /\ Pending(t) /\ Admits(t, status, providerStatus, recovery)
  /\ transactions[t].reservationStatus = "ACTIVE" /\ product.reserved >= 1
  /\ product' = [product EXCEPT !.reserved = @ - 1, !.available = @ + 1]
  /\ busy' = [op |-> "released", t |-> t, status |-> status,
              providerStatus |-> providerStatus, recovery |-> recovery]
  /\ UNCHANGED maps

\* faulty: the payment is left as it was, to be settled once more
KeepsReservation(t, transaction) == [transaction EXCEPT !.paymentStatus = "PENDING"]
SettledAs(t, transaction) == transaction

Released ==
  /\ busy.op = "released"
  /\ LET t == busy.t
     IN  /\ transactions' = [transactions EXCEPT ![t] = SettledAs(t,
              [transactions[t] EXCEPT !.paymentStatus = busy.status, !.providerStatus = busy.providerStatus,
                        !.dispatchPhase = IF busy.recovery = "PROVIDER_NOT_SENT"
                                          THEN "NOT_SENT_FAILED" ELSE "ACKNOWLEDGED",
                        !.reservationStatus = "RELEASED", !.integrityStatus = "OK",
                        !.recoveryCode = IF busy.recovery = "none" THEN @ ELSE busy.recovery,
                        !.effectsApplied = TRUE])]
         /\ Closed(t, busy.status)
  /\ busy' = Idle
  /\ UNCHANGED <<product, deliveries, idempotency>>

-----------------------------------------------------------------------------
Init ==
  /\ product = [onHand |-> Stock, reserved |-> 0, available |-> Stock]
  /\ checkouts = [c \in Checkouts |-> NULL]
  /\ transactions = [t \in Txns |-> NULL]
  /\ deliveries = {}
  /\ idempotency = [c \in Checkouts |-> [k \in Keys |-> NULL]]
  /\ busy = Idle

Drafting ==
  \E c \in Checkouts : Create(c) \/ \E v \in 1 .. MaxVersion :
    ReplaceCustomer(c, v) \/ ReplaceDeliveryDetails(c, v)

Submitting ==
  \/ \E c \in Checkouts, k \in Keys, t \in Txns, v \in 1 .. MaxVersion :
       PreparePayment(c, k, t, v)
  \/ Reserved

Dispatching ==
  \/ \E t \in Txns :
       \/ ClaimDispatch(t) \/ MarkUnknown(t) \/ BecomesDue(t)
       \/ \E id \in ProviderIds, status \in PaymentStatus : AcknowledgeProvider(t, id, status)
  \/ \E claimed \in SUBSET Txns : ClaimDue(claimed)

Settling ==
  \/ \E t \in Accepted :
       \/ FinalizeApproved(t)
       \/ \E status \in FailureStatus : FinalizeFailure(t, status, status, "none")
       \/ FinalizeFailure(t, "ERROR", "none", "PROVIDER_NOT_SENT")
       \/ FinalizeFailure(t, "ERROR", "ERROR", "PAYMENT_TOKEN_REJECTED")
       \/ \E status \in FinalStatus : FinalizeAgain(t, status)
  \/ Consumed \/ Released

Next == Drafting \/ Submitting \/ Dispatching \/ Settling

Spec == Init /\ [][Next]_vars

-----------------------------------------------------------------------------
(* Properties                                                              *)

\* The maps hold what their types say.
TypeOK ==
  /\ product \in [onHand : Nat, reserved : Nat, available : Nat]
  /\ checkouts \in [Checkouts -> Checkout \cup {NULL}]
  /\ transactions \in [Txns -> Transaction \cup {NULL}]
  /\ deliveries \subseteq Txns
  /\ idempotency \in [Checkouts -> [Keys -> IdempotencyRecord \cup {NULL}]]
  /\ busy.op \in {"none", "reserved", "consumed", "released"}

Holding == {t \in Accepted : transactions[t].reservationStatus = "ACTIVE"}
Sold == {t \in Accepted : transactions[t].reservationStatus = "CONSUMED"}
One(op) == IF busy.op = op THEN 1 ELSE 0

\* The catalog's counters agree with the payments, up to the unit of the
\* mutation that awaits the catalog: nothing is oversold, no unit is lost.
CountersMatchPayments ==
  /\ product.available = product.onHand - product.reserved
  /\ product.reserved = Cardinality(Holding) + One("reserved") - One("consumed") - One("released")
  /\ product.onHand = Stock - Cardinality(Sold) - One("consumed")

\* Two payments are never attributed to one provider transaction.
OneOwnerPerProviderId ==
  \A t, u \in Accepted :
    transactions[t].providerId # NULL /\ transactions[t].providerId = transactions[u].providerId
      => t = u

\* A query never sees half of a settlement: payment, checkout, delivery and
\* reservation tell the same story at every moment, also while a mutation waits;
\* and no provider id leads to two payments.
MapsAgree ==
  /\ OneOwnerPerProviderId
  /\ \A t \in Accepted :
       LET p == transactions[t] IN
       /\ checkouts[p.checkout].active = t
       /\ checkouts[p.checkout].status = CheckoutStatusForPayment(p.paymentStatus)
       /\ t \in deliveries <=> p.reservationStatus = "CONSUMED"
       /\ p.reservationStatus = "CONSUMED" => p.paymentStatus = "APPROVED"
       /\ p.reservationStatus = "RELEASED" <=> p.paymentStatus \in FailureStatus
       /\ p.effectsApplied <=> p.reservationStatus \in {"CONSUMED", "RELEASED"}
       /\ \E k \in Keys : idempotency[p.checkout][k] # NULL
                            /\ idempotency[p.checkout][k].transaction = t

\* So an approval always finds the unit reserved for it: the branch that
\* approves a payment and ships nothing is dead in the demo's adapters.
ApprovalFindsItsUnit ==
  /\ CountersMatchPayments
  /\ busy = Idle => \A t \in Accepted : Pending(t) => ~LacksItsUnit(t)

OutcomeOf(t) ==
  CASE transactions[t] = NULL -> "none"
    [] transactions[t] # NULL /\ Pending(t) -> "pending"
    [] transactions[t] # NULL /\ ~Pending(t) /\ transactions[t].paymentStatus # "APPROVED" -> "failed"
    [] OTHER -> IF transactions[t].effectsApplied THEN "sold" ELSE "review"

Promise == INSTANCE PaymentPromise WITH
  free    <- product.available + One("reserved") - One("released"),
  attempt <- [c \in Checkouts |-> IF checkouts[c] = NULL THEN NULL ELSE checkouts[c].active],
  outcome <- [t \in Txns |-> OutcomeOf(t)],
  shipped <- deliveries

\* The demo's adapters keep the same promise as the production ones, although
\* they check no condition when they write.
KeepsPromise == Promise!PromiseSpec
=============================================================================
