----------------------- MODULE CheckoutPayment_proofs -----------------------
(***************************************************************************)
(* What holds of PaymentStore and of CheckoutPayment for any number of     *)
(* invocations, checkouts, keys and provider ids, any stock, limits,       *)
(* version bound and number of faults.                                     *)
(*                                                                         *)
(* First the store alone, whoever sends its writes: its rows are typed and *)
(* linked, a settlement writes all its rows together, money, stock and     *)
(* parcels agree, and it keeps the promise of PaymentPromise.              *)
(*                                                                         *)
(* Then the service, whose argument has three layers.  What an actor       *)
(* carries fits the await it stands at, so every write it sends is one     *)
(* PaymentStore's client may send (UsesStore), and all that was shown of   *)
(* the store holds here.  What an actor carries belongs to the checkout of *)
(* its own request, so the answers agree and the parcel goes where the     *)
(* buyer said.  And what an actor believes of the provider is true: who is *)
(* about to send has the payment for itself, "never sent" stays so, an     *)
(* outcome was given.                                                      *)
(***************************************************************************)
EXTENDS CheckoutPayment, FiniteSetTheorems, TLAPS

(***************************************************************************)
(* The store.                                                              *)
(***************************************************************************)

-----------------------------------------------------------------------------
(* Type correctness *)

\* A checkout without a payment has not used up the version bound.
DraftBounded ==
    \A c \in Checkouts :
        checkout[c] # NULL /\ checkout[c].activeTransactionId = NULL
            => checkout[c].version <= MaxVersion

TypeInv == TypeOK /\ DraftBounded

\* The initial rows are well typed.
LEMMA TypeInvInit == StoreInit => TypeInv
  BY StockAssumption, VersionAssumption, TxnsAssumption
  DEF StoreInit, TypeInv, TypeOK, DraftBounded, ReadyDraft, Product, Checkout, Version,
      CheckoutStatus, ReservationStatus

\* Replacing one row of the checkout table by a well-typed one.
LEMMA TypeInvRow ==
    ASSUME TypeInv, NEW c \in Checkouts, NEW row \in Checkout,
           row.activeTransactionId = NULL => row.version <= MaxVersion,
           checkout' = [checkout EXCEPT ![c] = row],
           UNCHANGED <<product, payment, reservation, delivery, idempotency, providerLock>>
    PROVE  TypeInv'
  BY DEF TypeInv, TypeOK, DraftBounded

\* Drafting keeps rows well typed.
LEMMA TypeInvDraft == TypeInv /\ DraftStep => TypeInv'
<1> SUFFICES ASSUME TypeInv, DraftStep PROVE TypeInv'
  OBVIOUS
<1>1. ASSUME NEW c \in Checkouts, CreateWrite(c) PROVE TypeInv'
  <2> DEFINE row == [status |-> "DRAFT", version |-> 1, activeTransactionId |-> NULL,
                     customer |-> 0, deliveryDetails |-> 0]
  <2>1. row \in Checkout /\ row.version <= MaxVersion
    BY VersionAssumption DEF Checkout, CheckoutStatus, Version
  <2> QED BY <1>1, <2>1, TypeInvRow DEF CreateWrite
<1>2. ASSUME NEW c \in Checkouts, NEW v \in Version, NEW other \in BOOLEAN,
             ReplaceCustomerWrite(c, v, other)
      PROVE TypeInv'
  <2> DEFINE row == [checkout[c] EXCEPT !.version = v + 1, !.customer = v + 1,
                                        !.status = IF other THEN "READY" ELSE "DRAFT"]
  <2>1. checkout[c] \in Checkout /\ v + 1 \in Version /\ v + 1 <= MaxVersion
    BY <1>2, VersionAssumption
    DEF ReplaceCustomerWrite, CheckoutIsAt, TypeInv, TypeOK, Version
  <2>2. row \in Checkout /\ row.version <= MaxVersion
    BY <2>1 DEF Checkout, CheckoutStatus
  <2>3. checkout' = [checkout EXCEPT ![c] = row]
    BY <1>2 DEF ReplaceCustomerWrite
  <2> QED BY <1>2, <2>2, <2>3, TypeInvRow DEF ReplaceCustomerWrite
<1>3. ASSUME NEW c \in Checkouts, NEW v \in Version, NEW other \in BOOLEAN,
             ReplaceDeliveryDetailsWrite(c, v, other)
      PROVE TypeInv'
  <2> DEFINE row == [checkout[c] EXCEPT !.version = v + 1, !.deliveryDetails = v + 1,
                                        !.status = IF other THEN "READY" ELSE "DRAFT"]
  <2>1. checkout[c] \in Checkout /\ v + 1 \in Version /\ v + 1 <= MaxVersion
    BY <1>3, VersionAssumption
    DEF ReplaceDeliveryDetailsWrite, CheckoutIsAt, TypeInv, TypeOK, Version
  <2>2. row \in Checkout /\ row.version <= MaxVersion
    BY <2>1 DEF Checkout, CheckoutStatus
  <2>3. checkout' = [checkout EXCEPT ![c] = row]
    BY <1>3 DEF ReplaceDeliveryDetailsWrite
  <2> QED BY <1>3, <2>2, <2>3, TypeInvRow DEF ReplaceDeliveryDetailsWrite
<1> QED BY <1>1, <1>2, <1>3 DEF DraftStep

\* Replacing one row of the payment table by a well-typed one.
LEMMA TypeInvPayment ==
    ASSUME TypeInv, NEW t \in Txns, NEW row \in Payment,
           payment' = [payment EXCEPT ![t] = row],
           UNCHANGED <<product, checkout, reservation, delivery, idempotency>>,
           providerLock' \in [ProviderIds -> Txns \cup {NULL}]
    PROVE  TypeInv'
  BY DEF TypeInv, TypeOK, DraftBounded

\* Accepting and dispatching a payment keeps rows well typed.
LEMMA TypeInvDispatch == TypeInv /\ DispatchStep => TypeInv'
<1> SUFFICES ASSUME TypeInv, DispatchStep PROVE TypeInv'
  OBVIOUS
<1> USE DEF IsPending
<1>1. ASSUME NEW c \in Checkouts, NEW k \in Keys, NEW t \in Txns, NEW v \in Version,
             PreparePaymentWrite(c, k, t, v)
      PROVE TypeInv'
  <2> DEFINE row == [checkout[c] EXCEPT !.status = "PAYMENT_PENDING",
                                        !.version = v + 1,
                                        !.activeTransactionId = t]
             pay == [checkoutId |-> c, idempotencyKeyHash |-> k,
                     paymentStatus |-> "PENDING", dispatchPhase |-> "NOT_SENT",
                     providerId |-> NULL, providerStatus |-> "none",
                     reservationStatus |-> "ACTIVE", integrityStatus |-> "OK",
                     recoveryCode |-> "none", hasDelivery |-> FALSE,
                     effectsApplied |-> FALSE, due |-> FALSE]
             key == [transactionId |-> t, semanticHash |-> v, status |-> "IN_PROGRESS"]
  <2>1. checkout[c] \in Checkout /\ checkout[c].version = v /\ v <= MaxVersion
    BY <1>1 DEF PreparePaymentWrite, CheckoutIsAt, TypeInv, TypeOK, DraftBounded
  <2>2. row \in Checkout /\ row.activeTransactionId # NULL
    <3>1. v + 1 \in Version
      BY <2>1, VersionAssumption DEF Version
    <3>2. t # NULL
      BY TxnsAssumption
    <3> QED BY <2>1, <3>1, <3>2 DEF Checkout, CheckoutStatus
  <2>3. pay \in Payment
    BY DEF Payment, PaymentStatus, DispatchPhase, ProviderStatus, ReservationStatus,
           IntegrityStatus, RecoveryCode
  <2>4. key \in Idempotency
    BY DEF Idempotency
  <2>5. /\ checkout' = [checkout EXCEPT ![c] = row]
        /\ payment' = [payment EXCEPT ![t] = pay]
        /\ idempotency' = [idempotency EXCEPT ![c][k] = key]
        /\ reservation' = [reservation EXCEPT ![t] = "ACTIVE"]
        /\ UNCHANGED <<delivery, providerLock>>
    <3>1. checkout' = [checkout EXCEPT ![c] = row]
      BY <1>1 DEF PreparePaymentWrite
    <3>2. payment' = [payment EXCEPT ![t] = pay]
      BY <1>1 DEF PreparePaymentWrite
    <3>3. idempotency' = [idempotency EXCEPT ![c][k] = key]
      BY <1>1 DEF PreparePaymentWrite, RememberKey
    <3> QED BY <1>1, <3>1, <3>2, <3>3 DEF PreparePaymentWrite
  <2>6. product' \in Product
    <3>1. product' = [product EXCEPT !.reserved = product.reserved + 1,
                                     !.available = product.available - 1]
      BY <1>1 DEF PreparePaymentWrite
    <3>2. product \in Product
      BY DEF TypeInv, TypeOK
    <3>3. product.reserved + 1 \in Nat /\ product.available - 1 \in Int
      BY <3>2 DEF Product
    <3> QED BY <3>1, <3>2, <3>3 DEF Product
  <2>7. idempotency' \in [Checkouts -> [Keys -> Idempotency \cup {NULL}]]
    BY <2>4, <2>5 DEF TypeInv, TypeOK
  <2>8. reservation' \in [Txns -> ReservationStatus]
    BY <2>5 DEF TypeInv, TypeOK, ReservationStatus
  <2>9. /\ checkout' \in [Checkouts -> Checkout \cup {NULL}]
        /\ payment' \in [Txns -> Payment \cup {NULL}]
    BY <2>2, <2>3, <2>5 DEF TypeInv, TypeOK
  <2>10. DraftBounded'
    BY <2>2, <2>5 DEF TypeInv, TypeOK, DraftBounded
  <2> QED BY <2>5, <2>6, <2>7, <2>8, <2>9, <2>10 DEF TypeInv, TypeOK
<1>2. ASSUME NEW t \in Txns, ClaimDispatchWrite(t) PROVE TypeInv'
  <2> DEFINE row == [payment[t] EXCEPT !.dispatchPhase = "SENDING", !.due = FALSE]
  <2>1. row \in Payment /\ payment' = [payment EXCEPT ![t] = row]
    BY <1>2 DEF ClaimDispatchWrite, TypeInv, TypeOK, Payment, DispatchPhase
  <2> QED BY <1>2, <2>1, TypeInvPayment DEF ClaimDispatchWrite, TypeInv, TypeOK
<1>3. ASSUME NEW t \in Txns, NEW id \in ProviderIds, NEW status \in PaymentStatus,
             AcknowledgeProviderWrite(t, id, status)
      PROVE TypeInv'
  <2> DEFINE row == [payment[t] EXCEPT !.providerId = id, !.providerStatus = status,
                                       !.dispatchPhase = "ACKNOWLEDGED", !.due = FALSE]
  <2>1. row \in Payment /\ payment' = [payment EXCEPT ![t] = row]
    BY <1>3 DEF AcknowledgeProviderWrite, TypeInv, TypeOK, Payment, DispatchPhase, ProviderStatus
  <2>2. providerLock' \in [ProviderIds -> Txns \cup {NULL}]
    BY <1>3 DEF AcknowledgeProviderWrite, TypeInv, TypeOK
  <2> QED BY <1>3, <2>1, <2>2, TypeInvPayment DEF AcknowledgeProviderWrite
<1>4. ASSUME NEW t \in Txns, MarkUnknownWrite(t) PROVE TypeInv'
  <2> DEFINE row == [payment[t] EXCEPT !.dispatchPhase = "UNKNOWN",
                        !.recoveryCode = "PROVIDER_OUTCOME_UNKNOWN", !.due = FALSE]
  <2>1. row \in Payment /\ payment' = [payment EXCEPT ![t] = row]
    BY <1>4 DEF MarkUnknownWrite, TypeInv, TypeOK, Payment, DispatchPhase, RecoveryCode
  <2> QED BY <1>4, <2>1, TypeInvPayment DEF MarkUnknownWrite, TypeInv, TypeOK
<1>5. ASSUME NEW t \in Txns, NEW phase \in DispatchPhase, ClaimDueWrite(t, phase)
      PROVE TypeInv'
  <2> DEFINE row == [payment[t] EXCEPT !.dispatchPhase = ClaimedPhase(phase), !.due = FALSE]
  <2>1. payment[t] \in Payment /\ payment' = [payment EXCEPT ![t] = row]
    BY <1>5 DEF ClaimDueWrite, TypeInv, TypeOK
  <2>2. ClaimedPhase(phase) \in DispatchPhase
    BY DEF ClaimedPhase, DispatchPhase
  <2>3. row \in Payment
    BY <2>1, <2>2 DEF Payment
  <2> QED BY <1>5, <2>1, <2>3, TypeInvPayment DEF ClaimDueWrite, TypeInv, TypeOK
<1>6. ASSUME NEW t \in Txns, BecomesDue(t) PROVE TypeInv'
  <2> DEFINE row == [payment[t] EXCEPT !.due = TRUE]
  <2>1. row \in Payment /\ payment' = [payment EXCEPT ![t] = row]
    BY <1>6 DEF BecomesDue, TypeInv, TypeOK, Payment
  <2> QED BY <1>6, <2>1, TypeInvPayment DEF BecomesDue, TypeInv, TypeOK
<1> QED BY <1>1, <1>2, <1>3, <1>4, <1>5, <1>6 DEF DispatchStep

\* The rows of the checkout and of the key a settlement closes stay well typed.
LEMMA TypeInvOwners ==
    ASSUME TypeInv, NEW t \in Accepted, NEW status \in PaymentStatus,
           OwnerRowsCondition(t), CloseOwnerRows(t, status)
    PROVE  /\ checkout' \in [Checkouts -> Checkout \cup {NULL}]
           /\ idempotency' \in [Checkouts -> [Keys -> Idempotency \cup {NULL}]]
           /\ DraftBounded'
<1> DEFINE c == payment[t].checkoutId
           k == payment[t].idempotencyKeyHash
           row == [checkout[c] EXCEPT !.status = CheckoutStatusForPayment(status)]
           key == [idempotency[c][k] EXCEPT !.status = "FINAL"]
<1>1. c \in Checkouts /\ k \in Keys
  BY DEF Accepted, TypeInv, TypeOK, Payment
<1>2. CheckoutStatusForPayment(status) \in CheckoutStatus
  BY DEF CheckoutStatusForPayment, CheckoutStatus
<1>3. checkout[c] \in Checkout /\ idempotency[c][k] \in Idempotency
  BY <1>1 DEF OwnerRowsCondition, TypeInv, TypeOK
<1>4. /\ row \in Checkout
      /\ row.activeTransactionId = checkout[c].activeTransactionId
      /\ checkout[c].activeTransactionId # NULL
  BY <1>2, <1>3, TxnsAssumption DEF Checkout, OwnerRowsCondition, Accepted
<1>5. key \in Idempotency
  BY <1>3 DEF Idempotency
<1>6. checkout' = [checkout EXCEPT ![c] = row]
  BY DEF CloseOwnerRows
<1>7. idempotency' = [idempotency EXCEPT ![c] = [idempotency[c] EXCEPT ![k] = key]]
  BY DEF CloseOwnerRows
<1>8. idempotency' \in [Checkouts -> [Keys -> Idempotency \cup {NULL}]]
  BY <1>1, <1>5, <1>7 DEF TypeInv, TypeOK
<1> HIDE DEF row
<1>9. checkout' \in [Checkouts -> Checkout \cup {NULL}] /\ DraftBounded'
  BY <1>1, <1>4, <1>6 DEF TypeInv, TypeOK, DraftBounded
<1> QED BY <1>8, <1>9

\* The conditions of a settlement leave room for the counters it moves.
LEMMA TypeInvProduct ==
    ASSUME TypeInv, NEW t \in Txns, NEW status \in PaymentStatus, ReservationCondition(t, status)
    PROVE  /\ [product EXCEPT !.reserved = @ - 1, !.available = @ + 1] \in Product
           /\ status = "APPROVED" =>
                 [product EXCEPT !.onHand = @ - 1, !.reserved = @ - 1] \in Product
<1>1. product \in Product
  BY DEF TypeInv, TypeOK
<1>2. /\ product.reserved - 1 \in Nat
      /\ product.available + 1 \in Int
      /\ status = "APPROVED" => product.onHand - 1 \in Nat
  BY <1>1 DEF Product, ReservationCondition
<1> QED BY <1>1, <1>2 DEF Product

\* The row an approved payment ends up as.
LEMMA ApprovedRowType ==
    ASSUME NEW p \in Payment
    PROVE  [p EXCEPT !.paymentStatus = "APPROVED", !.providerStatus = "APPROVED",
                     !.dispatchPhase = "ACKNOWLEDGED", !.reservationStatus = "CONSUMED",
                     !.integrityStatus = "OK", !.effectsApplied = TRUE,
                     !.hasDelivery = TRUE, !.recoveryCode = "none", !.due = FALSE] \in Payment
<1> DEFINE half == [p EXCEPT
                       !.paymentStatus = "APPROVED", !.providerStatus = "APPROVED",
                       !.dispatchPhase = "ACKNOWLEDGED", !.reservationStatus = "CONSUMED"]
           row == [half EXCEPT !.integrityStatus = "OK", !.effectsApplied = TRUE,
                               !.hasDelivery = TRUE, !.recoveryCode = "none", !.due = FALSE]
<1>1. half \in Payment
  BY DEF Payment, PaymentStatus, ProviderStatus, DispatchPhase, ReservationStatus
<1>2. row \in Payment
  <2> HIDE DEF half
  <2> QED BY <1>1 DEF Payment, IntegrityStatus, RecoveryCode
<1> QED BY <1>2

\* Settling an approved payment keeps rows well typed.
LEMMA TypeInvApproved ==
    ASSUME TypeInv, NEW t \in Accepted, NEW seen, NEW destination \in Version,
           FinalizeApprovedWrite(t, seen, destination)
    PROVE  TypeInv'
<1> DEFINE row == [payment[t] EXCEPT
                      !.paymentStatus = "APPROVED", !.providerStatus = "APPROVED",
                      !.dispatchPhase = "ACKNOWLEDGED", !.reservationStatus = "CONSUMED",
                      !.integrityStatus = "OK", !.effectsApplied = TRUE,
                      !.hasDelivery = TRUE, !.recoveryCode = "none", !.due = FALSE]
<1>1. t \in Txns /\ payment[t] \in Payment
  BY DEF Accepted, TypeInv, TypeOK
<1>2. row \in Payment
  BY <1>1, ApprovedRowType
<1>3. payment' = [payment EXCEPT ![t] = row]
  BY DEF FinalizeApprovedWrite
<1>4. payment' \in [Txns -> Payment \cup {NULL}]
  BY <1>1, <1>2, <1>3 DEF TypeInv, TypeOK
<1>5. /\ checkout' \in [Checkouts -> Checkout \cup {NULL}]
      /\ idempotency' \in [Checkouts -> [Keys -> Idempotency \cup {NULL}]]
      /\ DraftBounded'
  BY TypeInvOwners DEF FinalizeApprovedWrite, PaymentStatus
<1>6. product' \in Product
  BY <1>1, TypeInvProduct DEF FinalizeApprovedWrite, PaymentStatus
<1>7. /\ reservation' \in [Txns -> ReservationStatus]
      /\ delivery' \in [Txns -> Version]
      /\ UNCHANGED providerLock
  BY <1>1 DEF FinalizeApprovedWrite, TypeInv, TypeOK, ReservationStatus
<1> QED BY <1>4, <1>5, <1>6, <1>7 DEF TypeInv, TypeOK

\* Settling a failed payment keeps rows well typed.
LEMMA TypeInvFailure ==
    ASSUME TypeInv, NEW t \in Accepted, NEW seen, NEW status \in FailureStatus,
           NEW providerStatus \in ProviderStatus, NEW recovery \in RecoveryCode,
           FinalizeFailureWrite(t, seen, status, providerStatus, recovery)
    PROVE  TypeInv'
<1> DEFINE phase == IF recovery = "PROVIDER_NOT_SENT" THEN "NOT_SENT_FAILED" ELSE "ACKNOWLEDGED"
           row == [payment[t] EXCEPT
                      !.paymentStatus = status, !.providerStatus = providerStatus,
                      !.dispatchPhase = phase,
                      !.reservationStatus = "RELEASED", !.integrityStatus = "OK",
                      !.effectsApplied = TRUE, !.recoveryCode = recovery, !.due = FALSE]
<1>0. status \in PaymentStatus
  BY DEF FailureStatus, FinalStatus
<1>1. t \in Txns /\ payment[t] \in Payment
  BY DEF Accepted, TypeInv, TypeOK
<1>2. row \in Payment
  BY <1>0, <1>1 DEF Payment, DispatchPhase, ReservationStatus, IntegrityStatus
<1>3. payment' = [payment EXCEPT ![t] = row]
  BY DEF FinalizeFailureWrite
<1>4. payment' \in [Txns -> Payment \cup {NULL}]
  BY <1>1, <1>2, <1>3 DEF TypeInv, TypeOK
<1>5. /\ checkout' \in [Checkouts -> Checkout \cup {NULL}]
      /\ idempotency' \in [Checkouts -> [Keys -> Idempotency \cup {NULL}]]
      /\ DraftBounded'
  BY <1>0, TypeInvOwners DEF FinalizeFailureWrite
<1>6. product' \in Product
  BY <1>0, <1>1, TypeInvProduct DEF FinalizeFailureWrite
<1>7. /\ reservation' \in [Txns -> ReservationStatus]
      /\ UNCHANGED <<delivery, providerLock>>
  BY <1>1 DEF FinalizeFailureWrite, TypeInv, TypeOK, ReservationStatus
<1> QED BY <1>4, <1>5, <1>6, <1>7 DEF TypeInv, TypeOK

\* Settling keeps rows well typed.
LEMMA TypeInvSettle == TypeInv /\ SettleStep => TypeInv'
<1> SUFFICES ASSUME TypeInv, SettleStep PROVE TypeInv'
  OBVIOUS
<1>1. ASSUME NEW t \in Accepted, NEW id \in ProviderIds, NEW destination \in Version \ {0},
             FinalizeApprovedWrite(t, AcknowledgedAs(id, "APPROVED"), destination)
      PROVE TypeInv'
  BY <1>1, TypeInvApproved
<1>2. ASSUME NEW t \in Accepted, NEW id \in ProviderIds, NEW status \in FailureStatus,
             FinalizeFailureWrite(t, AcknowledgedAs(id, status), status, status, "none")
      PROVE TypeInv'
  BY <1>2, TypeInvFailure DEF FailureStatus, FinalStatus, ProviderStatus, RecoveryCode
<1>3. ASSUME NEW t \in Accepted, NEW phase \in {"SENDING", "NOT_SENT_FAILED"},
             FinalizeFailureWrite(t, UnsentIn(phase), "ERROR", "none", "PROVIDER_NOT_SENT")
      PROVE TypeInv'
  BY <1>3, TypeInvFailure
  DEF FailureStatus, FinalStatus, PaymentStatus, ProviderStatus, RecoveryCode
<1>4. ASSUME NEW t \in Accepted,
             FinalizeFailureWrite(t, SnapshotOf(t), "ERROR", "ERROR", "PAYMENT_TOKEN_REJECTED")
      PROVE TypeInv'
  BY <1>4, TypeInvFailure
  DEF FailureStatus, FinalStatus, PaymentStatus, ProviderStatus, RecoveryCode
<1>5. ASSUME NEW t \in Accepted, RecordApprovedInventoryConflictWrite(t) PROVE TypeInv'
  <2> DEFINE row == [payment[t] EXCEPT
                        !.paymentStatus = "APPROVED", !.providerStatus = "APPROVED",
                        !.dispatchPhase = "ACKNOWLEDGED",
                        !.integrityStatus = "APPROVED_INVENTORY_CONFLICT",
                        !.recoveryCode = "STATE_TRANSITION_CONFLICT", !.due = FALSE]
  <2>1. t \in Txns /\ payment[t] \in Payment
    BY DEF Accepted, TypeInv, TypeOK
  <2>2. row \in Payment
    BY <2>1 DEF Payment, PaymentStatus, ProviderStatus, DispatchPhase, IntegrityStatus,
                RecoveryCode
  <2>3. payment' = [payment EXCEPT ![t] = row]
    BY <1>5 DEF RecordApprovedInventoryConflictWrite
  <2>4. payment' \in [Txns -> Payment \cup {NULL}]
    BY <2>1, <2>2, <2>3 DEF TypeInv, TypeOK
  <2>5. /\ checkout' \in [Checkouts -> Checkout \cup {NULL}]
        /\ idempotency' \in [Checkouts -> [Keys -> Idempotency \cup {NULL}]]
        /\ DraftBounded'
    BY <1>5, TypeInvOwners DEF RecordApprovedInventoryConflictWrite, PaymentStatus
  <2> QED BY <1>5, <2>4, <2>5
          DEF RecordApprovedInventoryConflictWrite, TypeInv, TypeOK
<1>6. ASSUME NEW t \in Accepted, NEW status \in FinalStatus, RecordFinalConflictWrite(t, status)
      PROVE TypeInv'
  <2> DEFINE row == [payment[t] EXCEPT !.integrityStatus = "FINAL_STATE_CONFLICT",
                                       !.recoveryCode = "STATE_TRANSITION_CONFLICT"]
  <2>1. t \in Txns /\ row \in Payment /\ payment' = [payment EXCEPT ![t] = row]
    BY <1>6 DEF RecordFinalConflictWrite, Accepted, TypeInv, TypeOK, Payment,
                IntegrityStatus, RecoveryCode
  <2> QED BY <1>6, <2>1, TypeInvPayment DEF RecordFinalConflictWrite, TypeInv, TypeOK
<1> QED BY <1>1, <1>2, <1>3, <1>4, <1>5, <1>6 DEF SettleStep

\* Every step of the store keeps rows well typed.
LEMMA TypeInvStep == TypeInv /\ [StoreNext]_storeVars => TypeInv'
<1> SUFFICES ASSUME TypeInv, [StoreNext]_storeVars PROVE TypeInv'
  OBVIOUS
<1>1. CASE UNCHANGED storeVars
  BY <1>1 DEF storeVars, TypeInv, TypeOK, DraftBounded
<1> QED BY <1>1, TypeInvDraft, TypeInvDispatch, TypeInvSettle DEF StoreNext

\* So the typing invariant holds in every state of the store.
LEMMA TypeInvAlways == StoreSpec => []TypeInv
  BY TypeInvInit, TypeInvStep, PTL DEF StoreSpec

\* Every row any interleaving of the repository's writes leaves behind is one the
\* repository's type guards accept, and no version exceeds the bound by more than
\* the payment's own increment.
THEOREM TypeCorrect == StoreSpec => []TypeOK
<1>1. TypeInv => TypeOK
  BY DEF TypeInv
<1> QED BY <1>1, TypeInvAlways, PTL

-----------------------------------------------------------------------------
(* Inventory *)

\* The steps that move units: an acceptance and the two settlements.
Prepares(c, k, t) == \E v \in Version : PreparePaymentWrite(c, k, t, v)

Approves(t) ==
    \E id \in ProviderIds, destination \in Version \ {0} :
        FinalizeApprovedWrite(t, AcknowledgedAs(id, "APPROVED"), destination)

Rejects(t, status) ==
    \E seen, providerStatus, recovery :
        FinalizeFailureWrite(t, seen, status, providerStatus, recovery)

\* Every other step leaves the product and the reservations alone.
LEMMA OtherStepsMoveNothing ==
    ASSUME [StoreNext]_storeVars
    PROVE  \/ UNCHANGED <<product, reservation, delivery>>
           \/ \E c \in Checkouts, k \in Keys, t \in Txns : Prepares(c, k, t)
           \/ \E t \in Accepted : Approves(t)
           \/ \E t \in Accepted, status \in FailureStatus : Rejects(t, status)
<1>1. CASE UNCHANGED storeVars
  BY <1>1 DEF storeVars
<1>2. CASE DraftStep
  BY <1>2 DEF DraftStep, CreateWrite, ReplaceCustomerWrite, ReplaceDeliveryDetailsWrite
<1>3. CASE DispatchStep
  <2>1. CASE \E c \in Checkouts, k \in Keys, t \in Txns, v \in Version :
                PreparePaymentWrite(c, k, t, v)
    BY <2>1 DEF Prepares
  <2> QED BY <1>3, <2>1 DEF DispatchStep, ClaimDispatchWrite, AcknowledgeProviderWrite,
                            MarkUnknownWrite, ClaimDueWrite, BecomesDue
<1>4. CASE SettleStep
  <2>1. CASE \E t \in Accepted, id \in ProviderIds, destination \in Version \ {0} :
                FinalizeApprovedWrite(t, AcknowledgedAs(id, "APPROVED"), destination)
    BY <2>1 DEF Approves
  <2>2. CASE \E t \in Accepted, id \in ProviderIds, status \in FailureStatus :
                FinalizeFailureWrite(t, AcknowledgedAs(id, status), status, status, "none")
    BY <2>2 DEF Rejects
  <2>3. CASE \E t \in Accepted, phase \in {"SENDING", "NOT_SENT_FAILED"} :
                FinalizeFailureWrite(t, UnsentIn(phase), "ERROR", "none", "PROVIDER_NOT_SENT")
    BY <2>3 DEF Rejects, FailureStatus, FinalStatus, PaymentStatus
  <2>4. CASE \E t \in Accepted :
                FinalizeFailureWrite(t, SnapshotOf(t), "ERROR", "ERROR", "PAYMENT_TOKEN_REJECTED")
    BY <2>4 DEF Rejects, FailureStatus, FinalStatus, PaymentStatus
  <2>5. CASE \/ \E t \in Accepted : RecordApprovedInventoryConflictWrite(t)
             \/ \E t \in Accepted, status \in FinalStatus : RecordFinalConflictWrite(t, status)
    BY <2>5 DEF RecordApprovedInventoryConflictWrite, RecordFinalConflictWrite
  <2> QED BY <1>4, <2>1, <2>2, <2>3, <2>4, <2>5 DEF SettleStep
<1> QED BY <1>1, <1>2, <1>3, <1>4 DEF StoreNext

\* The reservations counted below are finitely many.
LEMMA ReservedSetsFinite ==
    /\ IsFiniteSet(Active) /\ Cardinality(Active) \in Nat
    /\ IsFiniteSet(Consumed) /\ Cardinality(Consumed) \in Nat
<1>1. Active \in SUBSET Txns /\ Consumed \in SUBSET Txns
  BY DEF Active, Consumed
<1>2. IsFiniteSet(Active) /\ IsFiniteSet(Consumed)
  BY <1>1, FS_Subset, TxnsAssumption
<1> QED BY <1>2, FS_CardinalityType

\* Nothing is reserved at first.
LEMMA InventoryInit == StoreInit => InventoryMatchesReservations
<1> SUFFICES ASSUME StoreInit PROVE InventoryMatchesReservations
  OBVIOUS
<1>1. Active = {} /\ Consumed = {}
  BY DEF StoreInit, Active, Consumed
<1>2. Cardinality(Active) = 0 /\ Cardinality(Consumed) = 0
  BY <1>1, FS_EmptySet
<1> QED BY <1>2, StockAssumption DEF StoreInit, InventoryMatchesReservations

\* Every step keeps the counters in agreement with the reservations.
LEMMA InventoryStep ==
    TypeInv /\ InventoryMatchesReservations /\ [StoreNext]_storeVars
        => InventoryMatchesReservations'
<1> SUFFICES ASSUME TypeInv, InventoryMatchesReservations, [StoreNext]_storeVars
             PROVE  InventoryMatchesReservations'
  OBVIOUS
<1>0. /\ product \in Product /\ reservation \in [Txns -> ReservationStatus]
      /\ product.onHand \in Nat /\ product.reserved \in Nat /\ product.available \in Int
  BY DEF TypeInv, TypeOK, Product
<1>1. CASE UNCHANGED <<product, reservation, delivery>>
  BY <1>1 DEF InventoryMatchesReservations, Active, Consumed
<1>2. ASSUME NEW c \in Checkouts, NEW k \in Keys, NEW t \in Txns, Prepares(c, k, t)
      PROVE InventoryMatchesReservations'
  <2>1. /\ product.available >= 1
        /\ reservation[t] = "NONE"
        /\ reservation' = [reservation EXCEPT ![t] = "ACTIVE"]
        /\ product' = [product EXCEPT !.reserved = @ + 1, !.available = @ - 1]
    BY <1>2 DEF Prepares, PreparePaymentWrite, HasStock
  <2>2. t \notin Active /\ Active' = Active \cup {t} /\ Consumed' = Consumed
    BY <1>0, <2>1 DEF Active, Consumed
  <2>3. Cardinality(Active') = Cardinality(Active) + 1
    BY <2>2, ReservedSetsFinite, FS_AddElement
  <2>4. /\ product'.onHand = product.onHand
        /\ product'.reserved = product.reserved + 1
        /\ product'.available = product.available - 1
    BY <1>0, <2>1 DEF Product
  <2> QED BY <1>0, <2>1, <2>2, <2>3, <2>4, ReservedSetsFinite DEF InventoryMatchesReservations
<1>3. ASSUME NEW t \in Accepted, Approves(t) PROVE InventoryMatchesReservations'
  <2>1. /\ t \in Txns
        /\ reservation[t] = "ACTIVE"
        /\ reservation' = [reservation EXCEPT ![t] = "CONSUMED"]
        /\ product' = [product EXCEPT !.onHand = @ - 1, !.reserved = @ - 1]
    BY <1>3 DEF Approves, FinalizeApprovedWrite, ReservationCondition, Accepted
  <2>2. /\ t \in Active /\ Active' = Active \ {t}
        /\ t \notin Consumed /\ Consumed' = Consumed \cup {t}
    BY <1>0, <2>1 DEF Active, Consumed
  <2>3. /\ Cardinality(Active') = Cardinality(Active) - 1
        /\ Cardinality(Consumed') = Cardinality(Consumed) + 1
    BY <2>2, ReservedSetsFinite, FS_AddElement, FS_RemoveElement
  <2>4. /\ product'.onHand = product.onHand - 1
        /\ product'.reserved = product.reserved - 1
        /\ product'.available = product.available
    BY <1>0, <2>1 DEF Product
  <2> QED BY <1>0, <2>3, <2>4, ReservedSetsFinite DEF InventoryMatchesReservations
<1>4. ASSUME NEW t \in Accepted, NEW status \in FailureStatus, Rejects(t, status)
      PROVE InventoryMatchesReservations'
  <2>1. /\ t \in Txns
        /\ reservation[t] = "ACTIVE"
        /\ reservation' = [reservation EXCEPT ![t] = "RELEASED"]
        /\ product' = [product EXCEPT !.reserved = @ - 1, !.available = @ + 1]
    BY <1>4 DEF Rejects, FinalizeFailureWrite, ReservationCondition, Accepted
  <2>2. t \in Active /\ Active' = Active \ {t} /\ Consumed' = Consumed
    BY <1>0, <2>1 DEF Active, Consumed
  <2>3. Cardinality(Active') = Cardinality(Active) - 1
    BY <2>2, ReservedSetsFinite, FS_RemoveElement
  <2>4. /\ product'.onHand = product.onHand
        /\ product'.reserved = product.reserved - 1
        /\ product'.available = product.available + 1
    BY <1>0, <2>1 DEF Product
  <2> QED BY <1>0, <2>2, <2>3, <2>4, ReservedSetsFinite DEF InventoryMatchesReservations
<1> QED BY <1>1, <1>2, <1>3, <1>4, OtherStepsMoveNothing

\* The product is never oversold and no unit leaks, for any number of buyers: the
\* counters of the product row agree with the reservation rows after every write.
THEOREM InventoryCorrect == StoreSpec => []InventoryMatchesReservations
  BY InventoryInit, InventoryStep, TypeInvAlways, PTL DEF StoreSpec

-----------------------------------------------------------------------------
(* The five kinds of step *)

SameOwner(t) ==
    /\ payment'[t].checkoutId = payment[t].checkoutId
    /\ payment'[t].idempotencyKeyHash = payment[t].idempotencyKeyHash

\* A draft is created or edited.
Drafts(c) ==
    /\ checkout[c] = NULL \/ checkout[c].activeTransactionId = NULL
    /\ checkout'[c] \in Checkout
    /\ checkout'[c].activeTransactionId = NULL
    /\ checkout' = [checkout EXCEPT ![c] = checkout'[c]]
    /\ UNCHANGED <<product, payment, reservation, delivery, idempotency, providerLock>>

\* A payment moves on without being settled.
Touches(t) ==
    /\ payment[t] \in Payment
    /\ payment'[t] \in Payment
    /\ payment' = [payment EXCEPT ![t] = payment'[t]]
    /\ SameOwner(t)
    /\ payment'[t].paymentStatus = payment[t].paymentStatus
    /\ payment'[t].reservationStatus = payment[t].reservationStatus
    /\ payment'[t].hasDelivery = payment[t].hasDelivery
    /\ payment'[t].effectsApplied = payment[t].effectsApplied
    /\ UNCHANGED <<product, checkout, reservation, delivery, idempotency>>

\* A pending payment is settled, and its checkout and its key closed.
Settles(t, status) ==
    /\ payment[t] \in Payment
    /\ payment[t].paymentStatus = "PENDING"
    /\ payment'[t] \in Payment
    /\ payment' = [payment EXCEPT ![t] = payment'[t]]
    /\ SameOwner(t)
    /\ payment'[t].paymentStatus = status
    /\ OwnerRowsCondition(t)
    /\ CloseOwnerRows(t, status)

\* ... sold, given up, or left for review.
Sells(t) ==
    /\ Settles(t, "APPROVED")
    /\ payment'[t].reservationStatus = "CONSUMED"
    /\ payment'[t].effectsApplied /\ payment'[t].hasDelivery
    /\ reservation[t] = "ACTIVE"
    /\ reservation' = [reservation EXCEPT ![t] = "CONSUMED"]
    /\ delivery' = [delivery EXCEPT ![t] = delivery'[t]] /\ delivery'[t] # 0
    /\ product'.available = product.available

Refunds(t, status) ==
    /\ Settles(t, status)
    /\ payment'[t].reservationStatus = "RELEASED"
    /\ payment'[t].effectsApplied /\ payment'[t].hasDelivery = payment[t].hasDelivery
    /\ reservation[t] = "ACTIVE"
    /\ reservation' = [reservation EXCEPT ![t] = "RELEASED"]
    /\ delivery' = delivery
    /\ product'.available = product.available + 1

Reviews(t) ==
    /\ Settles(t, "APPROVED")
    /\ payment'[t].reservationStatus = payment[t].reservationStatus
    /\ payment'[t].effectsApplied = payment[t].effectsApplied
    /\ payment'[t].hasDelivery = payment[t].hasDelivery
    /\ UNCHANGED <<product, reservation, delivery>>

\* A draft step creates or edits one draft.
LEMMA DraftKind == TypeInv /\ TypeInv' /\ DraftStep => \E c \in Checkouts : Drafts(c)
<1> SUFFICES ASSUME TypeInv, TypeInv', DraftStep PROVE \E c \in Checkouts : Drafts(c)
  OBVIOUS
<1>1. ASSUME NEW c \in Checkouts, CreateWrite(c) PROVE Drafts(c)
  <2> DEFINE row == [status |-> "DRAFT", version |-> 1, activeTransactionId |-> NULL,
                     customer |-> 0, deliveryDetails |-> 0]
  <2>1. row \in Checkout /\ row.activeTransactionId = NULL
    BY VersionAssumption DEF Checkout, CheckoutStatus, Version
  <2>2. checkout' = [checkout EXCEPT ![c] = row] /\ checkout'[c] = row
    BY <1>1 DEF CreateWrite, TypeInv, TypeOK
  <2> HIDE DEF row
  <2> QED BY <1>1, <2>1, <2>2 DEF CreateWrite, Drafts
<1>2. ASSUME NEW c \in Checkouts, NEW v \in Version, NEW other \in BOOLEAN,
             ReplaceCustomerWrite(c, v, other)
      PROVE Drafts(c)
  <2> DEFINE row == [checkout[c] EXCEPT !.version = v + 1, !.customer = v + 1,
                                        !.status = IF other THEN "READY" ELSE "DRAFT"]
  <2>1. checkout[c] \in Checkout /\ v + 1 \in Version /\ checkout[c].activeTransactionId = NULL
    BY <1>2, VersionAssumption
    DEF ReplaceCustomerWrite, CheckoutIsAt, TypeInv, TypeOK, Version
  <2>2. row \in Checkout /\ row.activeTransactionId = NULL
    BY <2>1 DEF Checkout, CheckoutStatus
  <2>3. checkout' = [checkout EXCEPT ![c] = row] /\ checkout'[c] = row
    BY <1>2 DEF ReplaceCustomerWrite, TypeInv, TypeOK
  <2> HIDE DEF row
  <2> QED BY <1>2, <2>1, <2>2, <2>3 DEF ReplaceCustomerWrite, Drafts
<1>3. ASSUME NEW c \in Checkouts, NEW v \in Version, NEW other \in BOOLEAN,
             ReplaceDeliveryDetailsWrite(c, v, other)
      PROVE Drafts(c)
  <2> DEFINE row == [checkout[c] EXCEPT !.version = v + 1, !.deliveryDetails = v + 1,
                                        !.status = IF other THEN "READY" ELSE "DRAFT"]
  <2>1. checkout[c] \in Checkout /\ v + 1 \in Version /\ checkout[c].activeTransactionId = NULL
    BY <1>3, VersionAssumption
    DEF ReplaceDeliveryDetailsWrite, CheckoutIsAt, TypeInv, TypeOK, Version
  <2>2. row \in Checkout /\ row.activeTransactionId = NULL
    BY <2>1 DEF Checkout, CheckoutStatus
  <2>3. checkout' = [checkout EXCEPT ![c] = row] /\ checkout'[c] = row
    BY <1>3 DEF ReplaceDeliveryDetailsWrite, TypeInv, TypeOK
  <2> HIDE DEF row
  <2> QED BY <1>3, <2>1, <2>2, <2>3 DEF ReplaceDeliveryDetailsWrite, Drafts
<1> QED BY <1>1, <1>2, <1>3 DEF DraftStep

\* What the dispatch and the conflict flag change in a payment row.
LEMMA DispatchKind ==
    ASSUME TypeInv, TypeInv', DispatchStep
    PROVE  \/ \E c \in Checkouts, k \in Keys, t \in Txns : Prepares(c, k, t)
           \/ \E t \in Txns : Touches(t)
<1>0. payment \in [Txns -> Payment \cup {NULL}] /\ payment' \in [Txns -> Payment \cup {NULL}]
  BY DEF TypeInv, TypeOK
<1>1. ASSUME NEW t \in Txns, ClaimDispatchWrite(t) PROVE Touches(t)
  <2> DEFINE row == [payment[t] EXCEPT !.dispatchPhase = "SENDING", !.due = FALSE]
  <2>1. payment[t] \in Payment /\ payment' = [payment EXCEPT ![t] = row] /\ payment'[t] = row
    BY <1>0, <1>1 DEF ClaimDispatchWrite, IsPending
  <2> QED BY <1>1, <2>1 DEF ClaimDispatchWrite, Touches, SameOwner, Payment, DispatchPhase
<1>2. ASSUME NEW t \in Txns, NEW id \in ProviderIds, NEW status \in PaymentStatus,
             AcknowledgeProviderWrite(t, id, status)
      PROVE Touches(t)
  <2> DEFINE row == [payment[t] EXCEPT !.providerId = id, !.providerStatus = status,
                                       !.dispatchPhase = "ACKNOWLEDGED", !.due = FALSE]
  <2>1. payment[t] \in Payment /\ payment' = [payment EXCEPT ![t] = row] /\ payment'[t] = row
    BY <1>0, <1>2 DEF AcknowledgeProviderWrite, IsPending
  <2> QED BY <1>2, <2>1 DEF AcknowledgeProviderWrite, Touches, SameOwner, Payment,
                            DispatchPhase, ProviderStatus
<1>3. ASSUME NEW t \in Txns, MarkUnknownWrite(t) PROVE Touches(t)
  <2> DEFINE row == [payment[t] EXCEPT !.dispatchPhase = "UNKNOWN",
                        !.recoveryCode = "PROVIDER_OUTCOME_UNKNOWN", !.due = FALSE]
  <2>1. payment[t] \in Payment /\ payment' = [payment EXCEPT ![t] = row] /\ payment'[t] = row
    BY <1>0, <1>3 DEF MarkUnknownWrite, IsPending
  <2> QED BY <1>3, <2>1 DEF MarkUnknownWrite, Touches, SameOwner, Payment, DispatchPhase,
                            RecoveryCode
<1>4. ASSUME NEW t \in Txns, NEW phase \in DispatchPhase, ClaimDueWrite(t, phase)
      PROVE Touches(t)
  <2> DEFINE row == [payment[t] EXCEPT !.dispatchPhase = ClaimedPhase(phase), !.due = FALSE]
  <2>1. payment[t] \in Payment /\ payment' = [payment EXCEPT ![t] = row] /\ payment'[t] = row
    BY <1>0, <1>4 DEF ClaimDueWrite, IsPending
  <2>2. ClaimedPhase(phase) \in DispatchPhase
    BY DEF ClaimedPhase, DispatchPhase
  <2>3. /\ row \in Payment
        /\ row.checkoutId = payment[t].checkoutId
        /\ row.idempotencyKeyHash = payment[t].idempotencyKeyHash
        /\ row.paymentStatus = payment[t].paymentStatus
        /\ row.reservationStatus = payment[t].reservationStatus
        /\ row.hasDelivery = payment[t].hasDelivery
        /\ row.effectsApplied = payment[t].effectsApplied
    BY <2>1, <2>2 DEF Payment
  <2> HIDE DEF row
  <2> QED BY <1>4, <2>1, <2>3 DEF ClaimDueWrite, Touches, SameOwner
<1>5. ASSUME NEW t \in Txns, BecomesDue(t) PROVE Touches(t)
  <2> DEFINE row == [payment[t] EXCEPT !.due = TRUE]
  <2>1. payment[t] \in Payment /\ payment' = [payment EXCEPT ![t] = row] /\ payment'[t] = row
    BY <1>0, <1>5 DEF BecomesDue, IsPending
  <2> QED BY <1>5, <2>1 DEF BecomesDue, Touches, SameOwner, Payment
<1> QED BY <1>1, <1>2, <1>3, <1>4, <1>5 DEF DispatchStep, Prepares

\* A settlement closes a pending payment; what else it does depends on its kind.
LEMMA SettleKind ==
    ASSUME TypeInv, TypeInv', SettleStep
    PROVE  \/ \E t \in Txns : Touches(t) \/ Sells(t) \/ Reviews(t)
           \/ \E t \in Txns, status \in FailureStatus : Refunds(t, status)
<1>0. /\ payment \in [Txns -> Payment \cup {NULL}]
      /\ payment' \in [Txns -> Payment \cup {NULL}]
      /\ product \in Product
      /\ delivery \in [Txns -> Version]
  BY DEF TypeInv, TypeOK
<1>1. ASSUME NEW t \in Accepted, NEW id \in ProviderIds, NEW destination \in Version \ {0},
             FinalizeApprovedWrite(t, AcknowledgedAs(id, "APPROVED"), destination)
      PROVE Sells(t)
  <2> DEFINE row == [payment[t] EXCEPT
                        !.paymentStatus = "APPROVED", !.providerStatus = "APPROVED",
                        !.dispatchPhase = "ACKNOWLEDGED", !.reservationStatus = "CONSUMED",
                        !.integrityStatus = "OK", !.effectsApplied = TRUE,
                        !.hasDelivery = TRUE, !.recoveryCode = "none", !.due = FALSE]
  <2>1. /\ t \in Txns /\ payment[t] \in Payment
        /\ payment' = [payment EXCEPT ![t] = row] /\ payment'[t] = row
    BY <1>0, <1>1 DEF FinalizeApprovedWrite, Accepted
  <2>2. /\ row.checkoutId = payment[t].checkoutId
        /\ row.idempotencyKeyHash = payment[t].idempotencyKeyHash
        /\ row.paymentStatus = "APPROVED" /\ row.reservationStatus = "CONSUMED"
        /\ row.effectsApplied /\ row.hasDelivery
    BY <2>1 DEF Payment
  <2>3. row \in Payment
    BY <2>1, ApprovedRowType
  <2> HIDE DEF row
  <2>4. /\ payment[t].paymentStatus = "PENDING"
        /\ OwnerRowsCondition(t)
        /\ CloseOwnerRows(t, "APPROVED")
        /\ reservation[t] = "ACTIVE"
        /\ reservation' = [reservation EXCEPT ![t] = "CONSUMED"]
    BY <1>1 DEF FinalizeApprovedWrite, FinalPaymentCondition, IsPending, ReservationCondition
  <2>5. delivery' = [delivery EXCEPT ![t] = delivery'[t]] /\ delivery'[t] # 0
    BY <1>0, <1>1, <2>1 DEF FinalizeApprovedWrite
  <2>6. product'.available = product.available
    BY <1>0, <1>1 DEF FinalizeApprovedWrite, Product
  <2> QED BY <2>1, <2>2, <2>3, <2>4, <2>5, <2>6 DEF Sells, Settles, SameOwner
<1>2. ASSUME NEW t \in Accepted, NEW seen, NEW status \in FailureStatus,
             NEW providerStatus \in ProviderStatus, NEW recovery \in RecoveryCode,
             FinalizeFailureWrite(t, seen, status, providerStatus, recovery)
      PROVE Refunds(t, status)
  <2> DEFINE phase == IF recovery = "PROVIDER_NOT_SENT" THEN "NOT_SENT_FAILED" ELSE "ACKNOWLEDGED"
             row == [payment[t] EXCEPT
                        !.paymentStatus = status, !.providerStatus = providerStatus,
                        !.dispatchPhase = phase,
                        !.reservationStatus = "RELEASED", !.integrityStatus = "OK",
                        !.effectsApplied = TRUE, !.recoveryCode = recovery, !.due = FALSE]
  <2>1. /\ t \in Txns /\ payment[t] \in Payment
        /\ payment' = [payment EXCEPT ![t] = row] /\ payment'[t] = row
    BY <1>0, <1>2 DEF FinalizeFailureWrite, Accepted
  <2>2. /\ row.checkoutId = payment[t].checkoutId
        /\ row.idempotencyKeyHash = payment[t].idempotencyKeyHash
        /\ row.paymentStatus = status /\ row.reservationStatus = "RELEASED"
        /\ row.effectsApplied /\ row.hasDelivery = payment[t].hasDelivery
    BY <2>1 DEF Payment
  <2>3. row \in Payment
    BY <2>1 DEF Payment, DispatchPhase, ReservationStatus, IntegrityStatus, FailureStatus,
                FinalStatus
  <2> HIDE DEF row
  <2>4. /\ payment[t].paymentStatus = "PENDING"
        /\ OwnerRowsCondition(t)
        /\ CloseOwnerRows(t, status)
        /\ reservation[t] = "ACTIVE"
        /\ reservation' = [reservation EXCEPT ![t] = "RELEASED"]
        /\ delivery' = delivery
    BY <1>2 DEF FinalizeFailureWrite, FinalPaymentCondition, IsPending, ReservationCondition
  <2>5. product'.available = product.available + 1
    BY <1>0, <1>2 DEF FinalizeFailureWrite, Product
  <2> QED BY <2>1, <2>2, <2>3, <2>4, <2>5 DEF Refunds, Settles, SameOwner
<1>3. ASSUME NEW t \in Accepted, RecordApprovedInventoryConflictWrite(t) PROVE Reviews(t)
  <2> DEFINE row == [payment[t] EXCEPT
                        !.paymentStatus = "APPROVED", !.providerStatus = "APPROVED",
                        !.dispatchPhase = "ACKNOWLEDGED",
                        !.integrityStatus = "APPROVED_INVENTORY_CONFLICT",
                        !.recoveryCode = "STATE_TRANSITION_CONFLICT", !.due = FALSE]
  <2>1. /\ t \in Txns /\ payment[t] \in Payment
        /\ payment' = [payment EXCEPT ![t] = row] /\ payment'[t] = row
    BY <1>0, <1>3 DEF RecordApprovedInventoryConflictWrite, Accepted
  <2>2. /\ row.checkoutId = payment[t].checkoutId
        /\ row.idempotencyKeyHash = payment[t].idempotencyKeyHash
        /\ row.paymentStatus = "APPROVED"
        /\ row.reservationStatus = payment[t].reservationStatus
        /\ row.effectsApplied = payment[t].effectsApplied
        /\ row.hasDelivery = payment[t].hasDelivery
    BY <2>1 DEF Payment
  <2>3. row \in Payment
    BY <2>1 DEF Payment, PaymentStatus, ProviderStatus, DispatchPhase, IntegrityStatus,
                RecoveryCode
  <2> HIDE DEF row
  <2>4. payment[t].paymentStatus = "PENDING"
    BY <1>3 DEF RecordApprovedInventoryConflictWrite, IsPending
  <2> QED BY <1>3, <2>1, <2>2, <2>3, <2>4
          DEF RecordApprovedInventoryConflictWrite, Reviews, Settles, SameOwner
<1>4. ASSUME NEW t \in Accepted, NEW status \in FinalStatus, RecordFinalConflictWrite(t, status)
      PROVE Touches(t)
  <2> DEFINE row == [payment[t] EXCEPT !.integrityStatus = "FINAL_STATE_CONFLICT",
                                       !.recoveryCode = "STATE_TRANSITION_CONFLICT"]
  <2>1. /\ t \in Txns /\ payment[t] \in Payment
        /\ payment' = [payment EXCEPT ![t] = row] /\ payment'[t] = row
    BY <1>0, <1>4 DEF RecordFinalConflictWrite, Accepted
  <2> QED BY <1>4, <2>1 DEF RecordFinalConflictWrite, Touches, SameOwner, Payment,
                            IntegrityStatus, RecoveryCode
<1>5. ASSUME NEW t \in Accepted, NEW id \in ProviderIds, NEW status \in FailureStatus,
             FinalizeFailureWrite(t, AcknowledgedAs(id, status), status, status, "none")
      PROVE Refunds(t, status)
  BY <1>2, <1>5 DEF FailureStatus, FinalStatus, ProviderStatus, RecoveryCode
<1>6. /\ "ERROR" \in FailureStatus /\ {"ERROR", "none"} \subseteq ProviderStatus
      /\ {"PROVIDER_NOT_SENT", "PAYMENT_TOKEN_REJECTED"} \subseteq RecoveryCode
  BY DEF FailureStatus, FinalStatus, PaymentStatus, ProviderStatus, RecoveryCode
<1>7. ASSUME NEW t \in Accepted, NEW phase \in {"SENDING", "NOT_SENT_FAILED"},
             FinalizeFailureWrite(t, UnsentIn(phase), "ERROR", "none", "PROVIDER_NOT_SENT")
      PROVE Refunds(t, "ERROR")
  BY <1>2, <1>6, <1>7
<1>8. ASSUME NEW t \in Accepted,
             FinalizeFailureWrite(t, SnapshotOf(t), "ERROR", "ERROR", "PAYMENT_TOKEN_REJECTED")
      PROVE Refunds(t, "ERROR")
  BY <1>2, <1>6, <1>8
<1>9. Accepted \subseteq Txns
  BY DEF Accepted
<1> QED BY <1>1, <1>3, <1>4, <1>5, <1>6, <1>7, <1>8, <1>9 DEF SettleStep

\* Every step of the store is of one of these kinds.
LEMMA StepKinds ==
    ASSUME TypeInv, TypeInv', [StoreNext]_storeVars
    PROVE  \/ UNCHANGED storeVars
           \/ \E c \in Checkouts : Drafts(c)
           \/ \E c \in Checkouts, k \in Keys, t \in Txns : Prepares(c, k, t)
           \/ \E t \in Txns : Touches(t) \/ Sells(t) \/ Reviews(t)
           \/ \E t \in Txns, status \in FailureStatus : Refunds(t, status)
  BY DraftKind, DispatchKind, SettleKind DEF StoreNext

\* What an acceptance finds and leaves in the tables it writes.
Accepts(c, k, t) ==
    /\ checkout[c] # NULL /\ checkout[c].activeTransactionId = NULL
    /\ payment[t] = NULL /\ reservation[t] = "NONE" /\ idempotency[c][k] = NULL
    /\ checkout'[c] # NULL /\ checkout'[c].activeTransactionId = t
    /\ checkout'[c].status = "PAYMENT_PENDING"
    /\ checkout' = [checkout EXCEPT ![c] = checkout'[c]]
    /\ payment'[t] # NULL
    /\ payment'[t].checkoutId = c /\ payment'[t].idempotencyKeyHash = k
    /\ payment'[t].paymentStatus = "PENDING"
    /\ payment'[t].reservationStatus = "ACTIVE"
    /\ payment'[t].hasDelivery = FALSE /\ payment'[t].effectsApplied = FALSE
    /\ payment' = [payment EXCEPT ![t] = payment'[t]]
    /\ reservation' = [reservation EXCEPT ![t] = "ACTIVE"]
    /\ idempotency'[c][k] # NULL /\ idempotency'[c][k].transactionId = t
    /\ idempotency'[c][k].status = "IN_PROGRESS"
    /\ idempotency' = [idempotency EXCEPT ![c][k] = idempotency'[c][k]]
    /\ product.available >= 1 /\ product'.available = product.available - 1
    /\ UNCHANGED <<delivery, providerLock>>

\* An acceptance does what Accepts says.
LEMMA PrepareFacts ==
    ASSUME TypeInv, NEW c \in Checkouts, NEW k \in Keys, NEW t \in Txns, Prepares(c, k, t)
    PROVE  Accepts(c, k, t)
<1>0. /\ checkout \in [Checkouts -> Checkout \cup {NULL}]
      /\ payment \in [Txns -> Payment \cup {NULL}]
      /\ idempotency \in [Checkouts -> [Keys -> Idempotency \cup {NULL}]]
      /\ product \in Product
  BY DEF TypeInv, TypeOK
<1>1. PICK v \in Version : PreparePaymentWrite(c, k, t, v)
  BY DEF Prepares
<1> DEFINE row == [checkout[c] EXCEPT !.status = "PAYMENT_PENDING", !.version = v + 1,
                                      !.activeTransactionId = t]
           pay == [checkoutId |-> c, idempotencyKeyHash |-> k,
                   paymentStatus |-> "PENDING", dispatchPhase |-> "NOT_SENT",
                   providerId |-> NULL, providerStatus |-> "none",
                   reservationStatus |-> "ACTIVE", integrityStatus |-> "OK",
                   recoveryCode |-> "none", hasDelivery |-> FALSE,
                   effectsApplied |-> FALSE, due |-> FALSE]
           key == [transactionId |-> t, semanticHash |-> v, status |-> "IN_PROGRESS"]
<1>2. /\ checkout[c] # NULL /\ checkout[c].activeTransactionId = NULL
      /\ payment[t] = NULL /\ reservation[t] = "NONE" /\ idempotency[c][k] = NULL
      /\ checkout[c].version = v
  BY <1>1 DEF PreparePaymentWrite, CheckoutIsAt
<1>3. /\ row \in Checkout /\ row.activeTransactionId = t /\ row.status = "PAYMENT_PENDING"
  <2>1. checkout[c] \in Checkout /\ v + 1 \in Version
    BY <1>0, <1>2, VersionAssumption DEF TypeInv, DraftBounded, Version
  <2> QED BY <2>1 DEF Checkout, CheckoutStatus
<1>4. pay \in Payment
  BY DEF Payment, PaymentStatus, DispatchPhase, ProviderStatus, ReservationStatus,
         IntegrityStatus, RecoveryCode
<1>5. key \in Idempotency
  BY DEF Idempotency
<1>6. row # NULL /\ pay # NULL /\ key # NULL
  BY <1>3, <1>4, <1>5, NullAssumption
<1>7. checkout' = [checkout EXCEPT ![c] = row] /\ checkout'[c] = row
  BY <1>0, <1>1 DEF PreparePaymentWrite
<1>8. payment' = [payment EXCEPT ![t] = pay] /\ payment'[t] = pay
  BY <1>0, <1>1 DEF PreparePaymentWrite
<1>9. idempotency' = [idempotency EXCEPT ![c][k] = key] /\ idempotency'[c][k] = key
  BY <1>0, <1>1 DEF PreparePaymentWrite, RememberKey
<1>10. /\ pay.checkoutId = c /\ pay.idempotencyKeyHash = k /\ pay.paymentStatus = "PENDING"
       /\ pay.reservationStatus = "ACTIVE" /\ pay.hasDelivery = FALSE
       /\ pay.effectsApplied = FALSE
       /\ key.transactionId = t /\ key.status = "IN_PROGRESS"
  OBVIOUS
<1>11. product.available >= 1 /\ product'.available = product.available - 1
  BY <1>0, <1>1 DEF PreparePaymentWrite, HasStock, Product
<1>12. reservation' = [reservation EXCEPT ![t] = "ACTIVE"] /\ UNCHANGED <<delivery, providerLock>>
  BY <1>1 DEF PreparePaymentWrite
<1> HIDE DEF row, pay, key
<1> QED BY <1>2, <1>3, <1>6, <1>7, <1>8, <1>9, <1>10, <1>11, <1>12 DEF Accepts

\* What a settlement finds and leaves in the rows of its checkout and its key.
Closes(t, c, k, status) ==
    /\ c = payment[t].checkoutId /\ k = payment[t].idempotencyKeyHash
    /\ c \in Checkouts /\ k \in Keys
    /\ payment[t] # NULL /\ payment[t].paymentStatus = "PENDING"
    /\ payment'[t] # NULL /\ payment'[t].paymentStatus = status
    /\ payment'[t].checkoutId = c /\ payment'[t].idempotencyKeyHash = k
    /\ payment' = [payment EXCEPT ![t] = payment'[t]]
    /\ checkout[c] # NULL /\ checkout[c].activeTransactionId = t
    /\ checkout'[c] # NULL /\ checkout'[c].activeTransactionId = t
    /\ checkout'[c].status = CheckoutStatusForPayment(status)
    /\ checkout' = [checkout EXCEPT ![c] = checkout'[c]]
    /\ idempotency[c][k] # NULL /\ idempotency[c][k].transactionId = t
    /\ idempotency'[c][k] # NULL /\ idempotency'[c][k].transactionId = t
    /\ idempotency'[c][k].status = "FINAL"
    /\ idempotency' = [idempotency EXCEPT ![c][k] = idempotency'[c][k]]

\* A settlement closes the checkout and the key of its own payment.
LEMMA SettleFacts ==
    ASSUME TypeInv, NEW t \in Txns, NEW status, Settles(t, status)
    PROVE  \E c \in Checkouts, k \in Keys : Closes(t, c, k, status)
<1> PICK c, k : c = payment[t].checkoutId /\ k = payment[t].idempotencyKeyHash
  OBVIOUS
<1>0. /\ checkout \in [Checkouts -> Checkout \cup {NULL}]
      /\ payment \in [Txns -> Payment \cup {NULL}]
      /\ idempotency \in [Checkouts -> [Keys -> Idempotency \cup {NULL}]]
  BY DEF TypeInv, TypeOK
<1>1. /\ payment[t] \in Payment /\ payment'[t] \in Payment
      /\ payment[t].paymentStatus = "PENDING" /\ payment'[t].paymentStatus = status
      /\ payment' = [payment EXCEPT ![t] = payment'[t]]
      /\ payment'[t].checkoutId = c /\ payment'[t].idempotencyKeyHash = k
  BY DEF Settles, SameOwner
<1>2. c \in Checkouts /\ k \in Keys
  BY <1>1 DEF Payment
<1>3. /\ checkout[c] # NULL /\ checkout[c].activeTransactionId = t
      /\ idempotency[c][k] # NULL /\ idempotency[c][k].transactionId = t
  BY DEF Settles, OwnerRowsCondition
<1> DEFINE closed == CheckoutStatusForPayment(status)
           row == [checkout[c] EXCEPT !.status = closed]
           key == [idempotency[c][k] EXCEPT !.status = "FINAL"]
<1>4. closed \in CheckoutStatus
  BY DEF CheckoutStatusForPayment, CheckoutStatus
<1>5. checkout' = [checkout EXCEPT ![c].status = closed]
  BY DEF Settles, CloseOwnerRows
<1>6. idempotency' = [idempotency EXCEPT ![c][k].status = "FINAL"]
  BY DEF Settles, CloseOwnerRows
<1> HIDE DEF closed
<1>7. /\ row \in Checkout /\ row.activeTransactionId = t /\ row.status = closed
  BY <1>0, <1>2, <1>3, <1>4 DEF Checkout
<1>8. checkout' = [checkout EXCEPT ![c] = row] /\ checkout'[c] = row
  BY <1>0, <1>2, <1>5
<1>9. /\ key \in Idempotency /\ key.transactionId = t /\ key.status = "FINAL"
  BY <1>0, <1>2, <1>3 DEF Idempotency
<1>10. idempotency' = [idempotency EXCEPT ![c][k] = key] /\ idempotency'[c][k] = key
  BY <1>0, <1>2, <1>6
<1>11. row # NULL /\ key # NULL /\ payment[t] # NULL /\ payment'[t] # NULL
  BY <1>1, <1>7, <1>9, NullAssumption
<1> USE DEF closed
<1> HIDE DEF row, key
<1>12. Closes(t, c, k, status)
  BY <1>1, <1>2, <1>3, <1>7, <1>8, <1>9, <1>10, <1>11 DEF Closes
<1> QED BY <1>2, <1>12

-----------------------------------------------------------------------------
(* One payment per checkout, one payment per key *)

\* A transaction id nobody used has neither reservation nor delivery.
NothingWithoutPayment ==
    \A t \in Txns : payment[t] = NULL => reservation[t] = "NONE" /\ delivery[t] = 0

Links == OnePaymentPerCheckout /\ KeyNamesItsPayment /\ NothingWithoutPayment

\* There is nothing to link at first.
LEMMA LinksInit == StoreInit => Links
  BY DEF StoreInit, Links, OnePaymentPerCheckout, KeyNamesItsPayment, NothingWithoutPayment

\* A settlement changes the status of its checkout and of its key, never what
\* they name.
LEMMA SettlesKeepsLinks ==
    ASSUME TypeInv, Links, NEW t \in Txns, NEW status, Settles(t, status),
           \A u \in Txns \ {t} : reservation'[u] = reservation[u] /\ delivery'[u] = delivery[u]
    PROVE  Links'
<1>0. /\ checkout \in [Checkouts -> Checkout \cup {NULL}]
      /\ payment \in [Txns -> Payment \cup {NULL}]
      /\ idempotency \in [Checkouts -> [Keys -> Idempotency \cup {NULL}]]
      /\ \A u \in Txns : payment[u] # NULL => payment[u].checkoutId \in Checkouts
  BY DEF TypeInv, TypeOK, Payment
<1>1. PICK c \in Checkouts, k \in Keys : Closes(t, c, k, status)
  BY SettleFacts
<1>2. OnePaymentPerCheckout'
  BY <1>0, <1>1 DEF Closes, Links, OnePaymentPerCheckout
<1>3. KeyNamesItsPayment'
  BY <1>0, <1>1 DEF Closes, Links, KeyNamesItsPayment
<1>4. NothingWithoutPayment'
  BY <1>0, <1>1 DEF Closes, Links, NothingWithoutPayment
<1> QED BY <1>2, <1>3, <1>4 DEF Links

\* Links survives every kind of step.
LEMMA LinksStep ==
    ASSUME TypeInv, TypeInv', Links, [StoreNext]_storeVars
    PROVE  Links'
<1>0. /\ checkout \in [Checkouts -> Checkout \cup {NULL}]
      /\ payment \in [Txns -> Payment \cup {NULL}]
      /\ idempotency \in [Checkouts -> [Keys -> Idempotency \cup {NULL}]]
      /\ reservation \in [Txns -> ReservationStatus]
      /\ delivery \in [Txns -> Version]
      /\ \A t \in Txns : payment[t] # NULL => payment[t].checkoutId \in Checkouts
  BY DEF TypeInv, TypeOK, Payment
<1>1. CASE UNCHANGED storeVars
  BY <1>1 DEF storeVars, Links, OnePaymentPerCheckout, KeyNamesItsPayment, NothingWithoutPayment
<1>2. ASSUME NEW c \in Checkouts, Drafts(c) PROVE Links'
  <2>1. /\ checkout[c] = NULL \/ checkout[c].activeTransactionId = NULL
        /\ checkout' = [checkout EXCEPT ![c] = checkout'[c]]
        /\ UNCHANGED <<payment, reservation, delivery, idempotency>>
    BY <1>2 DEF Drafts
  <2>2. OnePaymentPerCheckout'
    BY <1>0, <2>1, TxnsAssumption DEF Links, OnePaymentPerCheckout
  <2> QED BY <2>1, <2>2 DEF Links, KeyNamesItsPayment, NothingWithoutPayment
<1>3. ASSUME NEW c \in Checkouts, NEW k \in Keys, NEW t \in Txns, Prepares(c, k, t)
      PROVE Links'
  <2>1. Accepts(c, k, t)
    BY <1>3, PrepareFacts
  <2>2. OnePaymentPerCheckout'
    BY <1>0, <2>1, TxnsAssumption DEF Accepts, Links, OnePaymentPerCheckout
  <2>3. KeyNamesItsPayment'
    BY <1>0, <2>1 DEF Accepts, Links, KeyNamesItsPayment
  <2>4. NothingWithoutPayment'
    BY <1>0, <2>1 DEF Accepts, Links, NothingWithoutPayment
  <2> QED BY <2>2, <2>3, <2>4 DEF Links
<1>4. ASSUME NEW t \in Txns, Touches(t) PROVE Links'
  <2>1. /\ payment[t] # NULL /\ payment'[t] # NULL
        /\ payment' = [payment EXCEPT ![t] = payment'[t]]
        /\ payment'[t].checkoutId = payment[t].checkoutId
        /\ payment'[t].idempotencyKeyHash = payment[t].idempotencyKeyHash
        /\ UNCHANGED <<checkout, reservation, delivery, idempotency>>
    BY <1>4, NullAssumption DEF Touches, SameOwner
  <2> QED BY <1>0, <2>1 DEF Links, OnePaymentPerCheckout, KeyNamesItsPayment,
                            NothingWithoutPayment
<1>5. ASSUME NEW t \in Txns, Sells(t) PROVE Links'
  BY <1>0, <1>5, SettlesKeepsLinks DEF Sells
<1>6. ASSUME NEW t \in Txns, NEW status \in FailureStatus, Refunds(t, status) PROVE Links'
  BY <1>0, <1>6, SettlesKeepsLinks DEF Refunds
<1>7. ASSUME NEW t \in Txns, Reviews(t) PROVE Links'
  BY <1>0, <1>7, SettlesKeepsLinks DEF Reviews
<1> QED BY <1>1, <1>2, <1>3, <1>4, <1>5, <1>6, <1>7, StepKinds

\* So the links hold in every state of the store.
LEMMA LinksAlways == StoreSpec => []Links
  BY LinksInit, LinksStep, TypeInvAlways, PTL DEF StoreSpec

\* For any number of sessions and submissions, a checkout never has two
\* payments: preparePayment's lock on the checkout row cannot be passed twice.
THEOREM OnePaymentCorrect == StoreSpec => []OnePaymentPerCheckout
<1>1. Links => OnePaymentPerCheckout
  BY DEF Links
<1> QED BY <1>1, LinksAlways, PTL

\* A key and a payment name each other for ever: a replay finds the payment the
\* key was first used for, and no other.
THEOREM KeysCorrect == StoreSpec => []KeyNamesItsPayment
<1>1. Links => KeyNamesItsPayment
  BY DEF Links
<1> QED BY <1>1, LinksAlways, PTL

-----------------------------------------------------------------------------
(* Settlement *)

\* What the rows around payment t say of it, one conjunct of SettledTogether each.
RowsAgree(t) ==
    LET p == payment[t] IN
    /\ p.reservationStatus = reservation[t]
    /\ p.effectsApplied <=> reservation[t] \in {"CONSUMED", "RELEASED"}
    /\ p.hasDelivery <=> delivery[t] # 0
    /\ delivery[t] # 0 <=> reservation[t] = "CONSUMED"
    /\ reservation[t] = "CONSUMED" => p.paymentStatus = "APPROVED"
    /\ p.paymentStatus \in FailureStatus <=> reservation[t] = "RELEASED"

OwnersAgree(t) ==
    LET p == payment[t] IN
    /\ checkout[p.checkoutId] # NULL =>
          checkout[p.checkoutId].status = CheckoutStatusForPayment(p.paymentStatus)
    /\ idempotency[p.checkoutId][p.idempotencyKeyHash] # NULL =>
          (idempotency[p.checkoutId][p.idempotencyKeyHash].status = "FINAL"
             <=> IsTerminalPayment(p.paymentStatus))

\* SettledTogether, payment by payment ...
LEMMA SettledParts ==
    SettledTogether <=> \A t \in Txns : payment[t] # NULL => RowsAgree(t) /\ OwnersAgree(t)
  BY DEF SettledTogether, RowsAgree, OwnersAgree

\* ... and the same of the next state.
LEMMA SettledPartsNext ==
    SettledTogether' <=> \A t \in Txns : payment'[t] # NULL => RowsAgree(t)' /\ OwnersAgree(t)'
  BY DEF SettledTogether, RowsAgree, OwnersAgree

\* The rows of a payment a settlement of t does not name stay as they are.
LEMMA OthersUntouched ==
    ASSUME TypeInv, Links, NEW t \in Txns, NEW status, Settles(t, status),
           NEW u \in Txns, u # t, payment'[u] # NULL
    PROVE  /\ payment'[u] = payment[u]
           /\ checkout'[payment[u].checkoutId] = checkout[payment[u].checkoutId]
           /\ idempotency'[payment[u].checkoutId][payment[u].idempotencyKeyHash]
                = idempotency[payment[u].checkoutId][payment[u].idempotencyKeyHash]
<1>0. /\ checkout \in [Checkouts -> Checkout \cup {NULL}]
      /\ payment \in [Txns -> Payment \cup {NULL}]
      /\ idempotency \in [Checkouts -> [Keys -> Idempotency \cup {NULL}]]
  BY DEF TypeInv, TypeOK
<1>1. PICK c \in Checkouts, k \in Keys : Closes(t, c, k, status)
  BY SettleFacts
<1>2. payment'[u] = payment[u] /\ payment[u] # NULL /\ payment[u] \in Payment
  BY <1>0, <1>1 DEF Closes
<1>3. payment[u].checkoutId \in Checkouts /\ payment[u].checkoutId # c
  BY <1>1, <1>2 DEF Closes, Links, OnePaymentPerCheckout, Payment
<1>4. checkout'[payment[u].checkoutId] = checkout[payment[u].checkoutId]
  BY <1>0, <1>1, <1>3 DEF Closes
<1>5. idempotency'[payment[u].checkoutId] = idempotency[payment[u].checkoutId]
  BY <1>0, <1>1, <1>3 DEF Closes
<1> QED BY <1>2, <1>4, <1>5

\* A settlement of t keeps the tables together if t's own rows agree after it.
LEMMA SettlesTogether ==
    ASSUME TypeInv, Links, SettledTogether, NEW t \in Txns, NEW status \in FinalStatus,
           Settles(t, status), RowsAgree(t)',
           \A u \in Txns \ {t} : reservation'[u] = reservation[u] /\ delivery'[u] = delivery[u]
    PROVE  SettledTogether'
<1>1. PICK c \in Checkouts, k \in Keys : Closes(t, c, k, status)
  BY SettleFacts
<1>2. OwnersAgree(t)'
  BY <1>1 DEF Closes, OwnersAgree, IsTerminalPayment, FinalStatus
<1>3. ASSUME NEW u \in Txns, u # t, payment'[u] # NULL PROVE RowsAgree(u)' /\ OwnersAgree(u)'
  <2>1. /\ payment'[u] = payment[u]
        /\ checkout'[payment[u].checkoutId] = checkout[payment[u].checkoutId]
        /\ idempotency'[payment[u].checkoutId][payment[u].idempotencyKeyHash]
             = idempotency[payment[u].checkoutId][payment[u].idempotencyKeyHash]
        /\ reservation'[u] = reservation[u] /\ delivery'[u] = delivery[u]
    BY <1>3, OthersUntouched
  <2>2. RowsAgree(u) /\ OwnersAgree(u)
    BY <1>3, <2>1, SettledParts
  <2> QED BY <2>1, <2>2 DEF RowsAgree, OwnersAgree
<1> QED BY <1>2, <1>3, SettledPartsNext

\* Nothing is settled at first.
LEMMA SettledInit == StoreInit => SettledTogether
  BY DEF StoreInit, SettledTogether

\* No step lets the tables disagree.
LEMMA SettledStep ==
    ASSUME TypeInv, TypeInv', Links, SettledTogether, [StoreNext]_storeVars
    PROVE  SettledTogether'
<1>0. /\ checkout \in [Checkouts -> Checkout \cup {NULL}]
      /\ payment \in [Txns -> Payment \cup {NULL}]
      /\ idempotency \in [Checkouts -> [Keys -> Idempotency \cup {NULL}]]
      /\ reservation \in [Txns -> ReservationStatus]
      /\ delivery \in [Txns -> Version]
      /\ \A t \in Txns : payment[t] # NULL => /\ payment[t].checkoutId \in Checkouts
                                             /\ payment[t].idempotencyKeyHash \in Keys
      /\ \A t \in Txns : payment[t] # NULL => RowsAgree(t) /\ OwnersAgree(t)
  BY SettledParts DEF TypeInv, TypeOK, Payment
<1>1. CASE UNCHANGED storeVars
  BY <1>1 DEF storeVars, SettledTogether
<1>2. ASSUME NEW c \in Checkouts, Drafts(c) PROVE SettledTogether'
  <2>1. ASSUME NEW u \in Txns, payment'[u] # NULL PROVE RowsAgree(u)' /\ OwnersAgree(u)'
    <3>1. payment'[u] = payment[u] /\ reservation'[u] = reservation[u] /\ delivery'[u] = delivery[u]
          /\ idempotency' = idempotency
      BY <1>2 DEF Drafts
    <3>2. checkout'[payment[u].checkoutId] = checkout[payment[u].checkoutId]
      BY <1>0, <1>2, <2>1, <3>1, TxnsAssumption DEF Drafts, Links, OnePaymentPerCheckout
    <3> QED BY <1>0, <2>1, <3>1, <3>2 DEF RowsAgree, OwnersAgree
  <2> QED BY <2>1, SettledPartsNext
<1>3. ASSUME NEW c \in Checkouts, NEW k \in Keys, NEW t \in Txns, Prepares(c, k, t)
      PROVE SettledTogether'
  <2>1. Accepts(c, k, t)
    BY <1>3, PrepareFacts
  <2>2. RowsAgree(t)' /\ OwnersAgree(t)'
    <3>1. delivery'[t] = 0 /\ reservation'[t] = "ACTIVE"
      BY <1>0, <2>1 DEF Accepts, Links, NothingWithoutPayment
    <3>2. RowsAgree(t)'
      BY <2>1, <3>1 DEF Accepts, RowsAgree, FailureStatus, FinalStatus
    <3>3. OwnersAgree(t)'
      BY <2>1 DEF Accepts, OwnersAgree, CheckoutStatusForPayment, IsTerminalPayment
    <3> QED BY <3>2, <3>3
  <2>3. ASSUME NEW u \in Txns, u # t, payment'[u] # NULL PROVE RowsAgree(u)' /\ OwnersAgree(u)'
    <3>1. /\ payment'[u] = payment[u] /\ payment[u] # NULL
          /\ reservation'[u] = reservation[u] /\ delivery'[u] = delivery[u]
      BY <1>0, <2>1, <2>3 DEF Accepts
    <3>2. payment[u].checkoutId # c
      BY <2>1, <3>1, TxnsAssumption DEF Accepts, Links, OnePaymentPerCheckout
    <3>3. /\ checkout'[payment[u].checkoutId] = checkout[payment[u].checkoutId]
          /\ idempotency'[payment[u].checkoutId] = idempotency[payment[u].checkoutId]
      BY <1>0, <2>1, <3>1, <3>2 DEF Accepts
    <3> QED BY <1>0, <3>1, <3>3 DEF RowsAgree, OwnersAgree
  <2> QED BY <2>2, <2>3, SettledPartsNext
<1>4. ASSUME NEW t \in Txns, Touches(t) PROVE SettledTogether'
  <2>1. ASSUME NEW u \in Txns, payment'[u] # NULL PROVE RowsAgree(u)' /\ OwnersAgree(u)'
    <3>1. /\ payment[u] # NULL
          /\ payment'[u].checkoutId = payment[u].checkoutId
          /\ payment'[u].idempotencyKeyHash = payment[u].idempotencyKeyHash
          /\ payment'[u].paymentStatus = payment[u].paymentStatus
          /\ payment'[u].reservationStatus = payment[u].reservationStatus
          /\ payment'[u].hasDelivery = payment[u].hasDelivery
          /\ payment'[u].effectsApplied = payment[u].effectsApplied
      BY <1>0, <1>4, <2>1, NullAssumption DEF Touches, SameOwner
    <3> QED BY <1>0, <1>4, <3>1 DEF Touches, RowsAgree, OwnersAgree
  <2> QED BY <2>1, SettledPartsNext
<1>5. ASSUME NEW t \in Txns, Sells(t) PROVE SettledTogether'
  <2>1. "APPROVED" \in FinalStatus /\ "APPROVED" \notin FailureStatus
    BY DEF FinalStatus, FailureStatus, PaymentStatus
  <2>2. RowsAgree(t)'
    BY <1>0, <1>5, <2>1 DEF Sells, Settles, RowsAgree
  <2> QED BY <1>0, <1>5, <2>1, <2>2, SettlesTogether DEF Sells
<1>6. ASSUME NEW t \in Txns, NEW status \in FailureStatus, Refunds(t, status)
      PROVE SettledTogether'
  <2>1. status \in FinalStatus
    BY DEF FailureStatus
  <2>2. payment[t] # NULL
    BY <1>6, NullAssumption DEF Refunds, Settles
  <2>3. RowsAgree(t)'
    BY <1>0, <1>6, <2>2 DEF Refunds, Settles, RowsAgree
  <2> QED BY <1>0, <1>6, <2>1, <2>3, SettlesTogether DEF Refunds
<1>7. ASSUME NEW t \in Txns, Reviews(t) PROVE SettledTogether'
  <2>1. "APPROVED" \in FinalStatus /\ {"APPROVED", "PENDING"} \cap FailureStatus = {}
    BY DEF FinalStatus, FailureStatus, PaymentStatus
  <2>2. payment[t] # NULL
    BY <1>7, NullAssumption DEF Reviews, Settles
  <2>3. RowsAgree(t)'
    BY <1>0, <1>7, <2>1, <2>2 DEF Reviews, Settles, RowsAgree
  <2> QED BY <1>7, <2>1, <2>3, SettlesTogether DEF Reviews
<1> QED BY <1>1, <1>2, <1>3, <1>4, <1>5, <1>6, <1>7, StepKinds

\* The outcome of a payment is the same in every table it is spread over, after
\* any sequence of the repository's conditional writes.
THEOREM SettlementCorrect == StoreSpec => []SettledTogether
  BY SettledInit, SettledStep, LinksAlways, TypeInvAlways, PTL DEF StoreSpec

-----------------------------------------------------------------------------
(* Finality *)

\* What no step may do to payment t: the body of SettlementIsFinal.
StaysSettled(t) ==
    payment[t] # NULL =>
        /\ payment'[t] # NULL
        /\ payment'[t].checkoutId = payment[t].checkoutId
        /\ IsTerminalPayment(payment[t].paymentStatus) =>
             /\ payment'[t].paymentStatus = payment[t].paymentStatus
             /\ reservation'[t] = reservation[t]
             /\ delivery'[t] = delivery[t]
             /\ checkout'[payment[t].checkoutId] = checkout[payment[t].checkoutId]

\* A settlement of t ends nothing that was settled before.
LEMMA SettlesStaysSettled ==
    ASSUME TypeInv, Links, NEW t \in Txns, NEW status, Settles(t, status),
           NEW u \in Txns,
           u # t => reservation'[u] = reservation[u] /\ delivery'[u] = delivery[u]
    PROVE  StaysSettled(u)
<1>1. PICK c \in Checkouts, k \in Keys : Closes(t, c, k, status)
  BY SettleFacts
<1>2. CASE u = t
  BY <1>1, <1>2 DEF Closes, StaysSettled, IsTerminalPayment
<1>3. CASE u # t
  <2>1. payment'[u] = payment[u]
    BY <1>1, <1>3 DEF Closes, TypeInv, TypeOK
  <2>2. payment[u] # NULL =>
          checkout'[payment[u].checkoutId] = checkout[payment[u].checkoutId]
    BY <1>3, <2>1, OthersUntouched
  <2> QED BY <1>3, <2>1, <2>2 DEF StaysSettled
<1> QED BY <1>2, <1>3

\* No step takes back a settled payment, or an accepted one.
LEMMA FinalStep ==
    ASSUME TypeInv, TypeInv', Links, [StoreNext]_storeVars, NEW u \in Txns
    PROVE  StaysSettled(u)
<1>0. /\ checkout \in [Checkouts -> Checkout \cup {NULL}]
      /\ payment \in [Txns -> Payment \cup {NULL}]
      /\ reservation \in [Txns -> ReservationStatus]
      /\ delivery \in [Txns -> Version]
      /\ \A t \in Txns : payment[t] # NULL => payment[t].checkoutId \in Checkouts
  BY DEF TypeInv, TypeOK, Payment
<1>1. CASE UNCHANGED storeVars
  BY <1>1 DEF storeVars, StaysSettled
<1>2. ASSUME NEW c \in Checkouts, Drafts(c) PROVE StaysSettled(u)
  BY <1>0, <1>2, TxnsAssumption DEF Drafts, StaysSettled, Links, OnePaymentPerCheckout
<1>3. ASSUME NEW c \in Checkouts, NEW k \in Keys, NEW t \in Txns, Prepares(c, k, t)
      PROVE StaysSettled(u)
  <2>1. Accepts(c, k, t)
    BY <1>3, PrepareFacts
  <2>2. payment[u] # NULL => u # t /\ payment[u].checkoutId # c
    BY <2>1, TxnsAssumption DEF Accepts, Links, OnePaymentPerCheckout
  <2> QED BY <1>0, <2>1, <2>2 DEF Accepts, StaysSettled
<1>4. ASSUME NEW t \in Txns, Touches(t) PROVE StaysSettled(u)
  BY <1>0, <1>4, NullAssumption DEF Touches, SameOwner, StaysSettled
<1>5. ASSUME NEW t \in Txns, Sells(t) PROVE StaysSettled(u)
  BY <1>0, <1>5, SettlesStaysSettled DEF Sells
<1>6. ASSUME NEW t \in Txns, NEW status \in FailureStatus, Refunds(t, status)
      PROVE StaysSettled(u)
  BY <1>0, <1>6, SettlesStaysSettled DEF Refunds
<1>7. ASSUME NEW t \in Txns, Reviews(t) PROVE StaysSettled(u)
  BY <1>7, SettlesStaysSettled DEF Reviews
<1> QED BY <1>1, <1>2, <1>3, <1>4, <1>5, <1>6, <1>7, StepKinds

\* No write, of any client in any order, undoes or redoes a settlement.
THEOREM FinalityCorrect == StoreSpec => SettlementIsFinal
<1>1. TypeInv /\ TypeInv' /\ Links /\ [StoreNext]_storeVars =>
        [\A t \in Txns : StaysSettled(t)]_storeVars
  BY FinalStep
<1>2. TypeInv /\ TypeInv' /\ Links /\ [StoreNext]_storeVars =>
        [\A t \in Txns :
          payment[t] # NULL =>
            /\ payment'[t] # NULL
            /\ payment'[t].checkoutId = payment[t].checkoutId
            /\ IsTerminalPayment(payment[t].paymentStatus) =>
                 /\ payment'[t].paymentStatus = payment[t].paymentStatus
                 /\ reservation'[t] = reservation[t]
                 /\ delivery'[t] = delivery[t]
                 /\ checkout'[payment[t].checkoutId] = checkout[payment[t].checkoutId]
        ]_storeVars
  BY <1>1 DEF StaysSettled
<1> QED BY <1>2, TypeInvAlways, LinksAlways, PTL DEF StoreSpec, SettlementIsFinal

-----------------------------------------------------------------------------
(* Provider ids *)

UnsentPhase == {"NOT_SENT", "SENDING", "NOT_SENT_FAILED"}

\* Every id a payment knows is locked for it: the strengthening that makes
\* ProviderIdNamesOnePayment inductive.
IdsLocked ==
    \A t \in Txns :
        payment[t] # NULL /\ payment[t].providerId # NULL
            => providerLock[payment[t].providerId] = t

IdInv == IdsLocked /\ UnsentHasNoProviderId

\* Payment t keeps its provider id, and is not taken for unsent later.
KeepsId(t) ==
    /\ payment[t] \in Payment
    /\ payment'[t] \in Payment
    /\ payment' = [payment EXCEPT ![t] = payment'[t]]
    /\ payment'[t].providerId = payment[t].providerId
    /\ payment'[t].dispatchPhase \in UnsentPhase => payment[t].dispatchPhase \in UnsentPhase
    /\ providerLock' = providerLock

\* A step that changes no provider id and no lock keeps IdInv.
LEMMA KeepsIdInv ==
    ASSUME TypeInv, IdInv, NEW t \in Txns, KeepsId(t)
    PROVE  IdInv'
<1>0. payment \in [Txns -> Payment \cup {NULL}] /\ payment[t] # NULL
  BY NullAssumption DEF TypeInv, TypeOK, KeepsId
<1>1. IdsLocked'
  BY <1>0 DEF IdInv, IdsLocked, KeepsId
<1>2. UnsentHasNoProviderId'
  BY <1>0 DEF IdInv, UnsentHasNoProviderId, Accepted, KeepsId, UnsentPhase
<1> QED BY <1>1, <1>2 DEF IdInv

\* The dispatch steps keep provider ids and their locks together.
LEMMA IdDispatch ==
    ASSUME TypeInv, TypeInv', IdInv, DispatchStep
    PROVE  IdInv'
<1>0. /\ payment \in [Txns -> Payment \cup {NULL}]
      /\ payment' \in [Txns -> Payment \cup {NULL}]
      /\ providerLock \in [ProviderIds -> Txns \cup {NULL}]
      /\ \A t \in Txns : payment[t] # NULL => payment[t] \in Payment
  BY DEF TypeInv, TypeOK
<1>1. ASSUME NEW c \in Checkouts, NEW k \in Keys, NEW t \in Txns, NEW v \in Version,
             PreparePaymentWrite(c, k, t, v)
      PROVE IdInv'
  <2> DEFINE pay == [checkoutId |-> c, idempotencyKeyHash |-> k,
                     paymentStatus |-> "PENDING", dispatchPhase |-> "NOT_SENT",
                     providerId |-> NULL, providerStatus |-> "none",
                     reservationStatus |-> "ACTIVE", integrityStatus |-> "OK",
                     recoveryCode |-> "none", hasDelivery |-> FALSE,
                     effectsApplied |-> FALSE, due |-> FALSE]
  <2>1. payment' = [payment EXCEPT ![t] = pay] /\ providerLock' = providerLock
    BY <1>1 DEF PreparePaymentWrite
  <2>2. pay.providerId = NULL
    OBVIOUS
  <2> HIDE DEF pay
  <2> QED BY <1>0, <2>1, <2>2 DEF IdInv, IdsLocked, UnsentHasNoProviderId, Accepted
<1>2. ASSUME NEW t \in Txns, ClaimDispatchWrite(t) PROVE KeepsId(t)
  <2> DEFINE row == [payment[t] EXCEPT !.dispatchPhase = "SENDING", !.due = FALSE]
  <2>1. payment[t] \in Payment /\ payment' = [payment EXCEPT ![t] = row] /\ payment'[t] = row
    BY <1>0, <1>2 DEF ClaimDispatchWrite, IsPending
  <2> QED BY <1>2, <2>1 DEF ClaimDispatchWrite, KeepsId, UnsentPhase, Payment, DispatchPhase
<1>3. ASSUME NEW t \in Txns, NEW id \in ProviderIds, NEW status \in PaymentStatus,
             AcknowledgeProviderWrite(t, id, status)
      PROVE IdInv'
  <2> DEFINE row == [payment[t] EXCEPT !.providerId = id, !.providerStatus = status,
                                       !.dispatchPhase = "ACKNOWLEDGED", !.due = FALSE]
  <2>1. /\ payment[t] \in Payment /\ payment' = [payment EXCEPT ![t] = row]
        /\ providerLock' = [providerLock EXCEPT ![id] = t] /\ providerLock[id] \in {NULL, t}
        /\ payment[t].providerId \in {NULL, id}
    BY <1>0, <1>3 DEF AcknowledgeProviderWrite, IsPending, LockIsFree, IdAgrees
  <2>2. row.providerId = id /\ row.dispatchPhase = "ACKNOWLEDGED"
    BY <2>1 DEF Payment
  <2> HIDE DEF row
  <2>3. IdsLocked'
    <3>1. \A u \in Txns : payment[u] # NULL => payment[u].providerId \in ProviderIds \cup {NULL}
      BY <1>0 DEF Payment
    <3> QED BY <1>0, <2>1, <2>2, <3>1, TxnsAssumption DEF IdInv, IdsLocked
  <2>4. UnsentHasNoProviderId'
    BY <1>0, <2>1, <2>2 DEF IdInv, UnsentHasNoProviderId, Accepted
  <2> QED BY <2>3, <2>4 DEF IdInv
<1>4. ASSUME NEW t \in Txns, MarkUnknownWrite(t) PROVE KeepsId(t)
  <2> DEFINE row == [payment[t] EXCEPT !.dispatchPhase = "UNKNOWN",
                                       !.recoveryCode = "PROVIDER_OUTCOME_UNKNOWN", !.due = FALSE]
  <2>1. payment[t] \in Payment /\ payment' = [payment EXCEPT ![t] = row] /\ payment'[t] = row
    BY <1>0, <1>4 DEF MarkUnknownWrite, IsPending
  <2> QED BY <1>4, <2>1 DEF MarkUnknownWrite, KeepsId, UnsentPhase, Payment, DispatchPhase,
                            RecoveryCode
<1>5. ASSUME NEW t \in Txns, NEW phase \in DispatchPhase, ClaimDueWrite(t, phase)
      PROVE KeepsId(t)
  <2> DEFINE row == [payment[t] EXCEPT !.dispatchPhase = ClaimedPhase(phase), !.due = FALSE]
  <2>1. /\ payment[t] \in Payment /\ payment' = [payment EXCEPT ![t] = row]
        /\ payment'[t] = row /\ payment[t].dispatchPhase = phase
    BY <1>0, <1>5 DEF ClaimDueWrite, IsPending
  <2>2. ClaimedPhase(phase) \in DispatchPhase /\ (ClaimedPhase(phase) \in UnsentPhase => phase \in UnsentPhase)
    BY DEF ClaimedPhase, DispatchPhase, UnsentPhase
  <2> QED BY <1>5, <2>1, <2>2 DEF ClaimDueWrite, KeepsId, Payment
<1>6. ASSUME NEW t \in Txns, BecomesDue(t) PROVE KeepsId(t)
  <2> DEFINE row == [payment[t] EXCEPT !.due = TRUE]
  <2>1. payment[t] \in Payment /\ payment' = [payment EXCEPT ![t] = row] /\ payment'[t] = row
    BY <1>0, <1>6 DEF BecomesDue, IsPending
  <2> QED BY <1>6, <2>1 DEF BecomesDue, KeepsId, Payment
<1> QED BY <1>1, <1>2, <1>3, <1>4, <1>5, <1>6, KeepsIdInv DEF DispatchStep

\* So do the settling steps.
LEMMA IdSettle ==
    ASSUME TypeInv, TypeInv', IdInv, SettleStep
    PROVE  IdInv'
<1>0. /\ payment \in [Txns -> Payment \cup {NULL}]
      /\ payment' \in [Txns -> Payment \cup {NULL}]
      /\ Accepted \subseteq Txns
  BY DEF TypeInv, TypeOK, Accepted
<1>1. ASSUME NEW t \in Accepted, NEW seen, NEW destination,
             FinalizeApprovedWrite(t, seen, destination)
      PROVE KeepsId(t)
  <2> DEFINE row == [payment[t] EXCEPT
                        !.paymentStatus = "APPROVED", !.providerStatus = "APPROVED",
                        !.dispatchPhase = "ACKNOWLEDGED", !.reservationStatus = "CONSUMED",
                        !.integrityStatus = "OK", !.effectsApplied = TRUE,
                        !.hasDelivery = TRUE, !.recoveryCode = "none", !.due = FALSE]
  <2>1. /\ payment[t] \in Payment /\ payment' = [payment EXCEPT ![t] = row]
        /\ payment'[t] = row /\ providerLock' = providerLock
    BY <1>0, <1>1 DEF FinalizeApprovedWrite, Accepted
  <2>2. row \in Payment
    BY <2>1, ApprovedRowType
  <2>3. row.providerId = payment[t].providerId /\ row.dispatchPhase = "ACKNOWLEDGED"
    BY <2>1 DEF Payment
  <2> HIDE DEF row
  <2> QED BY <2>1, <2>2, <2>3 DEF KeepsId, UnsentPhase
<1>2. ASSUME NEW t \in Accepted, NEW seen, NEW status \in FailureStatus,
             NEW providerStatus \in ProviderStatus, NEW recovery \in RecoveryCode,
             recovery = "PROVIDER_NOT_SENT" => seen.dispatchPhase \in UnsentPhase,
             FinalizeFailureWrite(t, seen, status, providerStatus, recovery)
      PROVE KeepsId(t)
  <2> DEFINE phase == IF recovery = "PROVIDER_NOT_SENT" THEN "NOT_SENT_FAILED" ELSE "ACKNOWLEDGED"
             row == [payment[t] EXCEPT
                        !.paymentStatus = status, !.providerStatus = providerStatus,
                        !.dispatchPhase = phase,
                        !.reservationStatus = "RELEASED", !.integrityStatus = "OK",
                        !.effectsApplied = TRUE, !.recoveryCode = recovery, !.due = FALSE]
  <2>1. /\ payment[t] \in Payment /\ payment' = [payment EXCEPT ![t] = row]
        /\ payment'[t] = row /\ providerLock' = providerLock
    BY <1>0, <1>2 DEF FinalizeFailureWrite, Accepted
  <2>2. row \in Payment
    BY <2>1 DEF Payment, DispatchPhase, ReservationStatus, IntegrityStatus, FailureStatus,
                FinalStatus
  <2>3. row.providerId = payment[t].providerId /\ row.dispatchPhase = phase
    BY <2>1 DEF Payment
  <2>4. phase \in UnsentPhase => payment[t].dispatchPhase \in UnsentPhase
    BY <1>2 DEF FinalizeFailureWrite, FinalPaymentCondition, UnsentPhase
  <2> HIDE DEF row, phase
  <2> QED BY <2>1, <2>2, <2>3, <2>4 DEF KeepsId
<1>3. ASSUME NEW t \in Accepted, RecordApprovedInventoryConflictWrite(t) PROVE KeepsId(t)
  <2> DEFINE row == [payment[t] EXCEPT
                        !.paymentStatus = "APPROVED", !.providerStatus = "APPROVED",
                        !.dispatchPhase = "ACKNOWLEDGED",
                        !.integrityStatus = "APPROVED_INVENTORY_CONFLICT",
                        !.recoveryCode = "STATE_TRANSITION_CONFLICT", !.due = FALSE]
  <2>1. /\ payment[t] \in Payment /\ payment' = [payment EXCEPT ![t] = row]
        /\ payment'[t] = row /\ providerLock' = providerLock
    BY <1>0, <1>3 DEF RecordApprovedInventoryConflictWrite, Accepted
  <2>2. row \in Payment
    BY <2>1 DEF Payment, PaymentStatus, ProviderStatus, DispatchPhase, IntegrityStatus,
                RecoveryCode
  <2>3. row.providerId = payment[t].providerId /\ row.dispatchPhase = "ACKNOWLEDGED"
    BY <2>1 DEF Payment
  <2> HIDE DEF row
  <2> QED BY <2>1, <2>2, <2>3 DEF KeepsId, UnsentPhase
<1>4. ASSUME NEW t \in Accepted, NEW status \in FinalStatus, RecordFinalConflictWrite(t, status)
      PROVE KeepsId(t)
  <2> DEFINE row == [payment[t] EXCEPT !.integrityStatus = "FINAL_STATE_CONFLICT",
                                       !.recoveryCode = "STATE_TRANSITION_CONFLICT"]
  <2>1. /\ payment[t] \in Payment /\ payment' = [payment EXCEPT ![t] = row]
        /\ payment'[t] = row /\ providerLock' = providerLock
    BY <1>0, <1>4 DEF RecordFinalConflictWrite, Accepted
  <2>2. /\ row \in Payment /\ row.providerId = payment[t].providerId
        /\ row.dispatchPhase = payment[t].dispatchPhase
    BY <2>1 DEF Payment, IntegrityStatus, RecoveryCode
  <2> HIDE DEF row
  <2> QED BY <2>1, <2>2 DEF KeepsId
<1>5. ASSUME NEW t \in Accepted, NEW id \in ProviderIds, NEW status \in FailureStatus,
             FinalizeFailureWrite(t, AcknowledgedAs(id, status), status, status, "none")
      PROVE KeepsId(t)
  BY <1>2, <1>5 DEF FailureStatus, FinalStatus, ProviderStatus, RecoveryCode
<1>6. /\ "ERROR" \in FailureStatus /\ {"ERROR", "none"} \subseteq ProviderStatus
      /\ {"PROVIDER_NOT_SENT", "PAYMENT_TOKEN_REJECTED"} \subseteq RecoveryCode
  BY DEF FailureStatus, FinalStatus, PaymentStatus, ProviderStatus, RecoveryCode
<1>7. ASSUME NEW t \in Accepted, NEW phase \in {"SENDING", "NOT_SENT_FAILED"},
             FinalizeFailureWrite(t, UnsentIn(phase), "ERROR", "none", "PROVIDER_NOT_SENT")
      PROVE KeepsId(t)
  <2>1. UnsentIn(phase).dispatchPhase \in UnsentPhase
    BY DEF UnsentIn, UnsentPhase
  <2> QED BY <1>2, <1>6, <1>7, <2>1
<1>8. ASSUME NEW t \in Accepted,
             FinalizeFailureWrite(t, SnapshotOf(t), "ERROR", "ERROR", "PAYMENT_TOKEN_REJECTED")
      PROVE KeepsId(t)
  BY <1>2, <1>6, <1>8
<1> QED BY <1>0, <1>1, <1>3, <1>4, <1>5, <1>7, <1>8, KeepsIdInv DEF SettleStep

\* So does every step.
LEMMA IdStep == TypeInv /\ TypeInv' /\ IdInv /\ [StoreNext]_storeVars => IdInv'
<1> SUFFICES ASSUME TypeInv, TypeInv', IdInv, [StoreNext]_storeVars PROVE IdInv'
  OBVIOUS
<1>1. CASE UNCHANGED storeVars
  BY <1>1 DEF storeVars, IdInv, IdsLocked, UnsentHasNoProviderId, Accepted
<1>2. CASE DraftStep
  BY <1>2 DEF DraftStep, CreateWrite, ReplaceCustomerWrite, ReplaceDeliveryDetailsWrite,
              IdInv, IdsLocked, UnsentHasNoProviderId, Accepted
<1> QED BY <1>1, <1>2, IdDispatch, IdSettle DEF StoreNext

\* No provider id is known at first.
LEMMA IdInit == StoreInit => IdInv
  BY DEF StoreInit, IdInv, IdsLocked, UnsentHasNoProviderId, Accepted

\* So IdInv holds in every state of the store.
LEMMA IdAlways == StoreSpec => []IdInv
  BY IdInit, IdStep, TypeInvAlways, PTL DEF StoreSpec

\* The PROVIDER lock rows keep every provider transaction to one payment.
THEOREM ProviderIdsCorrect == StoreSpec => []ProviderIdNamesOnePayment
<1>1. IdInv => ProviderIdNamesOnePayment
  BY DEF IdInv, IdsLocked, ProviderIdNamesOnePayment, Accepted
<1> QED BY <1>1, IdAlways, PTL

\* An unsent dispatch phase always means that no provider id is known.
THEOREM UnsentCorrect == StoreSpec => []UnsentHasNoProviderId
<1>1. IdInv => UnsentHasNoProviderId
  BY DEF IdInv
<1> QED BY <1>1, IdAlways, PTL

-----------------------------------------------------------------------------
(* The store implements PaymentPromise *)

\* The initial states of the store are the promise's.
LEMMA PromiseFromInit == StoreInit => Promise!PromiseInit
<1> SUFFICES ASSUME StoreInit PROVE Promise!PromiseInit
  OBVIOUS
<1>1. product.available = Stock
  BY DEF StoreInit
<1>2. \A c \in Checkouts : checkout[c] = NULL \/ checkout[c].activeTransactionId = NULL
  BY DEF StoreInit, ReadyDraft
<1>3. \A t \in Txns : OutcomeOf(t) = "none" /\ ~(delivery[t] # 0)
  BY DEF StoreInit, OutcomeOf
<1> QED BY <1>1, <1>2, <1>3 DEF Promise!PromiseInit

\* The values PaymentPromise's variables take under the refinement mapping.
AttemptOf(c) == IF checkout[c] = NULL THEN NULL ELSE checkout[c].activeTransactionId

\* The outcome of a payment, case by case ...
LEMMA OutcomeCases ==
    ASSUME NEW t
    PROVE  /\ payment[t] = NULL => OutcomeOf(t) = "none"
           /\ payment[t] # NULL =>
                OutcomeOf(t) = CASE payment[t].paymentStatus = "PENDING" -> "pending"
                                 [] payment[t].paymentStatus = "APPROVED" ->
                                      IF payment[t].effectsApplied THEN "sold" ELSE "review"
                                 [] OTHER -> "failed"
  BY DEF OutcomeOf

\* ... and the same of the next state.
LEMMA OutcomeCasesNext ==
    ASSUME NEW t
    PROVE  /\ payment'[t] = NULL => OutcomeOf(t)' = "none"
           /\ payment'[t] # NULL =>
                OutcomeOf(t)' = CASE payment'[t].paymentStatus = "PENDING" -> "pending"
                                  [] payment'[t].paymentStatus = "APPROVED" ->
                                       IF payment'[t].effectsApplied THEN "sold" ELSE "review"
                                  [] OTHER -> "failed"
  BY DEF OutcomeOf

\* A settlement leaves every checkout's slot and every other payment's outcome.
LEMMA SettlesOneOutcome ==
    ASSUME TypeInv, Links, NEW t \in Txns, NEW status, Settles(t, status)
    PROVE  /\ \A c \in Checkouts : AttemptOf(c)' = AttemptOf(c)
           /\ \A u \in Txns : u # t => OutcomeOf(u)' = OutcomeOf(u)
           /\ OutcomeOf(t) = "pending"
<1>0. checkout \in [Checkouts -> Checkout \cup {NULL}] /\ payment \in [Txns -> Payment \cup {NULL}]
  BY DEF TypeInv, TypeOK
<1>1. PICK c \in Checkouts, k \in Keys : Closes(t, c, k, status)
  BY SettleFacts
<1>2. \A d \in Checkouts : AttemptOf(d)' = AttemptOf(d)
  BY <1>0, <1>1 DEF Closes, AttemptOf
<1>3. ASSUME NEW u \in Txns, u # t PROVE OutcomeOf(u)' = OutcomeOf(u)
  <2>1. payment'[u] = payment[u]
    BY <1>0, <1>1, <1>3 DEF Closes
  <2> QED BY <2>1 DEF OutcomeOf
<1>4. OutcomeOf(t) = "pending"
  BY <1>1, OutcomeCases DEF Closes
<1> QED BY <1>2, <1>3, <1>4

\* Each step of the store is one step of the promise, or none.
LEMMA PromiseStep ==
    ASSUME TypeInv, TypeInv', Links, SettledTogether, [StoreNext]_storeVars
    PROVE  [Promise!PromiseNext]_(Promise!vars)
<1>0. /\ checkout \in [Checkouts -> Checkout \cup {NULL}]
      /\ payment \in [Txns -> Payment \cup {NULL}]
      /\ delivery \in [Txns -> Version]
      /\ product.available \in Int
  BY DEF TypeInv, TypeOK, Product
<1>3. CASE UNCHANGED storeVars
  BY <1>3 DEF storeVars, Promise!vars, OutcomeOf
<1>4. ASSUME NEW c \in Checkouts, Drafts(c) PROVE UNCHANGED Promise!vars
  <2>1. \A d \in Checkouts : AttemptOf(d)' = AttemptOf(d)
    BY <1>0, <1>4, NullAssumption DEF Drafts, AttemptOf
  <2>2. \A t \in Txns : OutcomeOf(t)' = OutcomeOf(t)
    BY <1>4 DEF Drafts, OutcomeOf
  <2> QED BY <1>4, <2>1, <2>2 DEF Drafts, Promise!vars, AttemptOf
<1>5. ASSUME NEW c \in Checkouts, NEW k \in Keys, NEW t \in Txns, Prepares(c, k, t)
      PROVE Promise!Accept(c, t)
  <2>1. Accepts(c, k, t)
    BY <1>5, PrepareFacts
  <2>2. \A d \in Checkouts : AttemptOf(d)' = IF d = c THEN t ELSE AttemptOf(d)
    BY <1>0, <2>1 DEF Accepts, AttemptOf
  <2>3. AttemptOf(c) = NULL
    BY <2>1 DEF Accepts, AttemptOf
  <2>4. OutcomeOf(t) = "none" /\ OutcomeOf(t)' = "pending"
    BY <2>1, OutcomeCases, OutcomeCasesNext DEF Accepts
  <2>5. ASSUME NEW u \in Txns, u # t PROVE OutcomeOf(u)' = OutcomeOf(u)
    <3>1. payment'[u] = payment[u]
      BY <1>0, <2>1, <2>5 DEF Accepts
    <3> QED BY <3>1 DEF OutcomeOf
  <2>6. product.available > 0 /\ product'.available = product.available - 1 /\ delivery' = delivery
    BY <1>0, <2>1 DEF Accepts
  <2> QED BY <2>2, <2>3, <2>4, <2>5, <2>6 DEF Promise!Accept, AttemptOf
<1>6. ASSUME NEW t \in Txns, Touches(t) PROVE UNCHANGED Promise!vars
  <2>1. ASSUME NEW u \in Txns PROVE OutcomeOf(u)' = OutcomeOf(u)
    <3>1. CASE u = t
      <4>1. payment[u] # NULL /\ payment'[u] # NULL
        BY <1>6, <3>1, NullAssumption DEF Touches
      <4> QED BY <1>6, <3>1, <4>1 DEF Touches, OutcomeOf
    <3>2. CASE u # t
      <4>1. payment'[u] = payment[u]
        BY <1>0, <1>6, <3>2 DEF Touches
      <4> QED BY <4>1 DEF OutcomeOf
    <3> QED BY <3>1, <3>2
  <2> QED BY <1>6, <2>1 DEF Touches, Promise!vars
<1>7. ASSUME NEW t \in Txns, Sells(t) PROVE Promise!Sell(t)
  <2>1. OutcomeOf(t)' = "sold"
    BY <1>7, NullAssumption, OutcomeCasesNext DEF Sells, Settles
  <2>2. {u \in Txns : delivery'[u] # 0} = {u \in Txns : delivery[u] # 0} \cup {t}
    BY <1>0, <1>7 DEF Sells
  <2>3. product'.available = product.available /\ Settles(t, "APPROVED")
    BY <1>7 DEF Sells
  <2> QED BY <2>1, <2>2, <2>3, SettlesOneOutcome DEF Promise!Sell, AttemptOf
<1>8. ASSUME NEW t \in Txns, NEW status \in FailureStatus, Refunds(t, status)
      PROVE Promise!Fail(t)
  <2>1. status # "PENDING" /\ status # "APPROVED"
    BY DEF FailureStatus, FinalStatus
  <2>2. OutcomeOf(t)' = "failed"
    BY <1>8, <2>1, NullAssumption, OutcomeCasesNext DEF Refunds, Settles
  <2>3. /\ product'.available = product.available + 1 /\ delivery' = delivery
        /\ Settles(t, status)
    BY <1>8 DEF Refunds
  <2> QED BY <2>2, <2>3, SettlesOneOutcome DEF Promise!Fail, AttemptOf
<1>9. ASSUME NEW t \in Txns, Reviews(t) PROVE Promise!Escalate(t)
  <2>1. payment[t] # NULL /\ payment[t].paymentStatus = "PENDING" /\ payment[t] \in Payment
    BY <1>9, NullAssumption DEF Reviews, Settles
  <2>2. payment[t].effectsApplied = FALSE
    BY <2>1 DEF SettledTogether, FailureStatus, FinalStatus, Payment
  <2>3. OutcomeOf(t)' = "review"
    BY <1>9, <2>2, NullAssumption, OutcomeCasesNext DEF Reviews, Settles
  <2>4. product' = product /\ delivery' = delivery /\ Settles(t, "APPROVED")
    BY <1>9 DEF Reviews
  <2> QED BY <2>3, <2>4, SettlesOneOutcome DEF Promise!Escalate, AttemptOf
<1> QED BY <1>3, <1>4, <1>5, <1>6, <1>7, <1>8, <1>9, StepKinds DEF Promise!PromiseNext

\* The store keeps the promise: seen through the refinement mapping, its
\* writes only accept, sell, fail or escalate one payment at a time.
THEOREM PromiseKept == StoreSpec => KeepsPromise
<1>1. TypeInv /\ TypeInv' /\ Links /\ SettledTogether /\ [StoreNext]_storeVars =>
        [Promise!PromiseNext]_(Promise!vars)
  BY PromiseStep
<1> QED BY <1>1, PromiseFromInit, TypeInvAlways, LinksAlways, SettlementCorrect, PTL
        DEF StoreSpec, KeepsPromise, Promise!PromiseSpec

(***************************************************************************)
(* The service.                                                            *)
(***************************************************************************)

-----------------------------------------------------------------------------
(* What an actor carries *)

Label == {"idle", "lookup", "prepare", "preparing", "cancelled", "claim", "claiming", "create",
          "posted", "ack", "acking", "unknown", "marking", "finalize", "effects", "settling",
          "flag", "escalate", "answered", "refused", "stopped", "claimDue", "claimDueWrite",
          "batch"}

\* The awaits at which an actor is working on a payment.
Carrying == {"claim", "claiming", "create", "posted", "ack", "acking", "unknown", "marking",
             "finalize", "effects", "settling", "flag", "escalate", "claimDueWrite"}

Op == [txn : Txns \cup {NULL}, seen : Snapshot \cup {NULL}, status : PaymentStatus,
       recovery : RecoveryCode, destination : Version]

Request == [checkoutId : Checkouts, key : Keys, expectedVersion : Version,
            submittable : BOOLEAN]

Claim == [providerId : ProviderIds \cup {NULL}, dispatchPhase : DispatchPhase]

\* The outcomes finalize is called with.
IsOutcome(o) ==
    \/ o.status \in FinalStatus /\ o.recovery = "none"
    \/ o.status = "ERROR" /\ o.recovery \in {"PROVIDER_NOT_SENT", "PAYMENT_TOKEN_REJECTED"}

\* What an actor standing at an await carries there: the payment, and from
\* finalize on an outcome its own checks have admitted.
Carries(label, o) ==
    /\ label \in Carrying => o.txn # NULL
    /\ label \in {"finalize", "effects", "settling"} => IsOutcome(o)
    /\ label \in {"effects", "settling"} =>
          /\ o.seen \in Snapshot
          /\ FinalizeAdmits(o.seen, o.status, ProviderStatusOf(o), o.recovery)
    /\ label = "settling" /\ o.status = "APPROVED" => o.destination # 0
    /\ label = "escalate" => o.status = "APPROVED"
    /\ label = "flag" => o.seen \in Snapshot /\ o.seen.paymentStatus \in FinalStatus
    /\ label = "claimDueWrite" => o.seen \in Snapshot

OpsFit == \A a \in Actors : Carries(pc[a], op[a])

OpsNamePayments == \A a \in Actors : op[a].txn # NULL => payment[op[a].txn] # NULL

RequestsTyped ==
    /\ req \in [Txns -> Request \cup {NULL}]
    /\ \A p \in Txns : pc[p] # "idle" => req[p] \in Request

ClaimsNamePayments ==
    /\ claimed \in [Txns -> Claim \cup {NULL}]
    /\ \A t \in Txns : claimed[t] # NULL => payment[t] # NULL

ServiceInv ==
    /\ ServiceTypeOK
    /\ OpsFit
    /\ OpsNamePayments
    /\ RequestsTyped
    /\ ClaimsNamePayments

-----------------------------------------------------------------------------
(* The writes of the service are the store's *)

\* Every write the service and its surroundings send, with who sends it.
ServiceWrite ==
    \/ \E p \in Txns :
          /\ At(p, "preparing")
          /\ PreparePaymentWrite(req[p].checkoutId, req[p].key, p, req[p].expectedVersion)
    \/ \E p \in Txns : At(p, "claiming") /\ ClaimDispatchWrite(op[p].txn)
    \/ \E a \in Actors :
          At(a, "acking") /\ AcknowledgeProviderWrite(op[a].txn, op[a].txn, op[a].status)
    \/ \E a \in Actors : At(a, "marking") /\ MarkUnknownWrite(op[a].txn)
    \/ \E a \in Actors : At(a, "settling") /\ SettleWrite(a)
    \/ \E a \in Actors :
          At(a, "flag") /\ RecordFinalConflictWrite(op[a].txn, op[a].seen.paymentStatus)
    \/ \E a \in Actors :
          At(a, "escalate") /\ RecordApprovedInventoryConflictWrite(op[a].txn)
    \/ /\ At(Worker, "claimDueWrite")
       /\ ClaimDueWrite(op[Worker].txn, op[Worker].seen.dispatchPhase)
    \/ \E t \in Txns : BecomesDue(t)
    \/ \E c \in Checkouts :
          /\ checkout[c] # NULL
          /\ ReplaceDeliveryDetailsWrite(c, checkout[c].version, checkout[c].customer # 0)

\* An invocation writes the store only where it awaits a write.
LEMMA InvocationWrites ==
    ASSUME NEW p \in Txns, Invocation(p)
    PROVE  UNCHANGED storeVars \/ ServiceWrite
<1>1. CASE Prepare(p)
  BY <1>1 DEF Prepare, ServiceWrite
<1>2. CASE ClaimDispatch(p)
  BY <1>2 DEF ClaimDispatch, ServiceWrite
<1>3. CASE (\E c \in Checkouts, k \in Keys, v \in Version : Submit(p, c, k, v)) \/ Replay(p)
           \/ Refuse(p) \/ Proceed(p) \/ PrepareCancelled(p) \/ ClaimRead(p) \/ DoNotPost(p)
           \/ Post(p) \/ PostAnswered(p)
  BY <1>3 DEF Submit, Replay, Refuse, Proceed, PrepareCancelled, ClaimRead, DoNotPost, Post,
              PostAnswered
<1> QED BY <1>1, <1>2, <1>3 DEF Invocation

\* So does an actor that applies an outcome.
LEMMA ApplyWrites ==
    ASSUME NEW a \in Actors, Apply(a)
    PROVE  UNCHANGED storeVars \/ ServiceWrite
<1>1. CASE Acknowledge(a)
  BY <1>1 DEF Acknowledge, ServiceWrite
<1>2. CASE MarkUnknown(a)
  BY <1>2 DEF MarkUnknown, ServiceWrite
<1>3. CASE Settle(a)
  BY <1>3 DEF Settle, ServiceWrite
<1>4. CASE Flag(a)
  BY <1>4 DEF Flag, ServiceWrite
<1>5. CASE Escalate(a)
  BY <1>5 DEF Escalate, ServiceWrite
<1>6. CASE AckRead(a) \/ MarkUnknownRead(a) \/ FinalizeRead(a) \/ EffectsRead(a)
           \/ SettleCancelled(a)
  BY <1>6 DEF AckRead, MarkUnknownRead, FinalizeRead, EffectsRead, SettleCancelled
<1> QED BY <1>1, <1>2, <1>3, <1>4, <1>5, <1>6 DEF Apply

\* No step writes the store otherwise.
LEMMA OnlyServiceWrites ==
    ASSUME [Next]_vars
    PROVE  UNCHANGED storeVars \/ ServiceWrite
<1>1. CASE UNCHANGED vars
  BY <1>1 DEF vars
<1>2. ASSUME Reconcile PROVE UNCHANGED storeVars \/ ServiceWrite
  <2>1. CASE ClaimDue
    BY <2>1 DEF ClaimDue, ServiceWrite
  <2>2. CASE ClaimedAll \/ RunEnds
    BY <2>2 DEF ClaimedAll, RunEnds
  <2>3. ASSUME NEW t \in Txns,
               ClaimDueRead(t) \/ ReconcileUnsent(t) \/ ReconcileRead(t) \/ OverQuota(t)
        PROVE UNCHANGED storeVars
    BY <2>3 DEF ClaimDueRead, ReconcileUnsent, ReconcileRead, OverQuota, TakeUp
  <2>4. ASSUME NEW candidates \in SUBSET Txns, StartRun(candidates)
        PROVE UNCHANGED storeVars
    BY <2>4 DEF StartRun
  <2> QED BY <1>2, <2>1, <2>2, <2>3, <2>4 DEF Reconcile, ReconcileStep
<1>3. ASSUME Environment PROVE UNCHANGED storeVars \/ ServiceWrite
  <2>1. ASSUME NEW t \in Txns, Clock(t) PROVE ServiceWrite
    BY <2>1 DEF Clock, ServiceWrite
  <2>2. ASSUME NEW c \in Checkouts, EditDetails(c) PROVE ServiceWrite
    BY <2>2 DEF EditDetails, ServiceWrite
  <2>3. ASSUME NEW t \in Txns, ReceivePost(t) \/ DecideCharge(t) PROVE UNCHANGED storeVars
    BY <2>3 DEF ReceivePost, DecideCharge
  <2>4. ASSUME NEW a \in Actors, RequestFails(a) \/ Stop(a) PROVE UNCHANGED storeVars
    BY <2>4 DEF RequestFails, Stop
  <2> QED BY <1>3, <2>1, <2>2, <2>3, <2>4 DEF Environment
<1> QED BY <1>1, <1>2, <1>3, InvocationWrites, ApplyWrites DEF Next

\* What the typing says of the actor at hand.
LEMMA OpType ==
    ASSUME ServiceInv, NEW a \in Actors
    PROVE  /\ op[a] \in Op
           /\ op[a].txn \in Txns \cup {NULL}
           /\ op[a].txn # NULL => op[a].txn \in Accepted
           /\ Carries(pc[a], op[a])
<1>1. op[a] \in Op
  BY DEF ServiceInv, ServiceTypeOK, Op
<1>2. op[a].txn \in Txns \cup {NULL}
  BY <1>1 DEF Op
<1>3. Carries(pc[a], op[a])
  BY DEF ServiceInv, OpsFit
<1>4. op[a].txn # NULL => payment[op[a].txn] # NULL
  BY DEF ServiceInv, OpsNamePayments
<1> QED BY <1>1, <1>2, <1>3, <1>4 DEF Accepted

\* Settling with what finalize has admitted is one of the store's settlements.
LEMMA SettleIsStores ==
    ASSUME TypeInv, ServiceInv, NEW a \in Actors, At(a, "settling"), SettleWrite(a)
    PROVE  SettleStep
<1> DEFINE o == op[a]
           t == op[a].txn
           id == op[a].seen.providerId
           phase == op[a].seen.dispatchPhase
<1>1. /\ o \in Op /\ t \in Accepted
      /\ o.seen \in Snapshot
      /\ IsOutcome(o)
      /\ FinalizeAdmits(o.seen, o.status, ProviderStatusOf(o), o.recovery)
      /\ o.status = "APPROVED" => o.destination # 0
  BY OpType DEF At, Carries, Carrying
<1>2. id \in ProviderIds \cup {NULL} /\ phase \in DispatchPhase
  BY <1>1 DEF Snapshot
<1>3. CASE o.status = "APPROVED"
  <2>1. /\ o.recovery = "none" /\ o.destination \in Version \ {0}
        /\ FinalizeApprovedWrite(t, o.seen, o.destination)
    BY <1>1, <1>3 DEF IsOutcome, SettleWrite, Op
  <2>2. /\ id \in ProviderIds /\ o.seen.providerStatus = "APPROVED"
        /\ phase = "ACKNOWLEDGED"
    BY <1>1, <1>2, <1>3, <2>1 DEF FinalizeAdmits, ProviderStatusOf
  <2>3. FinalPaymentCondition(t, AcknowledgedAs(id, "APPROVED"), "none")
    BY <2>1, <2>2 DEF FinalizeApprovedWrite, FinalPaymentCondition, AcknowledgedAs
  <2>4. FinalizeApprovedWrite(t, AcknowledgedAs(id, "APPROVED"), o.destination)
    BY <2>1, <2>3 DEF FinalizeApprovedWrite
  <2> QED BY <1>1, <2>1, <2>2, <2>4 DEF SettleStep
<1>4. CASE o.status # "APPROVED"
  <2>1. FinalizeFailureWrite(t, o.seen, o.status, ProviderStatusOf(o), o.recovery)
    BY <1>4 DEF SettleWrite
  <2>2. o.status \in FailureStatus
    BY <1>1, <1>4 DEF IsOutcome, FailureStatus, FinalStatus, PaymentStatus
  <2>3. CASE o.recovery = "none"
    <3>1. /\ ProviderStatusOf(o) = o.status /\ id \in ProviderIds
          /\ o.seen.providerStatus = o.status /\ phase = "ACKNOWLEDGED"
      BY <1>1, <1>2, <2>3 DEF FinalizeAdmits, ProviderStatusOf
    <3>2. FinalPaymentCondition(t, AcknowledgedAs(id, o.status), "none")
      BY <2>1, <2>3, <3>1 DEF FinalizeFailureWrite, FinalPaymentCondition, AcknowledgedAs
    <3>3. FinalizeFailureWrite(t, AcknowledgedAs(id, o.status), o.status, o.status, "none")
      BY <2>1, <2>3, <3>1, <3>2 DEF FinalizeFailureWrite
    <3> QED BY <1>1, <2>2, <3>1, <3>3 DEF SettleStep
  <2>4. CASE o.recovery = "PROVIDER_NOT_SENT"
    <3>1. /\ ProviderStatusOf(o) = "none" /\ o.status = "ERROR"
          /\ phase \in {"SENDING", "NOT_SENT_FAILED"}
      BY <1>1, <2>4 DEF FinalizeAdmits, ProviderStatusOf
    <3>2. FinalPaymentCondition(t, UnsentIn(phase), "PROVIDER_NOT_SENT")
      BY <2>1, <2>4 DEF FinalizeFailureWrite, FinalPaymentCondition, UnsentIn
    <3>3. FinalizeFailureWrite(t, UnsentIn(phase), "ERROR", "none", "PROVIDER_NOT_SENT")
      BY <2>1, <2>4, <3>1, <3>2 DEF FinalizeFailureWrite
    <3> QED BY <1>1, <3>1, <3>3 DEF SettleStep
  <2>5. CASE o.recovery = "PAYMENT_TOKEN_REJECTED"
    <3>1. ProviderStatusOf(o) = "ERROR" /\ o.status = "ERROR"
      BY <1>1, <2>5 DEF IsOutcome, ProviderStatusOf
    <3>2. FinalPaymentCondition(t, SnapshotOf(t), "PAYMENT_TOKEN_REJECTED")
      BY <2>1, <2>5 DEF FinalizeFailureWrite, FinalPaymentCondition
    <3>3. FinalizeFailureWrite(t, SnapshotOf(t), "ERROR", "ERROR", "PAYMENT_TOKEN_REJECTED")
      BY <2>1, <2>5, <3>1, <3>2 DEF FinalizeFailureWrite
    <3> QED BY <1>1, <3>3 DEF SettleStep
  <2> QED BY <1>1, <2>3, <2>4, <2>5 DEF IsOutcome
<1> QED BY <1>3, <1>4

\* Every write of the service is one the store's most general client may send.
LEMMA ServiceWriteIsStores ==
    ASSUME TypeInv, ServiceInv, ServiceWrite
    PROVE  StoreNext
<1>1. ASSUME NEW p \in Txns, At(p, "preparing"),
             PreparePaymentWrite(req[p].checkoutId, req[p].key, p, req[p].expectedVersion)
      PROVE StoreNext
  <2>1. req[p] \in Request
    BY <1>1 DEF ServiceInv, RequestsTyped, At
  <2>2. /\ req[p].checkoutId \in Checkouts /\ req[p].key \in Keys
        /\ req[p].expectedVersion \in Version
    BY <2>1 DEF Request
  <2> QED BY <1>1, <2>2 DEF StoreNext, DispatchStep
<1>2. ASSUME NEW p \in Txns, At(p, "claiming"), ClaimDispatchWrite(op[p].txn) PROVE StoreNext
  BY <1>2, OpType DEF StoreNext, DispatchStep, At, Carries, Carrying, Actors, Accepted
<1>3. ASSUME NEW a \in Actors, At(a, "acking"),
             AcknowledgeProviderWrite(op[a].txn, op[a].txn, op[a].status)
      PROVE StoreNext
  <2>1. op[a].txn \in Txns /\ op[a].txn \in ProviderIds /\ op[a].status \in PaymentStatus
    BY <1>3, OpType, ProviderIdsAreTxns DEF At, Carries, Carrying, Op
  <2> QED BY <1>3, <2>1 DEF StoreNext, DispatchStep
<1>4. ASSUME NEW a \in Actors, At(a, "marking"), MarkUnknownWrite(op[a].txn) PROVE StoreNext
  BY <1>4, OpType DEF StoreNext, DispatchStep, At, Carries, Carrying, Accepted
<1>5. ASSUME NEW a \in Actors, At(a, "settling"), SettleWrite(a) PROVE StoreNext
  BY <1>5, SettleIsStores DEF StoreNext
<1>6. ASSUME NEW a \in Actors, At(a, "flag"),
             RecordFinalConflictWrite(op[a].txn, op[a].seen.paymentStatus)
      PROVE StoreNext
  <2>1. op[a].txn \in Accepted /\ op[a].seen.paymentStatus \in FinalStatus
    BY <1>6, OpType DEF At, Carries, Carrying
  <2> QED BY <1>6, <2>1 DEF StoreNext, SettleStep
<1>7. ASSUME NEW a \in Actors, At(a, "escalate"),
             RecordApprovedInventoryConflictWrite(op[a].txn)
      PROVE StoreNext
  BY <1>7, OpType DEF StoreNext, SettleStep, At, Carries, Carrying
<1>8. ASSUME At(Worker, "claimDueWrite"),
             ClaimDueWrite(op[Worker].txn, op[Worker].seen.dispatchPhase)
      PROVE StoreNext
  <2>1. /\ op[Worker].txn \in Txns
        /\ op[Worker].seen \in Snapshot
    BY <1>8, OpType DEF At, Carries, Carrying, Actors
  <2>2. op[Worker].seen.dispatchPhase \in DispatchPhase
    BY <2>1 DEF Snapshot
  <2> QED BY <1>8, <2>1, <2>2 DEF StoreNext, DispatchStep
<1>9. ASSUME NEW t \in Txns, BecomesDue(t) PROVE StoreNext
  BY <1>9 DEF StoreNext, DispatchStep
<1>10. ASSUME NEW c \in Checkouts, checkout[c] # NULL,
              ReplaceDeliveryDetailsWrite(c, checkout[c].version, checkout[c].customer # 0)
       PROVE StoreNext
  <2>1. checkout[c] \in Checkout
    BY <1>10 DEF TypeInv, TypeOK
  <2>2. checkout[c].version \in Version /\ (checkout[c].customer # 0) \in BOOLEAN
    BY <2>1 DEF Checkout
  <2> QED BY <1>10, <2>2 DEF StoreNext, DraftStep
<1> QED BY <1>1, <1>2, <1>3, <1>4, <1>5, <1>6, <1>7, <1>8, <1>9, <1>10 DEF ServiceWrite

\* So a step of the service is a step of the store, or leaves it alone.
LEMMA ServiceStepIsStores ==
    ASSUME TypeInv, ServiceInv, [Next]_vars
    PROVE  [StoreNext]_storeVars
  BY OnlyServiceWrites, ServiceWriteIsStores

-----------------------------------------------------------------------------
(* The moves of an actor *)

\* An accepted payment stays, with its checkout.
PaymentsStay ==
    \A t \in Txns :
        payment[t] # NULL =>
            payment'[t] # NULL /\ payment'[t].checkoutId = payment[t].checkoutId

\* Where an actor's belief about the outcome of the payment in o comes from: it
\* had it already, or has none, or the provider said so, or nothing was sent.
Learns(a, label, o) ==
    \/ /\ o.txn = op[a].txn /\ o.status = op[a].status
       /\ o.recovery \in {op[a].recovery, "none"}
    \/ o.status = "PENDING" /\ o.recovery = "none"
    \/ /\ ProviderAnswers(o.txn, o.status)
       /\ o.recovery = "none" \/ (o.txn = op[a].txn /\ o.recovery = op[a].recovery)
    \/ /\ charge[o.txn] = "REJECTED"
       /\ o.status = "ERROR" /\ o.recovery = "PAYMENT_TOKEN_REJECTED"
    \/ /\ o.status = "ERROR" /\ o.recovery = "PROVIDER_NOT_SENT"
       /\ \/ /\ a \in Txns /\ At(a, "create") /\ label # "create"
             /\ o.txn = op[a].txn
          \/ /\ claimed[o.txn] # NULL
             /\ claimed[o.txn].dispatchPhase = "NOT_SENT_FAILED"

\* Where the payment in o comes from, and who may stand at which await.
Origin(a, label, o) ==
    /\ label = "idle" => a = Worker
    /\ label = "create" => /\ a \in Txns /\ At(a, "claiming") /\ o = op[a]
                           /\ ClaimDispatchWrite(o.txn)
    /\ o.txn # NULL =>
          /\ payment'[o.txn] # NULL
          /\ \/ o.txn = op[a].txn
             \/ a = Worker
             \/ payment'[o.txn].checkoutId = req[a].checkoutId
          /\ Learns(a, label, o)
    /\ label = "settling" /\ a \in Actors =>
          /\ o.txn = op[a].txn
          /\ o.destination = checkout[payment[o.txn].checkoutId].deliveryDetails
          /\ UNCHANGED storeVars

\* Actor a goes on to another await, carrying what fits there.
Step(a) ==
    \E label \in Label, o \in Op :
        /\ pc' = [pc EXCEPT ![a] = label]
        /\ op' = [op EXCEPT ![a] = o]
        /\ Carries(label, o)
        /\ Origin(a, label, o)

\* NoOp and Working(t), field by field.
LEMMA NoOpType == NoOp \in Op /\ NoOp.txn = NULL
  BY VersionAssumption DEF NoOp, Op, PaymentStatus, RecoveryCode, Version

\* Working(t) carries t and nothing else.
LEMMA WorkingType ==
    ASSUME NEW t \in Txns
    PROVE  /\ Working(t) \in Op
           /\ Working(t).txn = t /\ Working(t).status = "PENDING"
           /\ Working(t).recovery = "none"
<1> DEFINE w == [txn |-> t, seen |-> NULL, status |-> "PENDING", recovery |-> "none",
                 destination |-> 0]
<1>1. Working(t) = w
  BY DEF Working, NoOp
<1>2. w \in Op
  BY VersionAssumption DEF Op, PaymentStatus, RecoveryCode, Version
<1>3. w.txn = t /\ w.status = "PENDING" /\ w.recovery = "none"
  OBVIOUS
<1> QED BY <1>1, <1>2, <1>3

\* An actor that comes to an await without a payment to work on.
LEMMA Rests ==
    ASSUME ServiceInv, PaymentsStay, NEW a \in Actors, NEW label \in Label \ Carrying,
           label = "idle" => a = Worker,
           pc' = [pc EXCEPT ![a] = label],
           op' = op \/ op' = [op EXCEPT ![a] = NoOp]
    PROVE  Step(a)
<1>0. op \in [Actors -> Op] /\ op[a] \in Op
  BY OpType DEF ServiceInv, ServiceTypeOK, Op
<1>1. Carries(label, op[a]) /\ Carries(label, NoOp)
  BY DEF Carries, Carrying
<1>2. Origin(a, label, NoOp)
  BY NoOpType DEF Origin, Carrying
<1>3. Origin(a, label, op[a])
  <2>1. op[a].txn # NULL => op[a].txn \in Txns /\ payment'[op[a].txn] # NULL
    BY OpType DEF PaymentsStay, Accepted
  <2> QED BY <2>1 DEF Origin, Learns, Carrying
<1>4. op' = op => op' = [op EXCEPT ![a] = op[a]]
  BY <1>0
<1> QED BY <1>0, <1>1, <1>2, <1>3, <1>4, NoOpType DEF Step

\* An actor that comes to an await working on what it carried before.
LEMMA GoesOn ==
    ASSUME ServiceInv, PaymentsStay, NEW a \in Actors, pc[a] \in Carrying,
           NEW label \in {"claiming", "posted", "acking", "unknown", "marking", "escalate"},
           label = "escalate" => op[a].status = "APPROVED",
           Continue(a, label, op[a])
    PROVE  Step(a)
<1>1. op[a] \in Op /\ op[a].txn # NULL /\ op[a].txn \in Txns
  BY OpType DEF Carries
<1>2. Carries(label, op[a])
  BY <1>1 DEF Carries
<1>3. Origin(a, label, op[a])
  BY <1>1 DEF Origin, Learns, PaymentsStay, Accepted, ServiceInv, OpsNamePayments
<1> QED BY <1>1, <1>2, <1>3 DEF Step, Continue, Goto, Label

\* An actor that forgets what it believed of its payment, or starts on another.
LEMMA StartsOn ==
    ASSUME NEW a \in Actors, NEW t \in Txns,
           NEW label \in {"claim", "unknown"},
           payment'[t] # NULL,
           \/ t = op[a].txn
           \/ a = Worker
           \/ payment'[t].checkoutId = req[a].checkoutId,
           pc' = [pc EXCEPT ![a] = label],
           op' = [op EXCEPT ![a] = Working(t)]
    PROVE  Step(a)
<1>1. /\ Working(t) \in Op /\ Working(t).txn = t /\ Working(t).status = "PENDING"
      /\ Working(t).recovery = "none" /\ t # NULL
  BY WorkingType, TxnsAssumption
<1>2. Carries(label, Working(t))
  BY <1>1 DEF Carries
<1>3. Origin(a, label, Working(t))
  BY <1>1 DEF Origin, Learns
<1> QED BY <1>1, <1>2, <1>3 DEF Step, Label

\* An actor that has come to know an outcome and calls finalize.
LEMMA CallsFinalize ==
    ASSUME NEW a \in Actors, NEW t \in Txns,
           NEW status \in PaymentStatus, NEW recovery \in RecoveryCode,
           payment'[t] # NULL,
           t = op[a].txn \/ a = Worker,
           pc' = [pc EXCEPT ![a] = "finalize"],
           op' = [op EXCEPT ![a] = [Working(t) EXCEPT !.status = status,
                                                      !.recovery = recovery]],
           \/ status \in FinalStatus /\ recovery = "none"
           \/ status = "ERROR" /\ recovery \in {"PROVIDER_NOT_SENT", "PAYMENT_TOKEN_REJECTED"},
           \A x : x.txn = t /\ x.status = status /\ x.recovery = recovery
                    => Learns(a, "finalize", x)
    PROVE  Step(a)
<1> DEFINE o == [Working(t) EXCEPT !.status = status, !.recovery = recovery]
<1>1. PICK w \in Op : w = Working(t) /\ w.txn = t
  BY WorkingType
<1>2. o = [w EXCEPT !.status = status, !.recovery = recovery]
  BY <1>1
<1> HIDE DEF o
<1>3. o \in Op /\ o.txn = t /\ o.status = status /\ o.recovery = recovery /\ t # NULL
  BY <1>1, <1>2, TxnsAssumption DEF Op
<1>4. Carries("finalize", o)
  BY <1>3 DEF Carries, IsOutcome
<1>5. Origin(a, "finalize", o)
  BY <1>3 DEF Origin
<1>6. pc' = [pc EXCEPT ![a] = "finalize"] /\ op' = [op EXCEPT ![a] = o]
  BY DEF o
<1> QED BY <1>3, <1>4, <1>5, <1>6 DEF Step, Label

\* The ends of an operation, and of a run.
LEMMA DoneMoves ==
    ASSUME ServiceInv, PaymentsStay, NEW a \in Actors, Done(a)
    PROVE  Step(a)
<1>1. CASE a = Worker
  <2>1. pc' = [pc EXCEPT ![a] = "batch"] /\ op' = [op EXCEPT ![a] = NoOp]
    BY <1>1 DEF Done, Goto
  <2> QED BY <2>1, Rests DEF Label, Carrying
<1>2. CASE a # Worker
  <2>1. pc' = [pc EXCEPT ![a] = "answered"] /\ op' = [op EXCEPT ![a] = NoOp]
    BY <1>2 DEF Done, Goto
  <2> QED BY <2>1, Rests DEF Label, Carrying
<1> QED BY <1>1, <1>2

\* The worker ends its run.
LEMMA EndRunMoves ==
    ASSUME ServiceInv, PaymentsStay, EndRun
    PROVE  Step(Worker)
<1>1. pc' = [pc EXCEPT ![Worker] = "idle"] /\ op' = [op EXCEPT ![Worker] = NoOp]
  BY DEF EndRun, Goto
<1> QED BY <1>1, Rests DEF Label, Carrying, Actors

\* The operation failed: the invocation answers, the worker gives its run up.
LEMMA FailedMoves ==
    ASSUME ServiceInv, PaymentsStay, NEW a \in Actors, Failed(a)
    PROVE  Step(a)
  BY DoneMoves, EndRunMoves DEF Failed

\* What an actor goes on to when its request fails.
LEMMA FailsMoves ==
    ASSUME ServiceInv, PaymentsStay, NEW a \in Actors, Fails(a)
    PROVE  Step(a)
<1>1. CASE pc[a] \in Lookups \cup {"preparing"} /\ Goto(a, "refused") /\ UNCHANGED op
  BY <1>1, Rests DEF Goto, Label, Carrying
<1>2. CASE pc[a] \in {"posted", "ack", "acking"} /\ Continue(a, "unknown", Working(op[a].txn))
  <2>1. op[a].txn \in Txns /\ payment'[op[a].txn] # NULL
    BY <1>2, OpType DEF Carries, Carrying, PaymentsStay, Accepted
  <2> QED BY <1>2, <2>1, StartsOn DEF Continue, Goto
<1>3. CASE At(a, "effects") /\ op[a].status = "APPROVED" /\ Continue(a, "escalate", op[a])
  BY <1>3, GoesOn DEF At, Carrying
<1>4. CASE Done(a)
  BY <1>4, DoneMoves
<1>5. CASE Failed(a)
  BY <1>5, FailedMoves
<1> QED BY <1>1, <1>2, <1>3, <1>4, <1>5 DEF Fails

\* An invocation's own steps, up to the answer of the provider.
LEMMA InvocationMoves ==
    ASSUME TypeInv, Links, ServiceInv, PaymentsStay, NEW p \in Txns, Invocation(p)
    PROVE  Step(p)
<1>0. p \in Actors /\ p # Worker
  BY WorkerAssumption DEF Actors
<1>1. ASSUME NEW c \in Checkouts, NEW k \in Keys, NEW v \in Version, Submit(p, c, k, v)
      PROVE Step(p)
  BY <1>0, <1>1, Rests DEF Submit, Goto, Label, Carrying
<1>2. CASE Replay(p)
  <2> DEFINE row == IdempotencyRow(p)
             t == row.transactionId
  <2>1. req[p] \in Request
    BY <1>2 DEF Replay, Lookups, ServiceInv, RequestsTyped
  <2>2. row \in Idempotency
    BY <1>2, <2>1 DEF Replay, IdempotencyRow, Request, TypeInv, TypeOK
  <2>3. t \in Txns
    BY <2>2 DEF Idempotency
  <2>4. payment[t] # NULL /\ payment[t].checkoutId = req[p].checkoutId
    BY <1>2, <2>1, <2>3 DEF Replay, IdempotencyRow, Request, Links, KeyNamesItsPayment
  <2>5. payment'[t] # NULL /\ payment'[t].checkoutId = req[p].checkoutId
    BY <2>3, <2>4 DEF PaymentsStay
  <2> HIDE DEF t
  <2>6. Continue(p, "claim", Working(t))
    BY <1>2 DEF Replay, t
  <2> QED BY <1>0, <2>3, <2>5, <2>6, StartsOn DEF Continue, Goto
<1>3. CASE Refuse(p)
  BY <1>0, <1>3, Rests DEF Refuse, Goto, Label, Carrying
<1>4. CASE Proceed(p)
  BY <1>0, <1>4, Rests DEF Proceed, Goto, Label, Carrying
<1>5. CASE Prepare(p)
  <2>1. CASE Continue(p, "claim", Working(p))
    <3>1. req[p] \in Request
      BY <1>5 DEF Prepare, At, ServiceInv, RequestsTyped
    <3>2. /\ req[p].checkoutId \in Checkouts /\ req[p].key \in Keys
          /\ req[p].expectedVersion \in Version
      BY <3>1 DEF Request
    <3>3. Prepares(req[p].checkoutId, req[p].key, p)
      BY <1>5, <3>2 DEF Prepare, Prepares
    <3>4. Accepts(req[p].checkoutId, req[p].key, p)
      BY <3>2, <3>3, PrepareFacts
    <3>5. payment'[p] # NULL /\ payment'[p].checkoutId = req[p].checkoutId
      BY <3>4 DEF Accepts
    <3> QED BY <1>0, <2>1, <3>5, StartsOn DEF Continue, Goto
  <2>2. CASE Fails(p)
    BY <1>0, <2>2, FailsMoves
  <2> QED BY <1>5, <2>1, <2>2 DEF Prepare
<1>6. CASE PrepareCancelled(p)
  BY <1>0, <1>6, Rests DEF PrepareCancelled, Goto, Label, Carrying
<1>7. CASE ClaimRead(p)
  <2>1. CASE Continue(p, "claiming", op[p])
    BY <1>0, <1>7, <2>1, GoesOn DEF ClaimRead, At, Carrying
  <2> QED BY <1>0, <1>7, <2>1, DoneMoves DEF ClaimRead
<1>8. CASE ClaimDispatch(p)
  <2>1. CASE ClaimDispatchWrite(op[p].txn) /\ Continue(p, "create", op[p])
    <3>1. op[p] \in Op /\ op[p].txn \in Txns /\ op[p].txn # NULL /\ payment'[op[p].txn] # NULL
      BY <1>0, <1>8, OpType DEF ClaimDispatch, At, Carries, Carrying, PaymentsStay, Accepted
    <3>2. Carries("create", op[p])
      BY <3>1 DEF Carries
    <3>3. Origin(p, "create", op[p])
      BY <1>8, <2>1, <3>1 DEF Origin, Learns, ClaimDispatch
    <3> QED BY <2>1, <3>1, <3>2, <3>3 DEF Step, Continue, Goto, Label
  <2>2. CASE Fails(p)
    BY <1>0, <2>2, FailsMoves
  <2>3. CASE Done(p)
    BY <1>0, <2>3, DoneMoves
  <2> QED BY <1>8, <2>1, <2>2, <2>3 DEF ClaimDispatch
<1>9. CASE DoNotPost(p)
  <2>1. /\ At(p, "create") /\ op[p].txn \in Txns /\ payment'[op[p].txn] # NULL
        /\ pc[p] \in Carrying
    BY <1>0, <1>9, OpType DEF DoNotPost, At, Carries, Carrying, PaymentsStay, Accepted
  <2>2. CASE Finalize(p, "ERROR", "PROVIDER_NOT_SENT")
    <3>1. \A x : x.txn = op[p].txn /\ x.status = "ERROR" /\ x.recovery = "PROVIDER_NOT_SENT"
                    => Learns(p, "finalize", x)
      BY <2>1 DEF Learns
    <3>2. "ERROR" \in PaymentStatus /\ "PROVIDER_NOT_SENT" \in RecoveryCode
      BY DEF PaymentStatus, RecoveryCode
    <3> QED BY <1>0, <2>1, <2>2, <3>1, <3>2, CallsFinalize DEF Finalize, Continue, Goto
  <2>3. CASE Continue(p, "unknown", op[p])
    BY <1>0, <2>1, <2>3, GoesOn
  <2> QED BY <1>9, <2>2, <2>3 DEF DoNotPost
<1>10. CASE Post(p)
  <2>1. pc[p] \in Carrying /\ Continue(p, "posted", op[p])
    BY <1>10 DEF Post, At, Carrying
  <2> QED BY <1>0, <2>1, GoesOn
<1>11. CASE PostAnswered(p)
  <2>1. /\ At(p, "posted") /\ op[p] \in Op /\ op[p].txn \in Txns /\ op[p].txn # NULL
        /\ payment'[op[p].txn] # NULL /\ pc[p] \in Carrying
    BY <1>0, <1>11, OpType DEF PostAnswered, At, Carries, Carrying, PaymentsStay, Accepted
  <2>2. ASSUME NEW status \in PaymentStatus, ProviderAnswers(op[p].txn, status),
               Continue(p, "ack", [op[p] EXCEPT !.status = status])
        PROVE Step(p)
    <3> DEFINE o == [op[p] EXCEPT !.status = status]
    <3>1. o \in Op /\ o.txn = op[p].txn /\ o.status = status /\ o.recovery = op[p].recovery
      BY <2>1 DEF Op
    <3>2. pc' = [pc EXCEPT ![p] = "ack"] /\ op' = [op EXCEPT ![p] = o]
      BY <2>2 DEF Continue, Goto
    <3> HIDE DEF o
    <3>3. Carries("ack", o)
      BY <2>1, <3>1 DEF Carries
    <3>4. Origin(p, "ack", o)
      BY <2>1, <2>2, <3>1 DEF Origin, Learns
    <3> QED BY <3>1, <3>2, <3>3, <3>4 DEF Step, Label
  <2>3. CASE charge[op[p].txn] = "REJECTED" /\ Finalize(p, "ERROR", "PAYMENT_TOKEN_REJECTED")
    <3>1. \A x : x.txn = op[p].txn /\ x.status = "ERROR"
                 /\ x.recovery = "PAYMENT_TOKEN_REJECTED"
                    => Learns(p, "finalize", x)
      BY <2>3 DEF Learns
    <3>2. "ERROR" \in PaymentStatus /\ "PAYMENT_TOKEN_REJECTED" \in RecoveryCode
      BY DEF PaymentStatus, RecoveryCode
    <3> QED BY <1>0, <2>1, <2>3, <3>1, <3>2, CallsFinalize DEF Finalize, Continue, Goto
  <2>4. CASE Continue(p, "unknown", op[p])
    BY <1>0, <2>1, <2>4, GoesOn
  <2> QED BY <1>11, <2>2, <2>3, <2>4 DEF PostAnswered
<1> QED BY <1>1, <1>2, <1>3, <1>4, <1>5, <1>6, <1>7, <1>8, <1>9, <1>10, <1>11 DEF Invocation

\* A payment found settled when its outcome was to be applied.
LEMMA AlreadySettledMoves ==
    ASSUME TypeInv, ServiceInv, PaymentsStay, NEW a \in Actors, pc[a] \in Carrying,
           ~IsPending(op[a].txn), AlreadySettled(a)
    PROVE  Step(a)
<1> DEFINE t == op[a].txn
           snapshot == SnapshotOf(t)
           o == [op[a] EXCEPT !.seen = snapshot]
<1>1. /\ op[a] \in Op /\ t \in Txns /\ t # NULL /\ payment[t] \in Payment
      /\ payment'[t] # NULL
  BY OpType DEF Carries, PaymentsStay, Accepted, TypeInv, TypeOK
<1>2. snapshot \in Snapshot /\ snapshot.paymentStatus \in FinalStatus
  BY <1>1, NullAssumption DEF SnapshotOf, Snapshot, Payment, IsPending, FinalStatus
<1>3. CASE Done(a)
  BY <1>3, DoneMoves
<1>4. CASE Continue(a, "flag", o)
  <2> HIDE DEF snapshot
  <2>1. /\ o \in Op /\ o.txn = t /\ o.status = op[a].status /\ o.recovery = op[a].recovery
        /\ o.seen = snapshot
    BY <1>1, <1>2 DEF Op
  <2>2. pc' = [pc EXCEPT ![a] = "flag"] /\ op' = [op EXCEPT ![a] = o]
    BY <1>4 DEF Continue, Goto
  <2> HIDE DEF o
  <2>3. Carries("flag", o)
    BY <1>1, <1>2, <2>1 DEF Carries
  <2>4. Origin(a, "flag", o)
    BY <1>1, <2>1 DEF Origin, Learns
  <2> QED BY <2>1, <2>2, <2>3, <2>4 DEF Step, Label
<1> QED BY <1>3, <1>4 DEF AlreadySettled

\* A provider id known to the row: finalize a final outcome, or leave it pending.
LEMMA AcknowledgedMoves ==
    ASSUME ServiceInv, PaymentsStay, NEW a \in Actors, pc[a] \in Carrying, Acknowledged(a)
    PROVE  Step(a)
<1>1. /\ op[a] \in Op /\ op[a].txn \in Txns /\ payment'[op[a].txn] # NULL
      /\ op[a].status \in PaymentStatus
  BY OpType DEF Carries, PaymentsStay, Accepted, Op
<1>2. CASE op[a].status = "PENDING" /\ Done(a)
  BY <1>2, DoneMoves
<1>3. CASE op[a].status # "PENDING" /\ Finalize(a, op[a].status, "none")
  <2>1. op[a].status \in FinalStatus /\ "none" \in RecoveryCode
    BY <1>1, <1>3 DEF FinalStatus, RecoveryCode
  <2>2. \A x : x.txn = op[a].txn /\ x.status = op[a].status /\ x.recovery = "none"
                  => Learns(a, "finalize", x)
    BY DEF Learns
  <2> QED BY <1>1, <1>3, <2>1, <2>2, CallsFinalize DEF Finalize, Continue, Goto
<1> QED BY <1>2, <1>3 DEF Acknowledged

\* finalize's reads: what goes on to the next await has passed finalize's checks.
LEMMA FinalizeReadMoves ==
    ASSUME TypeInv, ServiceInv, PaymentsStay, NEW a \in Actors, FinalizeRead(a)
    PROVE  Step(a)
<1> DEFINE t == op[a].txn
           snapshot == SnapshotOf(t)
           o == [op[a] EXCEPT !.seen = snapshot]
<1>1. /\ op[a] \in Op /\ t \in Txns /\ t # NULL /\ payment[t] \in Payment
      /\ payment'[t] # NULL /\ IsOutcome(op[a]) /\ pc[a] \in Carrying
  BY OpType DEF FinalizeRead, At, Carries, Carrying, PaymentsStay, Accepted, TypeInv, TypeOK
<1>2. snapshot \in Snapshot
  BY <1>1 DEF SnapshotOf, Snapshot, Payment
<1>3. CASE ~IsPending(t) /\ AlreadySettled(a)
  BY <1>1, <1>3, AlreadySettledMoves
<1>4. CASE /\ FinalizeAdmits(snapshot, op[a].status, ProviderStatusOf(op[a]), op[a].recovery)
           /\ Continue(a, "effects", o)
  <2> HIDE DEF snapshot
  <2>1. /\ o \in Op /\ o.txn = t /\ o.status = op[a].status /\ o.recovery = op[a].recovery
        /\ o.seen = snapshot
    BY <1>1, <1>2 DEF Op
  <2>2. pc' = [pc EXCEPT ![a] = "effects"] /\ op' = [op EXCEPT ![a] = o]
    BY <1>4 DEF Continue, Goto
  <2> HIDE DEF o
  <2>3. ProviderStatusOf(o) = ProviderStatusOf(op[a])
    BY <2>1 DEF ProviderStatusOf
  <2>4. Carries("effects", o)
    BY <1>1, <1>2, <1>4, <2>1, <2>3 DEF Carries, IsOutcome
  <2>5. Origin(a, "effects", o)
    BY <1>1, <2>1 DEF Origin, Learns
  <2> QED BY <2>1, <2>2, <2>4, <2>5 DEF Step, Label
<1>5. CASE Failed(a)
  BY <1>5, FailedMoves
<1> QED BY <1>3, <1>4, <1>5 DEF FinalizeRead

\* The reads of the checkout and of the reservation.
LEMMA EffectsReadMoves ==
    ASSUME TypeInv, Links, ServiceInv, PaymentsStay, NEW a \in Actors, EffectsRead(a)
    PROVE  Step(a)
<1> DEFINE t == op[a].txn
           details == checkout[payment[t].checkoutId].deliveryDetails
           o == [op[a] EXCEPT !.destination = details]
<1>1. /\ op[a] \in Op /\ t \in Txns /\ t # NULL /\ payment[t] \in Payment
      /\ payment[t] # NULL /\ payment'[t] # NULL /\ IsOutcome(op[a]) /\ pc[a] \in Carrying
      /\ op[a].seen \in Snapshot
      /\ FinalizeAdmits(op[a].seen, op[a].status, ProviderStatusOf(op[a]), op[a].recovery)
  BY OpType DEF EffectsRead, At, Carries, Carrying, PaymentsStay, Accepted, TypeInv, TypeOK
<1>2. details \in Version
  <2>1. payment[t].checkoutId \in Checkouts /\ checkout[payment[t].checkoutId] # NULL
    BY <1>1 DEF Payment, Links, OnePaymentPerCheckout
  <2>2. checkout[payment[t].checkoutId] \in Checkout
    BY <2>1 DEF TypeInv, TypeOK
  <2> QED BY <2>2 DEF Checkout
<1>3. \/ Failed(a)
      \/ op[a].status = "APPROVED" /\ Continue(a, "escalate", op[a])
      \/ Continue(a, "settling", o) /\ (op[a].status = "APPROVED" => details # 0)
  BY DEF EffectsRead
<1>4. CASE Failed(a)
  BY <1>4, FailedMoves
<1>5. CASE op[a].status = "APPROVED" /\ Continue(a, "escalate", op[a])
  BY <1>1, <1>5, GoesOn
<1>6. CASE Continue(a, "settling", o) /\ (op[a].status = "APPROVED" => details # 0)
  <2> HIDE DEF details
  <2>1. /\ o \in Op /\ o.txn = t /\ o.status = op[a].status /\ o.recovery = op[a].recovery
        /\ o.seen = op[a].seen /\ o.destination = details
    BY <1>1, <1>2 DEF Op
  <2>2. pc' = [pc EXCEPT ![a] = "settling"] /\ op' = [op EXCEPT ![a] = o]
    BY <1>6 DEF Continue, Goto
  <2> HIDE DEF o
  <2>3. ProviderStatusOf(o) = ProviderStatusOf(op[a])
    BY <2>1 DEF ProviderStatusOf
  <2>4. Carries("settling", o)
    BY <1>1, <1>6, <2>1, <2>3 DEF Carries, IsOutcome
  <2>5. details = checkout[payment[o.txn].checkoutId].deliveryDetails
    BY <2>1 DEF details
  <2>6. UNCHANGED storeVars
    BY DEF EffectsRead
  <2>7. Origin(a, "settling", o)
    BY <1>1, <2>1, <2>5, <2>6 DEF Origin, Learns
  <2> QED BY <2>1, <2>2, <2>4, <2>7 DEF Step, Label
<1> QED BY <1>3, <1>4, <1>5, <1>6

\* Every step an actor applies an outcome by.
LEMMA ApplyMoves ==
    ASSUME TypeInv, Links, ServiceInv, PaymentsStay, NEW a \in Actors, Apply(a)
    PROVE  Step(a)
<1>1. CASE AckRead(a)
  <2>1. pc[a] \in Carrying /\ op[a].txn \in Txns /\ payment'[op[a].txn] # NULL
    BY <1>1, OpType DEF AckRead, At, Carries, Carrying, PaymentsStay, Accepted
  <2>2. \/ Continue(a, "acking", op[a])
        \/ Acknowledged(a)
        \/ Continue(a, "unknown", Working(op[a].txn))
    BY <1>1 DEF AckRead
  <2>3. CASE Continue(a, "acking", op[a])
    BY <2>1, <2>3, GoesOn
  <2>4. CASE Acknowledged(a)
    BY <2>1, <2>4, AcknowledgedMoves
  <2>5. CASE Continue(a, "unknown", Working(op[a].txn))
    BY <2>1, <2>5, StartsOn DEF Continue, Goto
  <2> QED BY <2>2, <2>3, <2>4, <2>5
<1>2. CASE Acknowledge(a)
  <2>1. pc[a] \in Carrying
    BY <1>2 DEF Acknowledge, At, Carrying
  <2> QED BY <1>2, <2>1, AcknowledgedMoves, FailsMoves DEF Acknowledge
<1>3. CASE MarkUnknownRead(a)
  <2>1. pc[a] \in Carrying
    BY <1>3 DEF MarkUnknownRead, At, Carrying
  <2> QED BY <1>3, <2>1, GoesOn, DoneMoves DEF MarkUnknownRead
<1>4. CASE MarkUnknown(a)
  BY <1>4, DoneMoves, FailsMoves DEF MarkUnknown
<1>5. CASE FinalizeRead(a)
  BY <1>5, FinalizeReadMoves
<1>6. CASE EffectsRead(a)
  BY <1>6, EffectsReadMoves
<1>7. CASE Settle(a)
  BY <1>7, DoneMoves, FailsMoves DEF Settle
<1>8. CASE SettleCancelled(a)
  <2>1. pc[a] \in Carrying
    BY <1>8 DEF SettleCancelled, At, Carrying
  <2>2. \/ ~IsPending(op[a].txn) /\ AlreadySettled(a)
        \/ op[a].status = "APPROVED" /\ Continue(a, "escalate", op[a])
        \/ Failed(a)
    BY <1>8 DEF SettleCancelled
  <2> QED BY <2>1, <2>2, AlreadySettledMoves, GoesOn, FailedMoves
<1>9. CASE Flag(a)
  BY <1>9, DoneMoves, FailsMoves DEF Flag
<1>10. CASE Escalate(a)
  BY <1>10, DoneMoves, FailsMoves DEF Escalate
<1> QED BY <1>1, <1>2, <1>3, <1>4, <1>5, <1>6, <1>7, <1>8, <1>9, <1>10 DEF Apply

\* Every step of the worker's run.
LEMMA ReconcileMoves ==
    ASSUME TypeInv, ServiceInv, PaymentsStay, Reconcile
    PROVE  UNCHANGED <<pc, op>> \/ Step(Worker)
<1>0. Worker \in Actors
  BY DEF Actors
<1>1. ASSUME NEW t \in Txns, ClaimDueRead(t) PROVE UNCHANGED <<pc, op>> \/ Step(Worker)
  <2> DEFINE snapshot == SnapshotOf(t)
             o == [Working(t) EXCEPT !.seen = snapshot]
  <2>1. CASE ~(IsPending(t) /\ payment[t].due)
    BY <1>1, <2>1 DEF ClaimDueRead
  <2>2. CASE IsPending(t) /\ payment[t].due
    <3>1. /\ payment[t] \in Payment /\ payment'[t] # NULL /\ t # NULL
      BY <2>2, TxnsAssumption DEF IsPending, TypeInv, TypeOK, PaymentsStay
    <3>2. snapshot \in Snapshot
      BY <3>1 DEF SnapshotOf, Snapshot, Payment
    <3>3. PICK w \in Op : /\ w = Working(t) /\ w.txn = t /\ w.status = "PENDING"
                          /\ w.recovery = "none"
      BY WorkingType
    <3> HIDE DEF snapshot
    <3>4. o = [w EXCEPT !.seen = snapshot]
      BY <3>3
    <3>5. pc' = [pc EXCEPT ![Worker] = "claimDueWrite"] /\ op' = [op EXCEPT ![Worker] = o]
      BY <1>1, <2>2 DEF ClaimDueRead, Goto, snapshot
    <3> HIDE DEF o
    <3>6. /\ o \in Op /\ o.txn = t /\ o.status = "PENDING" /\ o.recovery = "none"
          /\ o.seen = snapshot
      BY <3>2, <3>3, <3>4 DEF Op
    <3>7. Carries("claimDueWrite", o)
      BY <3>1, <3>2, <3>6 DEF Carries
    <3>8. Origin(Worker, "claimDueWrite", o)
      BY <3>1, <3>6 DEF Origin, Learns
    <3> QED BY <3>5, <3>6, <3>7, <3>8 DEF Step, Label
  <2> QED BY <2>1, <2>2
<1>2. CASE ClaimDue
  <2>1. CASE pc' = [pc EXCEPT ![Worker] = "claimDue"] /\ op' = [op EXCEPT ![Worker] = NoOp]
    BY <1>0, <2>1, Rests DEF Label, Carrying
  <2>2. CASE Fails(Worker)
    BY <1>0, <2>2, FailsMoves
  <2> QED BY <1>2, <2>1, <2>2 DEF ClaimDue, Goto
<1>3. CASE ClaimedAll
  <2>1. pc' = [pc EXCEPT ![Worker] = "batch"] /\ op' = op
    BY <1>3 DEF ClaimedAll, Goto
  <2> QED BY <1>0, <2>1, Rests DEF Label, Carrying
<1>4. ASSUME NEW t \in Txns, ReconcileUnsent(t) PROVE Step(Worker)
  <2>1. payment'[t] # NULL /\ claimed[t] # NULL
    BY <1>4 DEF ReconcileUnsent, ServiceInv, ClaimsNamePayments, PaymentsStay
  <2>2. CASE /\ claimed[t].dispatchPhase = "NOT_SENT_FAILED"
             /\ TakeUp(t, "finalize", [Working(t) EXCEPT !.status = "ERROR",
                                                         !.recovery = "PROVIDER_NOT_SENT"])
    <3>1. \A x : x.txn = t /\ x.status = "ERROR" /\ x.recovery = "PROVIDER_NOT_SENT"
                    => Learns(Worker, "finalize", x)
      BY <2>1, <2>2 DEF Learns
    <3>2. "ERROR" \in PaymentStatus /\ "PROVIDER_NOT_SENT" \in RecoveryCode
      BY DEF PaymentStatus, RecoveryCode
    <3> QED BY <1>0, <2>1, <2>2, <3>1, <3>2, CallsFinalize DEF TakeUp, Goto
  <2>3. CASE TakeUp(t, "unknown", Working(t))
    BY <1>0, <2>1, <2>3, StartsOn DEF TakeUp, Goto
  <2> QED BY <1>4, <2>2, <2>3 DEF ReconcileUnsent
<1>5. ASSUME NEW t \in Txns, ReconcileRead(t) PROVE Step(Worker)
  <2>1. payment'[t] # NULL /\ t # NULL
    BY <1>5, TxnsAssumption DEF ReconcileRead, ServiceInv, ClaimsNamePayments, PaymentsStay
  <2>2. ASSUME NEW status \in PaymentStatus, ProviderAnswers(t, status),
               TakeUp(t, "ack", [Working(t) EXCEPT !.status = status])
        PROVE Step(Worker)
    <3> DEFINE o == [Working(t) EXCEPT !.status = status]
    <3>1. PICK w \in Op : w = Working(t) /\ w.txn = t /\ w.recovery = "none"
      BY WorkingType
    <3>2. o = [w EXCEPT !.status = status]
      BY <3>1
    <3>3. pc' = [pc EXCEPT ![Worker] = "ack"] /\ op' = [op EXCEPT ![Worker] = o]
      BY <2>2 DEF TakeUp, Goto
    <3> HIDE DEF o
    <3>4. o \in Op /\ o.txn = t /\ o.status = status /\ o.recovery = "none"
      BY <3>1, <3>2 DEF Op
    <3>5. Carries("ack", o)
      BY <2>1, <3>4 DEF Carries
    <3>6. Origin(Worker, "ack", o)
      BY <2>1, <2>2, <3>4 DEF Origin, Learns
    <3> QED BY <3>3, <3>4, <3>5, <3>6 DEF Step, Label
  <2>3. CASE TakeUp(t, "unknown", Working(t))
    BY <1>0, <2>1, <2>3, StartsOn DEF TakeUp, Goto
  <2> QED BY <1>5, <2>2, <2>3 DEF ReconcileRead
<1>6. ASSUME NEW t \in Txns, OverQuota(t) PROVE Step(Worker)
  <2>1. pc' = [pc EXCEPT ![Worker] = "batch"] /\ op' = [op EXCEPT ![Worker] = NoOp]
    BY <1>6 DEF OverQuota, TakeUp, Goto
  <2> QED BY <1>0, <2>1, Rests DEF Label, Carrying
<1>7. CASE RunEnds
  BY <1>7, EndRunMoves DEF RunEnds
<1>8. ASSUME NEW candidates \in SUBSET Txns, StartRun(candidates) PROVE Step(Worker)
  <2>1. pc' = [pc EXCEPT ![Worker] = "claimDue"] /\ op' = op
    BY <1>8 DEF StartRun, Goto
  <2> QED BY <1>0, <2>1, Rests DEF Label, Carrying
<1> QED BY <1>1, <1>2, <1>3, <1>4, <1>5, <1>6, <1>7, <1>8 DEF Reconcile, ReconcileStep

\* Surroundings and faults.
LEMMA EnvironmentMoves ==
    ASSUME ServiceInv, PaymentsStay, Environment
    PROVE  UNCHANGED <<pc, op>> \/ \E a \in Actors : Step(a)
<1>1. ASSUME NEW t \in Txns, ReceivePost(t) \/ DecideCharge(t) \/ Clock(t)
      PROVE UNCHANGED <<pc, op>>
  BY <1>1 DEF ReceivePost, DecideCharge, Clock, serviceVars
<1>2. ASSUME NEW c \in Checkouts, EditDetails(c) PROVE UNCHANGED <<pc, op>>
  BY <1>2 DEF EditDetails, serviceVars
<1>3. ASSUME NEW a \in Actors, RequestFails(a) PROVE Step(a)
  BY <1>3, FailsMoves DEF RequestFails
<1>4. ASSUME NEW a \in Actors, Stop(a) PROVE Step(a)
  <2>1. CASE a = Worker
    BY <1>4, <2>1, EndRunMoves DEF Stop
  <2>2. CASE a # Worker
    <3>1. pc' = [pc EXCEPT ![a] = "stopped"] /\ op' = [op EXCEPT ![a] = NoOp]
      BY <1>4, <2>2 DEF Stop, Goto
    <3> QED BY <3>1, Rests DEF Label, Carrying
  <2> QED BY <2>1, <2>2
<1> QED BY <1>1, <1>2, <1>3, <1>4 DEF Environment

\* At most one actor moves, and it carries what fits its next await.
LEMMA ActorMoves ==
    ASSUME TypeInv, Links, ServiceInv, PaymentsStay, [Next]_vars
    PROVE  UNCHANGED <<pc, op>> \/ \E a \in Actors : Step(a)
<1>1. CASE UNCHANGED vars
  BY <1>1 DEF vars, serviceVars
<1>2. \A p \in Txns : Invocation(p) => p \in Actors /\ Step(p)
  BY InvocationMoves DEF Actors
<1>3. \A a \in Actors : Apply(a) => Step(a)
  BY ApplyMoves
<1>4. Worker \in Actors
  BY DEF Actors
<1> QED BY <1>1, <1>2, <1>3, <1>4, ReconcileMoves, EnvironmentMoves DEF Next

-----------------------------------------------------------------------------
(* Requests, answers and the worker's run *)

\* The worker has claimed payment t in this step, in the phase it leaves it in.
ClaimsNow(t) ==
    /\ payment[t] # NULL
    /\ ClaimDueWrite(t, op[Worker].seen.dispatchPhase)
    /\ claimed'[t].dispatchPhase = payment'[t].dispatchPhase

\* What a step does to the requests, the answers and the worker's run.
Books ==
    /\ \/ req' = req
       \/ \E p \in Txns, r \in Request :
             At(p, "idle") /\ req' = [req EXCEPT ![p] = r] /\ UNCHANGED storeVars
    /\ \/ answer' = answer
       \/ \E p \in Txns :
             answer' = [answer EXCEPT ![p] = op[p].txn] /\ pc' = [pc EXCEPT ![p] = "answered"]
    /\ todo' \subseteq Txns
    /\ reads' \in 0 .. ReadLimit
    /\ claimed' \in [Txns -> Claim \cup {NULL}]
    /\ \A t \in Txns : claimed'[t] = claimed[t] \/ claimed'[t] = NULL \/ ClaimsNow(t)

\* A step that leaves the books alone keeps them.
LEMMA BooksKept ==
    ASSUME ServiceInv, UNCHANGED <<req, answer, workerVars>>
    PROVE  Books
  BY DEF Books, workerVars, ServiceInv, ServiceTypeOK, ClaimsNamePayments

\* An invocation that is done names in its answer the payment it worked on.
LEMMA DoneBooks ==
    ASSUME ServiceInv, NEW a \in Actors, Done(a)
    PROVE  Books
<1>1. CASE a = Worker
  BY <1>1, BooksKept DEF Done
<1>2. CASE a # Worker
  <2>1. /\ a \in Txns /\ answer' = [answer EXCEPT ![a] = op[a].txn]
        /\ pc' = [pc EXCEPT ![a] = "answered"]
        /\ UNCHANGED <<req, workerVars>>
    BY <1>2 DEF Done, Goto, Actors
  <2> QED BY <2>1 DEF Books, workerVars, ServiceInv, ServiceTypeOK, ClaimsNamePayments
<1> QED BY <1>1, <1>2

\* The end of a run clears the worker's own books.
LEMMA EndRunBooks ==
    ASSUME ServiceInv, EndRun
    PROVE  Books
<1>1. /\ UNCHANGED <<req, answer>> /\ todo' = {} /\ reads' = 0
      /\ claimed' = [t \in Txns |-> NULL]
  BY DEF EndRun
<1>2. 0 \in 0 .. ReadLimit
  BY LimitsAssumption
<1> QED BY <1>1, <1>2 DEF Books

\* So does a failed request, or it leaves them alone.
LEMMA FailsBooks ==
    ASSUME ServiceInv, NEW a \in Actors, Fails(a)
    PROVE  Books
<1>1. \/ UNCHANGED <<req, answer, workerVars>>
      \/ Done(a)
      \/ Failed(a)
  BY DEF Fails, Continue
<1> QED BY <1>1, BooksKept, DoneBooks, EndRunBooks DEF Failed

\* An invocation writes its own request and its own answer only.
LEMMA InvocationBooks ==
    ASSUME TypeInv, ServiceInv, NEW p \in Txns, Invocation(p)
    PROVE  Books
<1>0. p \in Actors
  BY DEF Actors
<1>1. ASSUME NEW c \in Checkouts, NEW k \in Keys, NEW v \in Version, Submit(p, c, k, v)
      PROVE Books
  <2> DEFINE r == [checkoutId |-> c, key |-> k, expectedVersion |-> v,
                   submittable |-> \/ checkout[c].status = "READY"
                                   \/ checkout[c].activeTransactionId # NULL]
  <2>1. r \in Request
    BY DEF Request
  <2>2. At(p, "idle") /\ req' = [req EXCEPT ![p] = r] /\ UNCHANGED storeVars
    BY <1>1 DEF Submit
  <2> HIDE DEF r
  <2>3. UNCHANGED <<answer, workerVars>>
    BY <1>1 DEF Submit
  <2> QED BY <2>1, <2>2, <2>3
          DEF Books, workerVars, ServiceInv, ServiceTypeOK, ClaimsNamePayments
<1>2. CASE Replay(p) \/ Refuse(p) \/ Proceed(p) \/ PrepareCancelled(p) \/ DoNotPost(p)
           \/ Post(p) \/ PostAnswered(p)
  BY <1>2, BooksKept
  DEF Replay, Refuse, Proceed, PrepareCancelled, DoNotPost, Post, PostAnswered, Continue,
      Finalize
<1>3. CASE Prepare(p) \/ ClaimRead(p) \/ ClaimDispatch(p)
  <2>1. UNCHANGED <<req, answer, workerVars>> \/ Done(p) \/ Fails(p)
    BY <1>3 DEF Prepare, ClaimRead, ClaimDispatch, Continue
  <2> QED BY <1>0, <2>1, BooksKept, DoneBooks, FailsBooks
<1> QED BY <1>1, <1>2, <1>3 DEF Invocation

\* Applying an outcome writes at most an answer, or ends the run.
LEMMA ApplyBooks ==
    ASSUME ServiceInv, NEW a \in Actors, Apply(a)
    PROVE  Books
<1>1. UNCHANGED <<req, answer, workerVars>> \/ Done(a) \/ Failed(a) \/ Fails(a)
  <2>1. CASE AckRead(a)
    BY <2>1 DEF AckRead, Acknowledged, Continue, Finalize
  <2>2. CASE Acknowledge(a)
    BY <2>2 DEF Acknowledge, Acknowledged, Continue, Finalize
  <2>3. CASE MarkUnknownRead(a) \/ MarkUnknown(a)
    BY <2>3 DEF MarkUnknownRead, MarkUnknown, Continue
  <2>4. CASE FinalizeRead(a)
    BY <2>4 DEF FinalizeRead, AlreadySettled, Continue
  <2>5. CASE EffectsRead(a)
    BY <2>5 DEF EffectsRead, Continue
  <2>6. CASE Settle(a) \/ Flag(a) \/ Escalate(a)
    BY <2>6 DEF Settle, Flag, Escalate
  <2>7. CASE SettleCancelled(a)
    BY <2>7 DEF SettleCancelled, AlreadySettled, Continue
  <2> QED BY <2>1, <2>2, <2>3, <2>4, <2>5, <2>6, <2>7 DEF Apply
<1> QED BY <1>1, BooksKept, DoneBooks, EndRunBooks, FailsBooks DEF Failed

\* The worker claims only what it has written, and reads within its limit.
LEMMA ReconcileBooks ==
    ASSUME TypeInv, ServiceInv, Reconcile
    PROVE  Books
<1>0. /\ claimed \in [Txns -> Claim \cup {NULL}] /\ todo \subseteq Txns
      /\ reads \in 0 .. ReadLimit /\ Worker \in Actors
  BY DEF ServiceInv, ServiceTypeOK, ClaimsNamePayments, Actors
<1>1. ASSUME NEW t \in Txns, ClaimDueRead(t) PROVE Books
  BY <1>0, <1>1 DEF ClaimDueRead, Books
<1>2. CASE ClaimDue
  <2> DEFINE t == op[Worker].txn
             c == [providerId |-> payment[t].providerId,
                   dispatchPhase |-> payment'[t].dispatchPhase]
  <2>1. CASE /\ ClaimDueWrite(t, op[Worker].seen.dispatchPhase)
             /\ claimed' = [claimed EXCEPT ![t] = c]
             /\ UNCHANGED <<req, answer, todo, reads>>
    <3>1. t \in Txns /\ payment[t] # NULL /\ payment[t] \in Payment
      <4>1. pc[Worker] \in Carrying
        BY <1>2 DEF ClaimDue, At, Carrying
      <4>2. t \in Accepted
        BY <1>0, <4>1, OpType DEF Carries
      <4> QED BY <4>2 DEF Accepted, TypeInv, TypeOK
    <3>2. payment'[t].dispatchPhase \in DispatchPhase
      <4>1. payment' = [payment EXCEPT ![t] = [payment[t] EXCEPT
               !.dispatchPhase = ClaimedPhase(payment[t].dispatchPhase), !.due = FALSE]]
        BY <2>1 DEF ClaimDueWrite
      <4>2. ClaimedPhase(payment[t].dispatchPhase) \in DispatchPhase
        BY <3>1 DEF ClaimedPhase, DispatchPhase, Payment
      <4> HIDE DEF t
      <4> QED BY <3>1, <4>1, <4>2 DEF Payment, TypeInv, TypeOK
    <3>3. c \in Claim /\ c.dispatchPhase = payment'[t].dispatchPhase
      BY <3>1, <3>2 DEF Claim, Payment
    <3> HIDE DEF c
    <3>4. /\ claimed' \in [Txns -> Claim \cup {NULL}] /\ claimed'[t] = c
          /\ \A u \in Txns \ {t} : claimed'[u] = claimed[u]
      BY <1>0, <2>1, <3>1, <3>3
    <3>5. ClaimsNow(t)
      BY <2>1, <3>1, <3>3, <3>4 DEF ClaimsNow
    <3> HIDE DEF t
    <3> QED BY <1>0, <2>1, <3>4, <3>5 DEF Books
  <2>2. CASE UNCHANGED <<req, answer, todo, claimed, reads>>
    BY <2>2, BooksKept DEF workerVars
  <2>3. CASE Fails(Worker)
    BY <1>0, <2>3, FailsBooks
  <2> QED BY <1>2, <2>1, <2>2, <2>3 DEF ClaimDue
<1>3. CASE ClaimedAll
  BY <1>3, BooksKept DEF ClaimedAll
<1>4. ASSUME NEW t \in Txns, UNCHANGED <<req, answer, todo>>,
             claimed' = [claimed EXCEPT ![t] = NULL], reads' \in 0 .. ReadLimit
      PROVE Books
  BY <1>0, <1>4 DEF Books
<1>5. ASSUME NEW t \in Txns, ReconcileUnsent(t) \/ OverQuota(t) PROVE Books
  BY <1>0, <1>4, <1>5 DEF ReconcileUnsent, OverQuota, TakeUp
<1>6. ASSUME NEW t \in Txns, ReconcileRead(t) PROVE Books
  <2>1. reads' \in 0 .. ReadLimit
    BY <1>0, <1>6, LimitsAssumption DEF ReconcileRead
  <2> QED BY <1>4, <1>6, <2>1 DEF ReconcileRead, TakeUp
<1>7. CASE RunEnds
  BY <1>7, EndRunBooks DEF RunEnds
<1>8. ASSUME NEW candidates \in SUBSET Txns, StartRun(candidates) PROVE Books
  BY <1>0, <1>8 DEF StartRun, Books
<1> QED BY <1>1, <1>2, <1>3, <1>5, <1>6, <1>7, <1>8 DEF Reconcile, ReconcileStep

\* Every step keeps the books.
LEMMA BooksStep ==
    ASSUME TypeInv, ServiceInv, [Next]_vars
    PROVE  Books
<1>1. CASE UNCHANGED vars
  BY <1>1, BooksKept DEF vars, serviceVars
<1>2. CASE Environment
  <2>1. ASSUME NEW t \in Txns, ReceivePost(t) \/ DecideCharge(t) \/ Clock(t) PROVE Books
    BY <2>1, BooksKept DEF ReceivePost, DecideCharge, Clock, serviceVars
  <2>2. ASSUME NEW c \in Checkouts, EditDetails(c) PROVE Books
    BY <2>2, BooksKept DEF EditDetails, serviceVars
  <2>3. ASSUME NEW a \in Actors, RequestFails(a) PROVE Books
    BY <2>3, FailsBooks DEF RequestFails
  <2>4. ASSUME NEW a \in Actors, Stop(a) PROVE Books
    BY <2>4, BooksKept, EndRunBooks DEF Stop
  <2> QED BY <1>2, <2>1, <2>2, <2>3, <2>4 DEF Environment
<1> QED BY <1>1, <1>2, InvocationBooks, ApplyBooks, ReconcileBooks DEF Next

\* An invocation leaves its idle state only by taking up a request.
LEMMA IdleLeaves ==
    ASSUME TypeInv, Links, ServiceInv, PaymentsStay, [Next]_vars,
           NEW p \in Txns, pc[p] = "idle", pc'[p] # "idle"
    PROVE  \E c \in Checkouts, k \in Keys, v \in Version : Submit(p, c, k, v)
<1>0. /\ pc \in [Actors -> Label] /\ p \in Actors /\ p # Worker
  BY WorkerAssumption DEF ServiceInv, ServiceTypeOK, Label, Actors
<1>1. ASSUME NEW a \in Actors, Step(a) PROVE a = p
  BY <1>0, <1>1 DEF Step
<1>2. ~UNCHANGED <<pc, op>>
  OBVIOUS
<1>3. ~Fails(p)
  BY DEF Fails, Lookups, At
<1>4. ASSUME NEW q \in Txns, Invocation(q)
      PROVE \E c \in Checkouts, k \in Keys, v \in Version : Submit(p, c, k, v)
  <2>1. q = p
    BY <1>1, <1>4, InvocationMoves DEF Actors
  <2>2. ~(Replay(p) \/ Refuse(p) \/ Proceed(p) \/ Prepare(p) \/ PrepareCancelled(p))
    BY DEF Replay, Refuse, Proceed, Prepare, PrepareCancelled, Lookups, At
  <2>3. ~(ClaimRead(p) \/ ClaimDispatch(p) \/ DoNotPost(p) \/ Post(p) \/ PostAnswered(p))
    BY DEF ClaimRead, ClaimDispatch, DoNotPost, Post, PostAnswered, At
  <2> QED BY <1>4, <2>1, <2>2, <2>3 DEF Invocation
<1>5. ASSUME NEW a \in Actors, Apply(a) PROVE FALSE
  <2>1. a = p
    BY <1>1, <1>5, ApplyMoves
  <2> QED BY <1>5, <2>1
          DEF Apply, AckRead, Acknowledge, MarkUnknownRead, MarkUnknown, FinalizeRead,
              EffectsRead, Settle, SettleCancelled, Flag, Escalate, At
<1>6. ~Reconcile
  BY <1>0, <1>1, <1>2, ReconcileMoves DEF Actors
<1>7. ~Environment
  <2>1. ASSUME NEW t \in Txns, ReceivePost(t) \/ DecideCharge(t) \/ Clock(t) PROVE FALSE
    BY <2>1 DEF ReceivePost, DecideCharge, Clock, serviceVars
  <2>2. ASSUME NEW c \in Checkouts, EditDetails(c) PROVE FALSE
    BY <2>2 DEF EditDetails, serviceVars
  <2>3. ASSUME NEW a \in Actors, RequestFails(a) PROVE FALSE
    BY <1>1, <1>3, <2>3, FailsMoves DEF RequestFails
  <2>4. ASSUME NEW a \in Actors, Stop(a) PROVE FALSE
    <3>1. CASE a = p
      BY <2>4, <3>1 DEF Stop
    <3>2. CASE a # p /\ a # Worker
      BY <1>0, <2>4, <3>2 DEF Stop, Goto
    <3>3. CASE a = Worker
      BY <1>0, <2>4, <3>3, EndRunMoves, <1>1 DEF Stop
    <3> QED BY <3>1, <3>2, <3>3
  <2> QED BY <2>1, <2>2, <2>3, <2>4 DEF Environment
<1>8. CASE UNCHANGED vars
  BY <1>8 DEF vars, serviceVars
<1> QED BY <1>4, <1>5, <1>6, <1>7, <1>8 DEF Next

\* What a step does at the provider.
LEMMA ProviderSteps ==
    ASSUME [Next]_vars
    PROVE  \/ UNCHANGED providerVars
           \/ \E p \in Txns : Post(p)
           \/ \E t \in Txns : ReceivePost(t) \/ DecideCharge(t)
<1>1. CASE UNCHANGED vars
  BY <1>1 DEF vars
<1>2. ASSUME NEW p \in Txns, Invocation(p) PROVE UNCHANGED providerVars \/ Post(p)
  <2>1. CASE (\E c \in Checkouts, k \in Keys, v \in Version : Submit(p, c, k, v)) \/ Replay(p)
             \/ Refuse(p) \/ Proceed(p) \/ PrepareCancelled(p)
    BY <2>1 DEF Submit, Replay, Refuse, Proceed, PrepareCancelled
  <2>2. CASE Prepare(p) \/ ClaimRead(p) \/ ClaimDispatch(p) \/ DoNotPost(p) \/ PostAnswered(p)
    BY <2>2 DEF Prepare, ClaimRead, ClaimDispatch, DoNotPost, PostAnswered
  <2> QED BY <1>2, <2>1, <2>2 DEF Invocation
<1>3. ASSUME NEW a \in Actors, Apply(a) PROVE UNCHANGED providerVars
  BY <1>3 DEF Apply, AckRead, Acknowledge, MarkUnknownRead, MarkUnknown, FinalizeRead,
              EffectsRead, Settle, SettleCancelled, Flag, Escalate
<1>4. CASE Reconcile
  <2>1. ASSUME NEW t \in Txns,
               ClaimDueRead(t) \/ ReconcileUnsent(t) \/ ReconcileRead(t) \/ OverQuota(t)
        PROVE UNCHANGED providerVars
    BY <2>1 DEF ClaimDueRead, ReconcileUnsent, ReconcileRead, OverQuota, TakeUp
  <2>2. CASE ClaimDue \/ ClaimedAll \/ RunEnds
    BY <2>2 DEF ClaimDue, ClaimedAll, RunEnds
  <2>3. ASSUME NEW candidates \in SUBSET Txns, StartRun(candidates)
        PROVE UNCHANGED providerVars
    BY <2>3 DEF StartRun
  <2> QED BY <1>4, <2>1, <2>2, <2>3 DEF Reconcile, ReconcileStep
<1>5. CASE Environment
  <2>1. ASSUME NEW t \in Txns, Clock(t) PROVE UNCHANGED providerVars
    BY <2>1 DEF Clock
  <2>2. ASSUME NEW c \in Checkouts, EditDetails(c) PROVE UNCHANGED providerVars
    BY <2>2 DEF EditDetails
  <2>3. ASSUME NEW a \in Actors, RequestFails(a) \/ Stop(a) PROVE UNCHANGED providerVars
    BY <2>3 DEF RequestFails, Stop
  <2> QED BY <1>5, <2>1, <2>2, <2>3 DEF Environment
<1> QED BY <1>1, <1>2, <1>3, <1>4, <1>5 DEF Next

\* Every step either counts as a fault or leaves their number alone.
LEMMA FaultSteps ==
    ASSUME [Next]_vars
    PROVE  Fault \/ NoFault
<1>1. CASE UNCHANGED vars
  BY <1>1 DEF vars, NoFault
<1>2. ASSUME NEW a, Fails(a) PROVE Fault
  BY <1>2 DEF Fails
<1>3. ASSUME NEW p \in Txns, Invocation(p) PROVE Fault \/ NoFault
  <2>1. CASE (\E c \in Checkouts, k \in Keys, v \in Version : Submit(p, c, k, v)) \/ Replay(p)
             \/ Refuse(p) \/ Proceed(p) \/ PrepareCancelled(p)
    BY <2>1 DEF Submit, Replay, Refuse, Proceed, PrepareCancelled
  <2>2. CASE Prepare(p) \/ ClaimRead(p) \/ ClaimDispatch(p) \/ DoNotPost(p) \/ Post(p)
    BY <1>2, <2>2 DEF Prepare, ClaimRead, ClaimDispatch, DoNotPost, Post
  <2>3. CASE PostAnswered(p)
    BY <2>3 DEF PostAnswered, ProviderAnswers
  <2> QED BY <1>3, <2>1, <2>2, <2>3 DEF Invocation
<1>4. ASSUME NEW a \in Actors, Apply(a) PROVE Fault \/ NoFault
  BY <1>2, <1>4
  DEF Apply, AckRead, Acknowledge, MarkUnknownRead, MarkUnknown, FinalizeRead,
      EffectsRead, Settle, SettleCancelled, Flag, Escalate
<1>5. CASE Reconcile
  <2>1. ASSUME NEW t \in Txns, ClaimDueRead(t) \/ ReconcileUnsent(t) \/ OverQuota(t)
        PROVE NoFault
    BY <2>1 DEF ClaimDueRead, ReconcileUnsent, OverQuota
  <2>2. CASE ClaimDue \/ ClaimedAll \/ RunEnds
    BY <1>2, <2>2 DEF ClaimDue, ClaimedAll, RunEnds
  <2>3. ASSUME NEW candidates \in SUBSET Txns, StartRun(candidates) PROVE NoFault
    BY <2>3 DEF StartRun
  <2>4. ASSUME NEW t \in Txns, ReconcileRead(t) PROVE Fault \/ NoFault
    BY <2>4 DEF ReconcileRead, ProviderAnswers
  <2> QED BY <1>5, <2>1, <2>2, <2>3, <2>4 DEF Reconcile, ReconcileStep
<1>6. CASE Environment
  <2>1. ASSUME NEW t \in Txns, ReceivePost(t) \/ DecideCharge(t) \/ Clock(t) PROVE NoFault
    BY <2>1 DEF ReceivePost, DecideCharge, Clock, NoFault
  <2>2. ASSUME NEW c \in Checkouts, EditDetails(c) PROVE NoFault
    BY <2>2 DEF EditDetails, NoFault
  <2>3. ASSUME NEW a \in Actors, RequestFails(a) \/ Stop(a) PROVE Fault
    BY <1>2, <2>3 DEF RequestFails, Stop
  <2> QED BY <1>6, <2>1, <2>2, <2>3 DEF Environment
<1> QED BY <1>1, <1>3, <1>4, <1>5, <1>6 DEF Next

\* Nothing is lost of what the store holds.
LEMMA ServicePaymentsStay ==
    ASSUME TypeInv, TypeInv', Links, [StoreNext]_storeVars
    PROVE  PaymentsStay
  BY FinalStep DEF PaymentsStay, StaysSettled

-----------------------------------------------------------------------------
(* The inductive invariant of the service *)

\* Nobody carries anything at first.
LEMMA ServiceInvInit == Init => ServiceInv
<1> SUFFICES ASSUME Init PROVE ServiceInv
  OBVIOUS
<1>1. TypeOK
  BY TypeInvInit DEF Init, TypeInv
<1>2. \A a \in Actors : pc[a] = "idle" /\ op[a] = NoOp /\ op[a].txn = NULL
  BY NoOpType DEF Init
<1>3. OpsFit /\ OpsNamePayments
  BY <1>2 DEF OpsFit, OpsNamePayments, Carries, Carrying
<1>4. RequestsTyped /\ ClaimsNamePayments
  BY <1>2 DEF Init, RequestsTyped, ClaimsNamePayments, Actors
<1>5. pc \in [Actors -> Label] /\ op \in [Actors -> Op]
  BY NoOpType DEF Init, Label
<1>6. /\ answer \in [Txns -> Txns \cup {NULL}] /\ todo \subseteq Txns
      /\ reads \in 0 .. ReadLimit /\ charge \in [Txns -> ChargeStatus]
      /\ posts \in [Txns -> 0 .. 2] /\ faults \in 0 .. MaxFaults
  BY LimitsAssumption DEF Init, ChargeStatus
<1> QED BY <1>1, <1>3, <1>4, <1>5, <1>6 DEF ServiceInv, ServiceTypeOK, Label, Op

\* The provider's own states stay in range.
LEMMA ProviderTypes ==
    ASSUME ServiceInv, [Next]_vars
    PROVE  charge' \in [Txns -> ChargeStatus] /\ posts' \in [Txns -> 0 .. 2]
<1>0. charge \in [Txns -> ChargeStatus] /\ posts \in [Txns -> 0 .. 2]
  BY DEF ServiceInv, ServiceTypeOK
<1>1. CASE UNCHANGED providerVars
  BY <1>0, <1>1 DEF providerVars
<1>2. ASSUME NEW p \in Txns, Post(p)
      PROVE charge' \in [Txns -> ChargeStatus] /\ posts' \in [Txns -> 0 .. 2]
  <2> DEFINE t == op[p].txn
             n == posts[t] + 1
             status == IF charge[t] = "NONE" THEN "INFLIGHT" ELSE charge[t]
  <2>1. t \in Txns /\ posts[t] < 2
    <3>1. pc[p] \in Carrying /\ p \in Actors /\ posts[t] < 2
      BY <1>2 DEF Post, At, Carrying, Actors
    <3> QED BY <3>1, OpType DEF Carries
  <2>2. n \in 0 .. 2 /\ status \in ChargeStatus
    BY <1>0, <2>1 DEF ChargeStatus
  <2>3. posts' = [posts EXCEPT ![t] = n] /\ charge' = [charge EXCEPT ![t] = status]
    BY <1>2 DEF Post
  <2> HIDE DEF n, status, t
  <2> QED BY <1>0, <2>1, <2>2, <2>3
<1>3. ASSUME NEW t \in Txns, ReceivePost(t) \/ DecideCharge(t)
      PROVE charge' \in [Txns -> ChargeStatus] /\ posts' = posts
  <2>1. PICK status : /\ status \in ProviderOutcomes \cup {"PENDING", "REJECTED", "REVERSED"}
                      /\ charge' = [charge EXCEPT ![t] = status] /\ posts' = posts
    BY <1>3 DEF ReceivePost, DecideCharge
  <2>2. status \in ChargeStatus
    BY <2>1, OutcomesAssumption DEF ChargeStatus
  <2> QED BY <1>0, <2>1, <2>2
<1> QED BY <1>0, <1>1, <1>2, <1>3, ProviderSteps

\* No step of an invocation, of the worker, of the provider or of the platform
\* leaves an actor carrying what does not fit the await it stands at.
LEMMA ServiceInvStep ==
    ASSUME TypeInv, TypeInv', Links, ServiceInv, [Next]_vars
    PROVE  ServiceInv'
<1>0. PaymentsStay
  BY ServiceStepIsStores, ServicePaymentsStay
<1>1. /\ pc \in [Actors -> Label] /\ op \in [Actors -> Op]
      /\ \A a \in Actors : /\ op[a].txn \in Txns \cup {NULL}
                           /\ op[a].txn # NULL => op[a].txn \in Accepted
  BY OpType DEF ServiceInv, ServiceTypeOK, Label, Op
<1>2. \A a \in Actors : op[a].txn # NULL => payment'[op[a].txn] # NULL
  BY <1>0, <1>1 DEF PaymentsStay, Accepted
<1>3. /\ pc' \in [Actors -> Label] /\ op' \in [Actors -> Op]
      /\ OpsFit' /\ OpsNamePayments'
  <2>1. CASE UNCHANGED <<pc, op>>
    BY <1>1, <1>2, <2>1 DEF ServiceInv, OpsFit, OpsNamePayments
  <2>2. ASSUME NEW a \in Actors, NEW label \in Label, NEW o \in Op,
               pc' = [pc EXCEPT ![a] = label], op' = [op EXCEPT ![a] = o],
               Carries(label, o), Origin(a, label, o)
        PROVE /\ pc' \in [Actors -> Label] /\ op' \in [Actors -> Op]
              /\ OpsFit' /\ OpsNamePayments'
    <3>1. \A b \in Actors : /\ b = a => pc'[b] = label /\ op'[b] = o
                            /\ b # a => pc'[b] = pc[b] /\ op'[b] = op[b]
      BY <1>1, <2>2
    <3>2. pc' \in [Actors -> Label] /\ op' \in [Actors -> Op]
      BY <1>1, <2>2
    <3>3. OpsFit'
      BY <2>2, <3>1 DEF OpsFit, ServiceInv
    <3>4. OpsNamePayments'
      BY <1>2, <2>2, <3>1 DEF OpsNamePayments, Origin
    <3> QED BY <3>2, <3>3, <3>4
  <2> QED BY <1>0, <2>1, <2>2, ActorMoves DEF Step
<1>4. Books
  BY BooksStep
<1>5. RequestsTyped'
  <2>1. req \in [Txns -> Request \cup {NULL}]
    BY DEF ServiceInv, RequestsTyped
  <2>2. req' \in [Txns -> Request \cup {NULL}]
    BY <1>4, <2>1 DEF Books
  <2>3. ASSUME NEW p \in Txns, pc'[p] # "idle" PROVE req'[p] \in Request
    <3>1. CASE pc[p] # "idle"
      BY <1>4, <2>1, <3>1 DEF Books, ServiceInv, RequestsTyped, At
    <3>2. CASE pc[p] = "idle"
      <4>1. PICK c \in Checkouts, k \in Keys, v \in Version : Submit(p, c, k, v)
        BY <1>0, <2>3, <3>2, IdleLeaves
      <4> DEFINE r == [checkoutId |-> c, key |-> k, expectedVersion |-> v,
                       submittable |-> \/ checkout[c].status = "READY"
                                       \/ checkout[c].activeTransactionId # NULL]
      <4>2. r \in Request
        BY DEF Request
      <4>3. req' = [req EXCEPT ![p] = r]
        BY <4>1 DEF Submit
      <4> HIDE DEF r
      <4> QED BY <2>1, <4>2, <4>3
    <3> QED BY <3>1, <3>2
  <2> QED BY <2>2, <2>3 DEF RequestsTyped
<1>6. ClaimsNamePayments'
  <2>1. claimed' \in [Txns -> Claim \cup {NULL}]
    BY <1>4 DEF Books
  <2>2. ASSUME NEW t \in Txns, claimed'[t] # NULL PROVE payment[t] # NULL
    BY <1>4, <2>2 DEF Books, ClaimsNow, ServiceInv, ClaimsNamePayments
  <2> QED BY <1>0, <2>1, <2>2 DEF ClaimsNamePayments, PaymentsStay
<1>7. answer' \in [Txns -> Txns \cup {NULL}] /\ todo' \subseteq Txns /\ reads' \in 0 .. ReadLimit
  <2>1. answer \in [Txns -> Txns \cup {NULL}]
    BY DEF ServiceInv, ServiceTypeOK
  <2> QED BY <1>1, <1>4, <2>1 DEF Books, Actors
<1>8. faults' \in 0 .. MaxFaults
  BY FaultSteps, LimitsAssumption DEF ServiceInv, ServiceTypeOK, Fault, NoFault
<1>9. TypeOK'
  BY DEF TypeInv
<1> QED BY <1>3, <1>5, <1>6, <1>7, <1>8, <1>9, ProviderTypes
        DEF ServiceInv, ServiceTypeOK, Label, Op

\* The store's own invariants with the service's: together they are inductive.
StoreInv == TypeInv /\ Links /\ SettledTogether /\ IdInv

\* The store's invariants and the service's hold at first ...
LEMMA AllInit == Init => StoreInv /\ ServiceInv
  BY ServiceInvInit, TypeInvInit, LinksInit, SettledInit, IdInit DEF Init, StoreInv

\* ... every step keeps them together ...
LEMMA AllStep == StoreInv /\ ServiceInv /\ [Next]_vars => StoreInv' /\ ServiceInv'
<1> SUFFICES ASSUME StoreInv, ServiceInv, [Next]_vars PROVE StoreInv' /\ ServiceInv'
  OBVIOUS
<1>1. [StoreNext]_storeVars
  BY ServiceStepIsStores DEF StoreInv
<1>2. TypeInv'
  BY <1>1, TypeInvStep DEF StoreInv
<1>3. StoreInv'
  BY <1>1, <1>2, LinksStep, SettledStep, IdStep DEF StoreInv
<1> QED BY <1>2, <1>3, ServiceInvStep DEF StoreInv

\* ... so they hold in every state.
LEMMA AllAlways == Spec => [](StoreInv /\ ServiceInv)
  BY AllInit, AllStep, PTL DEF Spec

\* The service, its concurrent invocations, the worker and every failed request
\* or stopped Lambda included, sends the repository's tables only writes their
\* most general client may send: CheckoutPayment implements PaymentStore.
THEOREM ServiceUsesStore == Spec => UsesStore
<1>1. Init => StoreInit
  BY DEF Init
<1>2. StoreInv /\ ServiceInv /\ [Next]_vars => [StoreNext]_storeVars
  BY ServiceStepIsStores DEF StoreInv
<1> QED BY <1>1, <1>2, AllAlways, PTL DEF Spec, UsesStore, StoreSpec

\* The service keeps the promise of the abstract payment: what it asks of the store,
\* through failures and restarts, never decides a payment twice.
THEOREM ServiceKeepsPromise == Spec => KeepsPromise
<1>1. StoreSpec => KeepsPromise
  BY PromiseKept
<1>2. Spec => StoreSpec
  BY ServiceUsesStore DEF UsesStore
<1> QED
  BY <1>1, <1>2, PTL

\* Whatever an actor carries and wherever it stands, the service's state and the
\* rows it works on keep their types.
THEOREM ServiceTypeCorrect == Spec => []ServiceTypeOK
<1>1. ServiceInv => ServiceTypeOK
  BY DEF ServiceInv
<1> QED BY <1>1, AllAlways, PTL

-----------------------------------------------------------------------------
(* Answers: whatever an invocation works on belongs to its own request *)

AnswersInv ==
    \A p \in Txns :
        /\ pc[p] = "idle" => op[p].txn = NULL /\ answer[p] = NULL
        /\ op[p].txn # NULL => payment[op[p].txn].checkoutId = req[p].checkoutId
        /\ answer[p] # NULL => /\ payment[answer[p]] # NULL
                               /\ payment[answer[p]].checkoutId = req[p].checkoutId

\* No answer is out at first.
LEMMA AnswersInit == Init => AnswersInv
  BY NoOpType DEF Init, AnswersInv, Actors

\* No step makes an invocation work, or answer, outside its own checkout.
LEMMA AnswersStep ==
    ASSUME StoreInv, StoreInv', ServiceInv, AnswersInv, [Next]_vars
    PROVE  AnswersInv'
<1>0. PaymentsStay
  BY ServiceStepIsStores, ServicePaymentsStay DEF StoreInv
<1>1. /\ pc \in [Actors -> Label] /\ op \in [Actors -> Op]
      /\ answer \in [Txns -> Txns \cup {NULL}] /\ req \in [Txns -> Request \cup {NULL}]
      /\ \A p \in Txns : p \in Actors /\ p # Worker
  BY WorkerAssumption DEF ServiceInv, ServiceTypeOK, RequestsTyped, Label, Op, Actors
<1>2. Books
  BY BooksStep DEF StoreInv
<1>3. ASSUME NEW p \in Txns, pc[p] # "idle" PROVE req'[p] = req[p]
  BY <1>1, <1>2, <1>3 DEF Books, At
<1>4. ASSUME NEW p \in Txns, pc[p] = "idle", pc'[p] # "idle"
      PROVE op'[p].txn = NULL /\ answer'[p] = NULL
  <2>1. PICK c \in Checkouts, k \in Keys, v \in Version : Submit(p, c, k, v)
    BY <1>0, <1>4, IdleLeaves DEF StoreInv
  <2> QED BY <1>4, <2>1 DEF Submit, AnswersInv
<1>5. ASSUME NEW p \in Txns
      PROVE \/ pc'[p] = pc[p] /\ op'[p] = op[p]
            \/ \E label \in Label, o \in Op :
                  pc'[p] = label /\ op'[p] = o /\ Origin(p, label, o)
  <2>1. CASE UNCHANGED <<pc, op>>
    BY <2>1
  <2>2. ASSUME NEW a \in Actors, Step(a)
        PROVE \/ pc'[p] = pc[p] /\ op'[p] = op[p]
              \/ \E label \in Label, o \in Op :
                    pc'[p] = label /\ op'[p] = o /\ Origin(p, label, o)
    BY <1>1, <2>2 DEF Step
  <2> QED BY <1>0, <2>1, <2>2, ActorMoves DEF StoreInv
<1>6. ASSUME NEW p \in Txns
      PROVE answer'[p] = answer[p] \/ (answer'[p] = op[p].txn /\ pc'[p] = "answered")
  BY <1>1, <1>2 DEF Books
<1>7. ASSUME NEW p \in Txns, pc'[p] = "idle" PROVE op'[p].txn = NULL /\ answer'[p] = NULL
  <2>1. pc'[p] = pc[p] /\ op'[p] = op[p]
    BY <1>1, <1>5, <1>7 DEF Origin
  <2> QED BY <1>6, <1>7, <2>1 DEF AnswersInv
<1>8. ASSUME NEW p \in Txns, op'[p].txn # NULL
      PROVE payment'[op'[p].txn].checkoutId = req'[p].checkoutId
  <2>1. pc[p] # "idle" /\ req'[p] = req[p]
    BY <1>3, <1>4, <1>7, <1>8
  <2>2. CASE op'[p].txn = op[p].txn
    <3>1. op[p].txn \in Accepted /\ payment[op[p].txn].checkoutId = req[p].checkoutId
      BY <1>1, <1>8, <2>2, OpType DEF AnswersInv
    <3> QED BY <1>0, <2>1, <2>2, <3>1 DEF PaymentsStay, Accepted
  <2>3. CASE op'[p].txn # op[p].txn
    BY <1>1, <1>5, <1>8, <2>1, <2>3 DEF Origin
  <2> QED BY <2>2, <2>3
<1>9. ASSUME NEW p \in Txns, answer'[p] # NULL
      PROVE payment'[answer'[p]] # NULL /\ payment'[answer'[p]].checkoutId = req'[p].checkoutId
  <2>1. \/ answer'[p] = answer[p]
        \/ answer'[p] = op[p].txn
    BY <1>6
  <2>2. /\ answer'[p] \in Txns /\ pc[p] # "idle"
        /\ payment[answer'[p]] # NULL /\ payment[answer'[p]].checkoutId = req[p].checkoutId
    <3>1. op[p].txn # NULL => op[p].txn \in Accepted
      BY <1>1, OpType
    <3> QED BY <1>1, <1>9, <2>1, <3>1 DEF AnswersInv, Accepted
  <2> QED BY <1>0, <1>3, <2>2 DEF PaymentsStay
<1> QED BY <1>7, <1>8, <1>9 DEF AnswersInv

\* Every 202 that the submissions of one checkout get, from the leader, from a
\* replay or after a lost race for the checkout, names the payment the checkout is
\* locked by.
THEOREM AnswersCorrect == Spec => []AnswersAgree
<1>1. StoreInv /\ StoreInv' /\ ServiceInv /\ AnswersInv /\ [Next]_vars => AnswersInv'
  BY AnswersStep
<1>2. StoreInv /\ ServiceInv /\ AnswersInv => AnswersAgree
  <2> SUFFICES ASSUME StoreInv, ServiceInv, AnswersInv, NEW p \in Txns, answer[p] # NULL
               PROVE  /\ payment[answer[p]] # NULL
                      /\ payment[answer[p]].checkoutId = req[p].checkoutId
                      /\ checkout[req[p].checkoutId].activeTransactionId = answer[p]
    BY DEF AnswersAgree
  <2>1. answer[p] \in Txns
    BY DEF ServiceInv, ServiceTypeOK
  <2> QED BY <2>1 DEF AnswersInv, StoreInv, Links, OnePaymentPerCheckout
<1> QED BY <1>1, <1>2, AllAlways, AnswersInit, PTL DEF Spec

-----------------------------------------------------------------------------
(* Addresses: the details of a checkout under payment are frozen *)

DetailsOf(t) == checkout[payment[t].checkoutId].deliveryDetails
HashOf(t) == idempotency[payment[t].checkoutId][payment[t].idempotencyKeyHash].semanticHash

\* Details are never newer than the checkout's version.
DetailsBounded ==
    \A c \in Checkouts : checkout[c] # NULL => checkout[c].deliveryDetails <= checkout[c].version

AddressInv ==
    /\ DetailsBounded
    /\ \A t \in Txns : payment[t] # NULL => DetailsOf(t) <= HashOf(t)
    /\ \A a \in Actors, t \in Txns :
          pc[a] = "settling" /\ op[a].txn = t => op[a].destination <= HashOf(t)
    /\ ShippedAsSubmitted

\* The rows of an accepted payment are there, and well typed.
LEMMA OwnerTypes ==
    ASSUME TypeInv, Links, NEW t \in Txns, payment[t] # NULL
    PROVE  /\ payment[t].checkoutId \in Checkouts
           /\ payment[t].idempotencyKeyHash \in Keys
           /\ checkout[payment[t].checkoutId] \in Checkout
           /\ checkout[payment[t].checkoutId] # NULL
           /\ checkout[payment[t].checkoutId].activeTransactionId = t
           /\ idempotency[payment[t].checkoutId][payment[t].idempotencyKeyHash] \in Idempotency
           /\ DetailsOf(t) \in Version /\ HashOf(t) \in Version
<1>1. payment[t].checkoutId \in Checkouts /\ payment[t].idempotencyKeyHash \in Keys
  BY DEF TypeInv, TypeOK, Payment
<1>2. /\ checkout[payment[t].checkoutId] # NULL
      /\ checkout[payment[t].checkoutId].activeTransactionId = t
      /\ idempotency[payment[t].checkoutId][payment[t].idempotencyKeyHash] # NULL
  BY <1>1 DEF Links, OnePaymentPerCheckout, KeyNamesItsPayment
<1>3. /\ checkout[payment[t].checkoutId] \in Checkout
      /\ idempotency[payment[t].checkoutId][payment[t].idempotencyKeyHash] \in Idempotency
  BY <1>1, <1>2 DEF TypeInv, TypeOK
<1> QED BY <1>1, <1>2, <1>3 DEF DetailsOf, HashOf, Checkout, Idempotency

\* A settlement closes the rows of its payment and leaves their contents alone.
LEMMA SettlesKeepsContents ==
    ASSUME TypeInv, Links, NEW u \in Txns, NEW status, Settles(u, status)
    PROVE  /\ DetailsOf(u)' = DetailsOf(u) /\ HashOf(u)' = HashOf(u)
           /\ \A c \in Checkouts : checkout'[c] # NULL =>
                 /\ checkout[c] # NULL
                 /\ checkout'[c].deliveryDetails = checkout[c].deliveryDetails
                 /\ checkout'[c].version = checkout[c].version
<1> DEFINE c == payment[u].checkoutId
           k == payment[u].idempotencyKeyHash
           closed == CheckoutStatusForPayment(status)
<1>0. /\ checkout \in [Checkouts -> Checkout \cup {NULL}]
      /\ idempotency \in [Checkouts -> [Keys -> Idempotency \cup {NULL}]]
  BY DEF TypeInv, TypeOK
<1>1. payment[u] # NULL
  BY NullAssumption DEF Settles
<1>2. /\ c \in Checkouts /\ k \in Keys /\ checkout[c] \in Checkout /\ checkout[c] # NULL
      /\ idempotency[c][k] \in Idempotency
  BY <1>1, OwnerTypes
<1>3. /\ checkout' = [checkout EXCEPT ![c].status = closed]
      /\ idempotency' = [idempotency EXCEPT ![c][k].status = "FINAL"]
      /\ payment'[u].checkoutId = c /\ payment'[u].idempotencyKeyHash = k
  BY DEF Settles, CloseOwnerRows, SameOwner
<1> HIDE DEF closed, c, k
<1>4. /\ checkout'[c].deliveryDetails = checkout[c].deliveryDetails
      /\ checkout'[c].version = checkout[c].version
      /\ \A d \in Checkouts \ {c} : checkout'[d] = checkout[d]
  BY <1>0, <1>2, <1>3 DEF Checkout
<1>5. idempotency'[c][k].semanticHash = idempotency[c][k].semanticHash
  BY <1>0, <1>2, <1>3 DEF Idempotency
<1> QED BY <1>2, <1>3, <1>4, <1>5 DEF DetailsOf, HashOf, c, k

\* No step of the store changes the details or the submitted version of an
\* accepted payment.
LEMMA ContentsFrozen ==
    ASSUME TypeInv, TypeInv', Links, [StoreNext]_storeVars, NEW t \in Txns, payment[t] # NULL
    PROVE  DetailsOf(t)' = DetailsOf(t) /\ HashOf(t)' = HashOf(t)
<1>0. /\ checkout \in [Checkouts -> Checkout \cup {NULL}]
      /\ payment \in [Txns -> Payment \cup {NULL}]
      /\ idempotency \in [Checkouts -> [Keys -> Idempotency \cup {NULL}]]
      /\ payment[t].checkoutId \in Checkouts /\ payment[t].idempotencyKeyHash \in Keys
      /\ checkout[payment[t].checkoutId] # NULL
      /\ checkout[payment[t].checkoutId].activeTransactionId = t /\ t # NULL
  BY OwnerTypes, TxnsAssumption DEF TypeInv, TypeOK
<1>1. CASE UNCHANGED storeVars
  BY <1>1 DEF storeVars, DetailsOf, HashOf
<1>2. ASSUME NEW c \in Checkouts, Drafts(c) PROVE DetailsOf(t)' = DetailsOf(t) /\ HashOf(t)' = HashOf(t)
  <2>1. c # payment[t].checkoutId
    BY <1>0, <1>2 DEF Drafts
  <2> QED BY <1>0, <1>2, <2>1 DEF Drafts, DetailsOf, HashOf
<1>3. ASSUME NEW c \in Checkouts, NEW k \in Keys, NEW u \in Txns, Prepares(c, k, u)
      PROVE DetailsOf(t)' = DetailsOf(t) /\ HashOf(t)' = HashOf(t)
  <2>1. Accepts(c, k, u)
    BY <1>3, PrepareFacts
  <2>2. c # payment[t].checkoutId /\ u # t
    BY <1>0, <2>1 DEF Accepts
  <2> QED BY <1>0, <2>1, <2>2 DEF Accepts, DetailsOf, HashOf
<1>4. ASSUME NEW u \in Txns, Touches(u)
      PROVE DetailsOf(t)' = DetailsOf(t) /\ HashOf(t)' = HashOf(t)
  BY <1>0, <1>4 DEF Touches, SameOwner, DetailsOf, HashOf
<1>5. ASSUME NEW u \in Txns, NEW status, Settles(u, status)
      PROVE DetailsOf(t)' = DetailsOf(t) /\ HashOf(t)' = HashOf(t)
  <2>1. CASE u = t
    BY <1>5, <2>1, SettlesKeepsContents
  <2>2. CASE u # t
    <3>1. payment'[t] = payment[t]
      BY <1>0, <1>5, <2>2 DEF Settles
    <3>2. /\ checkout'[payment[t].checkoutId] = checkout[payment[t].checkoutId]
          /\ idempotency'[payment[t].checkoutId][payment[t].idempotencyKeyHash]
               = idempotency[payment[t].checkoutId][payment[t].idempotencyKeyHash]
      BY <1>5, <2>2, <3>1, OthersUntouched
    <3> QED BY <3>1, <3>2 DEF DetailsOf, HashOf
  <2> QED BY <2>1, <2>2
<1> QED BY <1>1, <1>2, <1>3, <1>4, <1>5, StepKinds DEF Sells, Reviews, Refunds

\* Every write of the details writes a new version of the checkout with them.
LEMMA DetailsStep ==
    ASSUME TypeInv, TypeInv', Links, DetailsBounded, [StoreNext]_storeVars
    PROVE  DetailsBounded'
<1>0. checkout \in [Checkouts -> Checkout \cup {NULL}]
  BY DEF TypeInv, TypeOK
<1>1. ASSUME UNCHANGED checkout PROVE DetailsBounded'
  BY <1>1 DEF DetailsBounded
<1>2. ASSUME NEW c \in Checkouts, NEW row \in Checkout, row.deliveryDetails <= row.version,
             checkout' = [checkout EXCEPT ![c] = row]
      PROVE DetailsBounded'
  BY <1>0, <1>2 DEF DetailsBounded
<1>3. ASSUME NEW c \in Checkouts, CreateWrite(c) PROVE DetailsBounded'
  <2> DEFINE row == [status |-> "DRAFT", version |-> 1, activeTransactionId |-> NULL,
                     customer |-> 0, deliveryDetails |-> 0]
  <2>1. row \in Checkout /\ row.deliveryDetails <= row.version
    BY VersionAssumption DEF Checkout, CheckoutStatus, Version
  <2>2. checkout' = [checkout EXCEPT ![c] = row]
    BY <1>3 DEF CreateWrite
  <2> HIDE DEF row
  <2> QED BY <1>2, <2>1, <2>2
<1>4. ASSUME NEW c \in Checkouts, NEW v \in Version, NEW other \in BOOLEAN,
             ReplaceCustomerWrite(c, v, other)
      PROVE DetailsBounded'
  <2> DEFINE status == IF other THEN "READY" ELSE "DRAFT"
             row == [checkout[c] EXCEPT !.version = v + 1, !.customer = v + 1, !.status = status]
  <2>1. /\ checkout[c] \in Checkout /\ checkout[c] # NULL /\ checkout[c].version = v
        /\ v + 1 \in Version /\ v \in Int
    BY <1>0, <1>4, VersionAssumption DEF ReplaceCustomerWrite, CheckoutIsAt, Version
  <2>2. checkout[c].deliveryDetails <= v /\ checkout[c].deliveryDetails \in Int
    BY <2>1 DEF DetailsBounded, Checkout, Version
  <2>3. status \in CheckoutStatus
    BY DEF CheckoutStatus
  <2>4. checkout' = [checkout EXCEPT ![c] = row]
    BY <1>4 DEF ReplaceCustomerWrite
  <2> HIDE DEF status
  <2>5. row \in Checkout /\ row.version = v + 1 /\ row.deliveryDetails = checkout[c].deliveryDetails
    BY <2>1, <2>3 DEF Checkout
  <2> HIDE DEF row
  <2>6. row.deliveryDetails <= row.version
    BY <2>1, <2>2, <2>5
  <2> QED BY <1>2, <2>4, <2>5, <2>6
<1>5. ASSUME NEW c \in Checkouts, NEW v \in Version, NEW other \in BOOLEAN,
             ReplaceDeliveryDetailsWrite(c, v, other)
      PROVE DetailsBounded'
  <2> DEFINE status == IF other THEN "READY" ELSE "DRAFT"
             row == [checkout[c] EXCEPT !.version = v + 1, !.deliveryDetails = v + 1,
                                        !.status = status]
  <2>1. /\ checkout[c] \in Checkout /\ v + 1 \in Version /\ v + 1 <= v + 1
    BY <1>0, <1>5, VersionAssumption DEF ReplaceDeliveryDetailsWrite, CheckoutIsAt, Version
  <2>2. status \in CheckoutStatus
    BY DEF CheckoutStatus
  <2>3. checkout' = [checkout EXCEPT ![c] = row]
    BY <1>5 DEF ReplaceDeliveryDetailsWrite
  <2> HIDE DEF status
  <2>4. row \in Checkout /\ row.version = v + 1 /\ row.deliveryDetails = v + 1
    BY <2>1, <2>2 DEF Checkout
  <2> HIDE DEF row
  <2> QED BY <1>2, <2>1, <2>3, <2>4
<1>6. ASSUME NEW c \in Checkouts, NEW k \in Keys, NEW t \in Txns, NEW v \in Version,
             PreparePaymentWrite(c, k, t, v)
      PROVE DetailsBounded'
  <2> DEFINE row == [checkout[c] EXCEPT !.status = "PAYMENT_PENDING", !.version = v + 1,
                                        !.activeTransactionId = t]
  <2>1. checkout[c] \in Checkout /\ checkout[c] # NULL /\ checkout[c].version = v
    BY <1>0, <1>6 DEF PreparePaymentWrite, CheckoutIsAt
  <2>2. v <= MaxVersion /\ v + 1 \in Version /\ v \in Int
    <3>1. v <= MaxVersion
      BY <1>6, <2>1 DEF PreparePaymentWrite, CheckoutIsAt, TypeInv, DraftBounded
    <3> QED BY <3>1, VersionAssumption DEF Version
  <2>3. checkout[c].deliveryDetails <= v /\ checkout[c].deliveryDetails \in Int
    BY <2>1 DEF DetailsBounded, Checkout, Version
  <2>4. checkout' = [checkout EXCEPT ![c] = row]
    BY <1>6 DEF PreparePaymentWrite
  <2>5. row \in Checkout /\ row.version = v + 1 /\ row.deliveryDetails = checkout[c].deliveryDetails
    BY <2>1, <2>2 DEF Checkout, CheckoutStatus
  <2> HIDE DEF row
  <2>6. row.deliveryDetails <= row.version
    BY <2>2, <2>3, <2>5
  <2> QED BY <1>2, <2>4, <2>5, <2>6
<1>7. ASSUME NEW u \in Txns, NEW status, Settles(u, status) PROVE DetailsBounded'
  BY <1>7, SettlesKeepsContents DEF DetailsBounded
<1>8. ASSUME NEW t \in Txns, Touches(t) PROVE DetailsBounded'
  BY <1>1, <1>8 DEF Touches
<1>9. CASE UNCHANGED storeVars
  BY <1>1, <1>9 DEF storeVars
<1>10. CASE DraftStep
  BY <1>3, <1>4, <1>5, <1>10 DEF DraftStep
<1>11. CASE DispatchStep
  <2>1. ASSUME NEW c \in Checkouts, NEW k \in Keys, NEW t \in Txns, Prepares(c, k, t)
        PROVE DetailsBounded'
    BY <1>6, <2>1 DEF Prepares
  <2> QED BY <1>8, <1>11, <2>1, DispatchKind
<1>12. CASE SettleStep
  BY <1>7, <1>8, <1>12, SettleKind DEF Sells, Reviews, Refunds
<1> QED BY <1>9, <1>10, <1>11, <1>12 DEF StoreNext

\* A delivery is addressed only by an actor that settles, to what it carries.
LEMMA DeliveryWrites ==
    ASSUME StoreInv, ServiceInv, [Next]_vars, NEW t \in Txns
    PROVE  \/ delivery'[t] = delivery[t]
           \/ \E a \in Actors :
                 /\ At(a, "settling") /\ op[a].txn = t
                 /\ delivery'[t] = op[a].destination
<1>0. delivery \in [Txns -> Version]
  BY DEF StoreInv, TypeInv, TypeOK
<1>1. CASE UNCHANGED storeVars
  BY <1>1 DEF storeVars
<1>2. ASSUME NEW a \in Actors, At(a, "settling"), SettleWrite(a)
      PROVE \/ delivery'[t] = delivery[t]
            \/ op[a].txn = t /\ delivery'[t] = op[a].destination
  BY <1>0, <1>2 DEF SettleWrite, FinalizeApprovedWrite, FinalizeFailureWrite
<1>3. ASSUME ServiceWrite
      PROVE UNCHANGED delivery \/ \E a \in Actors : At(a, "settling") /\ SettleWrite(a)
  BY <1>3
  DEF ServiceWrite, PreparePaymentWrite, ClaimDispatchWrite, AcknowledgeProviderWrite,
      MarkUnknownWrite, RecordFinalConflictWrite, RecordApprovedInventoryConflictWrite,
      ClaimDueWrite, BecomesDue, ReplaceDeliveryDetailsWrite
<1> QED BY <1>1, <1>2, <1>3, OnlyServiceWrites

\* A payment accepted in this step was submitted with the version its details
\* are part of.
LEMMA AcceptedContents ==
    ASSUME StoreInv, DetailsBounded, [StoreNext]_storeVars,
           NEW t \in Txns, payment[t] = NULL, payment'[t] # NULL, TypeInv'
    PROVE  DetailsOf(t)' <= HashOf(t)' /\ delivery'[t] = 0
<1>0. /\ checkout \in [Checkouts -> Checkout \cup {NULL}]
      /\ payment \in [Txns -> Payment \cup {NULL}]
      /\ idempotency \in [Checkouts -> [Keys -> Idempotency \cup {NULL}]]
  BY DEF StoreInv, TypeInv, TypeOK
<1>1. PICK c \in Checkouts, k \in Keys : Prepares(c, k, t)
  <2>1. ASSUME NEW u \in Txns, payment[u] \in Payment,
               payment' = [payment EXCEPT ![u] = payment'[u]]
        PROVE FALSE
    BY <1>0, <2>1, NullAssumption
  <2>2. ASSUME NEW u \in Txns, NEW status, Settles(u, status) PROVE FALSE
    BY <2>1, <2>2 DEF Settles
  <2>3. ASSUME NEW u \in Txns, Touches(u) PROVE FALSE
    BY <2>1, <2>3 DEF Touches
  <2>4. ASSUME payment' = payment PROVE FALSE
    BY <2>4
  <2>5. ASSUME NEW c \in Checkouts, NEW k \in Keys, NEW u \in Txns, Prepares(c, k, u)
        PROVE u = t
    <3>1. TypeInv
      BY DEF StoreInv
    <3>2. Accepts(c, k, u)
      BY <2>5, <3>1, PrepareFacts
    <3>3. payment' = [payment EXCEPT ![u] = payment'[u]]
      BY <3>2 DEF Accepts
    <3> QED BY <1>0, <3>3
  <2>6. \E c \in Checkouts, k \in Keys, u \in Txns : Prepares(c, k, u)
    BY <2>2, <2>3, <2>4, StepKinds
    DEF StoreInv, Drafts, Sells, Reviews, Refunds, storeVars
  <2> QED BY <2>5, <2>6
<1>2. PICK v \in Version : PreparePaymentWrite(c, k, t, v)
  BY <1>1 DEF Prepares
<1>3. Accepts(c, k, t)
  BY <1>1, PrepareFacts DEF StoreInv
<1>4. checkout[c] \in Checkout /\ checkout[c] # NULL /\ checkout[c].version = v
  BY <1>0, <1>2 DEF PreparePaymentWrite, CheckoutIsAt
<1>5. checkout'[c].deliveryDetails = checkout[c].deliveryDetails
  <2> DEFINE row == [checkout[c] EXCEPT !.status = "PAYMENT_PENDING", !.version = v + 1,
                                        !.activeTransactionId = t]
  <2>1. checkout'[c] = row
    BY <1>0, <1>2 DEF PreparePaymentWrite
  <2>2. row.deliveryDetails = checkout[c].deliveryDetails
    BY <1>4 DEF Checkout
  <2> QED BY <2>1, <2>2
<1>6. idempotency'[c][k].semanticHash = v
  BY <1>0, <1>2 DEF PreparePaymentWrite, RememberKey
<1>7. DetailsOf(t)' = checkout'[c].deliveryDetails /\ HashOf(t)' = idempotency'[c][k].semanticHash
  BY <1>3 DEF Accepts, DetailsOf, HashOf
<1>8. delivery'[t] = 0
  BY <1>2 DEF PreparePaymentWrite, StoreInv, Links, NothingWithoutPayment
<1> QED BY <1>4, <1>5, <1>6, <1>7, <1>8 DEF DetailsBounded

\* No step puts details behind the submitted version into a delivery.
LEMMA AddressStep ==
    ASSUME StoreInv, StoreInv', ServiceInv, ServiceInv', AddressInv, [Next]_vars
    PROVE  AddressInv'
<1>0. /\ [StoreNext]_storeVars /\ PaymentsStay
      /\ TypeInv /\ TypeInv' /\ Links /\ Links' /\ DetailsBounded
  BY ServiceStepIsStores, ServicePaymentsStay DEF StoreInv, AddressInv
<1>1. DetailsBounded'
  BY <1>0, DetailsStep
<1>2. ASSUME NEW t \in Txns, payment[t] # NULL
      PROVE DetailsOf(t)' = DetailsOf(t) /\ HashOf(t)' = HashOf(t)
  BY <1>0, <1>2, ContentsFrozen
<1>3. ASSUME NEW t \in Txns, payment'[t] # NULL PROVE DetailsOf(t)' <= HashOf(t)'
  <2>1. CASE payment[t] # NULL
    BY <1>2, <2>1 DEF AddressInv
  <2>2. CASE payment[t] = NULL
    BY <1>0, <1>3, <2>2, AcceptedContents
  <2> QED BY <2>1, <2>2
<1>4. ASSUME NEW a \in Actors, NEW t \in Txns, pc'[a] = "settling", op'[a].txn = t
      PROVE op'[a].destination <= HashOf(t)'
  <2>1. CASE pc'[a] = pc[a] /\ op'[a] = op[a]
    <3>1. payment[t] # NULL
      BY <1>4, <2>1, OpType, TxnsAssumption DEF Accepted
    <3> QED BY <1>2, <1>4, <2>1, <3>1 DEF AddressInv
  <2>2. ASSUME NEW o \in Op, op'[a] = o, Origin(a, "settling", o)
        PROVE op'[a].destination <= HashOf(t)'
    <3>1. o.txn = t /\ op[a].txn = t /\ o.destination = DetailsOf(t)
      BY <1>4, <2>2 DEF Origin, DetailsOf
    <3>2. payment[t] # NULL
      BY <3>1, OpType, TxnsAssumption DEF Accepted
    <3> QED BY <1>2, <2>2, <3>1, <3>2 DEF AddressInv
  <2>3. \/ pc'[a] = pc[a] /\ op'[a] = op[a]
        \/ \E o \in Op : op'[a] = o /\ Origin(a, "settling", o)
    <3>1. pc \in [Actors -> Label] /\ op \in [Actors -> Op]
      BY DEF ServiceInv, ServiceTypeOK, Label, Op
    <3>2. CASE UNCHANGED <<pc, op>>
      BY <3>2
    <3>3. ASSUME NEW b \in Actors, Step(b)
          PROVE \/ pc'[a] = pc[a] /\ op'[a] = op[a]
                \/ \E o \in Op : op'[a] = o /\ Origin(a, "settling", o)
      BY <1>4, <3>1, <3>3 DEF Step
    <3> QED BY <1>0, <3>2, <3>3, ActorMoves
  <2> QED BY <2>1, <2>2, <2>3
<1>5. ASSUME NEW t \in Txns, payment'[t] # NULL, delivery'[t] # 0
      PROVE delivery'[t] <= HashOf(t)'
  <2>1. payment[t] # NULL
    BY <1>0, <1>5, AcceptedContents
  <2>2. CASE delivery'[t] = delivery[t]
    <3>1. delivery[t] <= HashOf(t)
      BY <1>5, <2>1, <2>2 DEF AddressInv, ShippedAsSubmitted, HashOf, Accepted
    <3> QED BY <1>2, <2>1, <2>2, <3>1
  <2>3. ASSUME NEW a \in Actors, At(a, "settling"), op[a].txn = t,
               delivery'[t] = op[a].destination
        PROVE delivery'[t] <= HashOf(t)'
    <3>1. op[a].destination <= HashOf(t)
      BY <2>3 DEF AddressInv, At
    <3> QED BY <1>2, <2>1, <2>3, <3>1
  <2> QED BY <2>2, <2>3, DeliveryWrites
<1>6. ShippedAsSubmitted'
  BY <1>5 DEF ShippedAsSubmitted, HashOf, Accepted
<1> QED BY <1>1, <1>3, <1>4, <1>6 DEF AddressInv

\* Nothing is accepted or delivered at first.
LEMMA AddressInit == Init => AddressInv
<1> SUFFICES ASSUME Init PROVE AddressInv
  OBVIOUS
<1>1. DetailsBounded
  BY DEF Init, StoreInit, ReadyDraft, DetailsBounded
<1>2. \A t \in Txns : payment[t] = NULL
  BY DEF Init, StoreInit
<1>3. \A a \in Actors : pc[a] = "idle"
  BY DEF Init
<1> QED BY <1>1, <1>2, <1>3 DEF AddressInv, ShippedAsSubmitted, Accepted

\* A parcel is addressed with details no newer than the version the buyer
\* submitted, however an edit from another tab interleaves with the acceptance and
\* with the settlement.
THEOREM AddressCorrect == Spec => []ShippedAsSubmitted
<1>1. AddressInv => ShippedAsSubmitted
  BY DEF AddressInv
<1>2. StoreInv /\ StoreInv' /\ ServiceInv /\ ServiceInv' /\ AddressInv /\ [Next]_vars
        => AddressInv'
  BY AddressStep
<1> QED BY <1>1, <1>2, AllAlways, AddressInit, PTL DEF Spec

-----------------------------------------------------------------------------
(* The money: who may send, what was never sent, what the provider has said *)

\* Invocation p holds the dispatch of payment t and is about to POST it.
Sender(p, t) == pc[p] = "create" /\ op[p].txn = t

Unsent(t) == posts[t] = 0 /\ \A p \in Txns : ~Sender(p, t)

\* Not sent, and nobody can claim its dispatch any more.
Unsendable(t) == payment[t] # NULL /\ payment[t].dispatchPhase # "NOT_SENT" /\ Unsent(t)

\* Status is an outcome of payment t's charge: the provider has decided it, or
\* there is no charge and there never will be one.
Given(t, status) ==
    /\ status = "APPROVED" => charge[t] \in {"APPROVED", "REVERSED"}
    /\ status = "DECLINED" => charge[t] = "DECLINED"
    /\ status = "VOIDED"   => charge[t] \in {"VOIDED", "REVERSED"}
    /\ status = "ERROR"    => charge[t] \in {"ERROR", "REJECTED"} \/ Unsendable(t)

SendersAlone ==
    \A p, t \in Txns :
        Sender(p, t) => /\ posts[t] = 0
                        /\ payment[t].dispatchPhase # "NOT_SENT"
                        /\ \A q \in Txns : Sender(q, t) => q = p

PostsCounted ==
    \A t \in Txns :
        /\ posts[t] \in {0, 1}
        /\ posts[t] = 0 <=> charge[t] = "NONE"
        /\ payment[t] = NULL => posts[t] = 0

\* What the PAYMENT rows say is true of the provider ...
RowsInv ==
    \A t \in Accepted :
        /\ payment[t].dispatchPhase = "NOT_SENT" => Unsent(t)
        /\ payment[t].dispatchPhase = "NOT_SENT_FAILED" => Unsendable(t)
        /\ payment[t].recoveryCode = "PROVIDER_NOT_SENT" => Unsendable(t)
        /\ Given(t, payment[t].paymentStatus)

\* ... and so is what the actors carry, and what the worker has claimed.
OpsInv ==
    \A a \in Actors, t \in Txns :
        op[a].txn = t =>
            /\ op[a].recovery = "PROVIDER_NOT_SENT" => Unsendable(t)
            /\ Given(t, op[a].status)

ClaimsInv ==
    \A t \in Txns :
        claimed[t] # NULL /\ claimed[t].dispatchPhase = "NOT_SENT_FAILED" => Unsendable(t)

MoneyInv == SendersAlone /\ PostsCounted /\ RowsInv /\ OpsInv /\ ClaimsInv

\* What a step makes of the row of an accepted payment: the phase never goes
\* back to NOT_SENT, and an outcome is one an actor carried to its write.
RowMoves(t) ==
    /\ payment'[t].dispatchPhase = "NOT_SENT" => payment[t].dispatchPhase = "NOT_SENT"
    /\ payment'[t].dispatchPhase = "NOT_SENT_FAILED" =>
          \/ payment[t].dispatchPhase \in {"NOT_SENT", "NOT_SENT_FAILED"}
          \/ \E a \in Actors : op[a].txn = t /\ op[a].recovery = "PROVIDER_NOT_SENT"
    /\ payment'[t].recoveryCode = "PROVIDER_NOT_SENT" =>
          \/ payment[t].recoveryCode = "PROVIDER_NOT_SENT"
          \/ \E a \in Actors : op[a].txn = t /\ op[a].recovery = "PROVIDER_NOT_SENT"
    /\ \/ payment'[t].paymentStatus = payment[t].paymentStatus
       \/ \E a \in Actors : op[a].txn = t /\ op[a].status = payment'[t].paymentStatus

\* Every write of an accepted payment's row, one by one.
LEMMA WritesMoveRows ==
    ASSUME TypeInv, ServiceInv, ServiceWrite, NEW t \in Txns, payment[t] # NULL
    PROVE  RowMoves(t)
<1>0. payment \in [Txns -> Payment \cup {NULL}] /\ payment[t] \in Payment
  BY DEF TypeInv, TypeOK
<1>1. ASSUME payment'[t] = payment[t] PROVE RowMoves(t)
  BY <1>1 DEF RowMoves
<1>2. ASSUME NEW p \in Txns, NEW row, payment[p] = NULL,
             payment' = [payment EXCEPT ![p] = row]
      PROVE RowMoves(t)
  BY <1>0, <1>1, <1>2
<1>3. ASSUME NEW p \in Txns, At(p, "claiming"), ClaimDispatchWrite(op[p].txn)
      PROVE RowMoves(t)
  <2>1. CASE op[p].txn = t
    <3>1. payment'[t] = [payment[t] EXCEPT !.dispatchPhase = "SENDING", !.due = FALSE]
      BY <1>0, <1>3, <2>1 DEF ClaimDispatchWrite
    <3> QED BY <1>0, <3>1 DEF Payment, RowMoves
  <2>2. CASE op[p].txn # t
    BY <1>0, <1>1, <1>3, <2>2 DEF ClaimDispatchWrite
  <2> QED BY <2>1, <2>2
<1>4. ASSUME NEW a \in Actors, AcknowledgeProviderWrite(op[a].txn, op[a].txn, op[a].status)
      PROVE RowMoves(t)
  <2>1. CASE op[a].txn = t
    <3>1. payment'[t] = [payment[t] EXCEPT !.providerId = t, !.providerStatus = op[a].status,
                                           !.dispatchPhase = "ACKNOWLEDGED", !.due = FALSE]
      BY <1>0, <1>4, <2>1 DEF AcknowledgeProviderWrite
    <3> QED BY <1>0, <3>1 DEF Payment, RowMoves
  <2>2. CASE op[a].txn # t
    BY <1>0, <1>1, <1>4, <2>2 DEF AcknowledgeProviderWrite
  <2> QED BY <2>1, <2>2
<1>5. ASSUME NEW a \in Actors, MarkUnknownWrite(op[a].txn) PROVE RowMoves(t)
  <2>1. CASE op[a].txn = t
    <3>1. payment'[t] = [payment[t] EXCEPT !.dispatchPhase = "UNKNOWN",
                            !.recoveryCode = "PROVIDER_OUTCOME_UNKNOWN", !.due = FALSE]
      BY <1>0, <1>5, <2>1 DEF MarkUnknownWrite
    <3> QED BY <1>0, <3>1 DEF Payment, RowMoves
  <2>2. CASE op[a].txn # t
    BY <1>0, <1>1, <1>5, <2>2 DEF MarkUnknownWrite
  <2> QED BY <2>1, <2>2
<1>6. ASSUME NEW a \in Actors, At(a, "settling"), SettleWrite(a) PROVE RowMoves(t)
  <2>1. CASE op[a].txn # t
    BY <1>0, <1>1, <1>6, <2>1 DEF SettleWrite, FinalizeApprovedWrite, FinalizeFailureWrite
  <2>2. CASE op[a].txn = t /\ op[a].status = "APPROVED"
    <3>1. payment'[t] =
            [payment[t] EXCEPT !.paymentStatus = "APPROVED", !.providerStatus = "APPROVED",
               !.dispatchPhase = "ACKNOWLEDGED", !.reservationStatus = "CONSUMED",
               !.integrityStatus = "OK", !.effectsApplied = TRUE,
               !.hasDelivery = TRUE, !.recoveryCode = "none", !.due = FALSE]
      BY <1>0, <1>6, <2>2 DEF SettleWrite, FinalizeApprovedWrite
    <3> QED BY <1>0, <2>2, <3>1 DEF Payment, RowMoves
  <2>3. CASE op[a].txn = t /\ op[a].status # "APPROVED"
    <3> DEFINE phase == IF op[a].recovery = "PROVIDER_NOT_SENT"
                        THEN "NOT_SENT_FAILED" ELSE "ACKNOWLEDGED"
               status == op[a].status
               providerStatus == ProviderStatusOf(op[a])
               recovery == op[a].recovery
    <3>1. payment'[t] =
            [payment[t] EXCEPT !.paymentStatus = status, !.providerStatus = providerStatus,
               !.dispatchPhase = phase, !.reservationStatus = "RELEASED",
               !.integrityStatus = "OK", !.effectsApplied = TRUE,
               !.recoveryCode = recovery, !.due = FALSE]
      BY <1>0, <1>6, <2>3 DEF SettleWrite, FinalizeFailureWrite
    <3> HIDE DEF phase, status, providerStatus, recovery
    <3>2. /\ payment'[t].paymentStatus = status /\ payment'[t].dispatchPhase = phase
          /\ payment'[t].recoveryCode = recovery
      BY <1>0, <3>1 DEF Payment
    <3> QED BY <2>3, <3>2 DEF RowMoves, phase, status, recovery
  <2> QED BY <2>1, <2>2, <2>3
<1>7. ASSUME NEW a \in Actors,
             RecordFinalConflictWrite(op[a].txn, op[a].seen.paymentStatus)
      PROVE RowMoves(t)
  <2>1. CASE op[a].txn = t
    <3>1. payment'[t] = [payment[t] EXCEPT !.integrityStatus = "FINAL_STATE_CONFLICT",
                                           !.recoveryCode = "STATE_TRANSITION_CONFLICT"]
      BY <1>0, <1>7, <2>1 DEF RecordFinalConflictWrite
    <3> QED BY <1>0, <3>1 DEF Payment, RowMoves
  <2>2. CASE op[a].txn # t
    BY <1>0, <1>1, <1>7, <2>2 DEF RecordFinalConflictWrite
  <2> QED BY <2>1, <2>2
<1>8. ASSUME NEW a \in Actors, At(a, "escalate"),
             RecordApprovedInventoryConflictWrite(op[a].txn)
      PROVE RowMoves(t)
  <2>1. CASE op[a].txn = t
    <3>1. payment'[t] =
            [payment[t] EXCEPT !.paymentStatus = "APPROVED", !.providerStatus = "APPROVED",
               !.dispatchPhase = "ACKNOWLEDGED",
               !.integrityStatus = "APPROVED_INVENTORY_CONFLICT",
               !.recoveryCode = "STATE_TRANSITION_CONFLICT", !.due = FALSE]
      BY <1>0, <1>8, <2>1 DEF RecordApprovedInventoryConflictWrite
    <3>2. op[a].status = "APPROVED"
      BY <1>8, OpType DEF At, Carries
    <3> QED BY <1>0, <2>1, <3>1, <3>2 DEF Payment, RowMoves
  <2>2. CASE op[a].txn # t
    BY <1>0, <1>1, <1>8, <2>2 DEF RecordApprovedInventoryConflictWrite
  <2> QED BY <2>1, <2>2
<1>9. ASSUME ClaimDueWrite(op[Worker].txn, op[Worker].seen.dispatchPhase) PROVE RowMoves(t)
  <2>1. CASE op[Worker].txn = t
    <3>1. payment'[t] = [payment[t] EXCEPT !.dispatchPhase = ClaimedPhase(@), !.due = FALSE]
      BY <1>0, <1>9, <2>1 DEF ClaimDueWrite
    <3> QED BY <1>0, <3>1 DEF Payment, RowMoves, ClaimedPhase
  <2>2. CASE op[Worker].txn # t
    BY <1>0, <1>1, <1>9, <2>2 DEF ClaimDueWrite
  <2> QED BY <2>1, <2>2
<1>10. ASSUME NEW u \in Txns, BecomesDue(u) PROVE RowMoves(t)
  <2>1. CASE u = t
    <3>1. payment'[t] = [payment[t] EXCEPT !.due = TRUE]
      BY <1>0, <1>10, <2>1 DEF BecomesDue
    <3> QED BY <1>0, <3>1 DEF Payment, RowMoves
  <2>2. CASE u # t
    BY <1>0, <1>1, <1>10, <2>2 DEF BecomesDue
  <2> QED BY <2>1, <2>2
<1>11. ASSUME NEW c \in Checkouts,
              ReplaceDeliveryDetailsWrite(c, checkout[c].version, checkout[c].customer # 0)
       PROVE RowMoves(t)
  BY <1>1, <1>11 DEF ReplaceDeliveryDetailsWrite
<1>12. ASSUME NEW p \in Txns,
              PreparePaymentWrite(req[p].checkoutId, req[p].key, p, req[p].expectedVersion)
       PROVE RowMoves(t)
  BY <1>2, <1>12 DEF PreparePaymentWrite
<1> QED BY <1>3, <1>4, <1>5, <1>6, <1>7, <1>8, <1>9, <1>10, <1>11, <1>12
        DEF ServiceWrite, Actors

\* So every step moves it, if at all.
LEMMA RowsMove ==
    ASSUME StoreInv, ServiceInv, [Next]_vars, NEW t \in Txns, payment[t] # NULL
    PROVE  RowMoves(t)
<1>1. TypeInv
  BY DEF StoreInv
<1>2. CASE UNCHANGED storeVars
  BY <1>2 DEF storeVars, RowMoves
<1>3. CASE ServiceWrite
  BY <1>1, <1>3, WritesMoveRows
<1> QED BY <1>2, <1>3, OnlyServiceWrites

\* At most one actor moves in a step.
LEMMA OneMoves ==
    ASSUME StoreInv, StoreInv', ServiceInv, [Next]_vars
    PROVE  \/ UNCHANGED <<pc, op>>
           \/ \E a \in Actors, label \in Label, o \in Op :
                 /\ pc'[a] = label /\ op'[a] = o /\ Origin(a, label, o)
                 /\ \A b \in Actors \ {a} : pc'[b] = pc[b] /\ op'[b] = op[b]
<1>1. pc \in [Actors -> Label] /\ op \in [Actors -> Op]
  BY DEF ServiceInv, ServiceTypeOK, Label, Op
<1>2. TypeInv /\ TypeInv' /\ Links
  BY DEF StoreInv
<1>3. PaymentsStay
  BY <1>2, ServiceStepIsStores, ServicePaymentsStay
<1>4. CASE UNCHANGED <<pc, op>>
  BY <1>4
<1>5. ASSUME NEW a \in Actors, NEW label \in Label, NEW o \in Op,
             pc' = [pc EXCEPT ![a] = label], op' = [op EXCEPT ![a] = o], Origin(a, label, o)
      PROVE /\ pc'[a] = label /\ op'[a] = o /\ Origin(a, label, o)
            /\ \A b \in Actors \ {a} : pc'[b] = pc[b] /\ op'[b] = op[b]
  BY <1>1, <1>5
<1> QED BY <1>2, <1>3, <1>4, <1>5, ActorMoves DEF Step

\* An invocation becomes the sender of a payment only by claiming its dispatch,
\* and no two become so in one step.
LEMMA NewSender ==
    ASSUME StoreInv, StoreInv', ServiceInv, [Next]_vars,
           NEW p \in Txns, NEW t \in Txns, Sender(p, t)', ~Sender(p, t)
    PROVE  /\ ClaimDispatchWrite(t)
           /\ \A q \in Txns : Sender(q, t)' => Sender(q, t) \/ q = p
<1>0. \A q \in Txns : q \in Actors
  BY DEF Actors
<1>1. ~UNCHANGED <<pc, op>>
  BY DEF Sender
<1>2. PICK a \in Actors, label \in Label, o \in Op :
          /\ pc'[a] = label /\ op'[a] = o /\ Origin(a, label, o)
          /\ \A b \in Actors \ {a} : pc'[b] = pc[b] /\ op'[b] = op[b]
  BY <1>1, OneMoves
<1>3. a = p
  BY <1>0, <1>2 DEF Sender
<1>4. label = "create" /\ o.txn = t
  BY <1>2, <1>3 DEF Sender
<1>5. ClaimDispatchWrite(t)
  BY <1>2, <1>4 DEF Origin
<1>6. \A q \in Txns : Sender(q, t)' => Sender(q, t) \/ q = p
  BY <1>0, <1>2, <1>3 DEF Sender
<1> QED BY <1>5, <1>6

\* Only its sender POSTs a payment, and has done with it.
LEMMA PostsMove ==
    ASSUME ServiceInv, [Next]_vars, NEW t \in Txns
    PROVE  \/ posts'[t] = posts[t]
           \/ \E p \in Txns :
                 /\ Sender(p, t) /\ ~Sender(p, t)' /\ op'[p] = op[p]
                 /\ posts'[t] = posts[t] + 1
                 /\ charge'[t] = IF charge[t] = "NONE" THEN "INFLIGHT" ELSE charge[t]
<1>0. /\ charge \in [Txns -> ChargeStatus] /\ posts \in [Txns -> 0 .. 2]
      /\ pc \in [Actors -> Label] /\ op \in [Actors -> Op]
  BY DEF ServiceInv, ServiceTypeOK, Label, Op
<1>1. CASE UNCHANGED providerVars
  BY <1>1 DEF providerVars
<1>2. ASSUME NEW u \in Txns, ReceivePost(u) \/ DecideCharge(u) PROVE posts'[t] = posts[t]
  BY <1>2 DEF ReceivePost, DecideCharge
<1>3. ASSUME NEW p \in Txns, Post(p)
      PROVE \/ posts'[t] = posts[t]
            \/ /\ Sender(p, t) /\ ~Sender(p, t)' /\ op'[p] = op[p]
               /\ posts'[t] = posts[t] + 1
               /\ charge'[t] = IF charge[t] = "NONE" THEN "INFLIGHT" ELSE charge[t]
  <2>1. CASE op[p].txn = t
    <3>1. Sender(p, t) /\ p \in Actors
      BY <1>3, <2>1 DEF Post, At, Sender, Actors
    <3>2. pc' = [pc EXCEPT ![p] = "posted"] /\ op' = [op EXCEPT ![p] = op[p]]
      BY <1>3 DEF Post, Continue, Goto
    <3>3. ~Sender(p, t)' /\ op'[p] = op[p]
      BY <1>0, <3>1, <3>2 DEF Sender
    <3>4. /\ posts'[t] = posts[t] + 1
          /\ charge'[t] = IF charge[t] = "NONE" THEN "INFLIGHT" ELSE charge[t]
      BY <1>0, <1>3, <2>1 DEF Post
    <3> QED BY <3>1, <3>3, <3>4
  <2>2. CASE op[p].txn # t
    BY <1>0, <1>3, <2>2 DEF Post
  <2> QED BY <2>1, <2>2
<1> QED BY <1>1, <1>2, <1>3, ProviderSteps

\* A charge only moves forward.
LEMMA ChargeMoves ==
    ASSUME ServiceInv, [Next]_vars, NEW t \in Txns
    PROVE  \/ charge'[t] = charge[t]
           \/ /\ charge[t] = "NONE" /\ charge'[t] = "INFLIGHT"
              /\ \E p \in Txns : Sender(p, t) /\ posts'[t] = posts[t] + 1
           \/ /\ charge[t] \in {"INFLIGHT", "PENDING"} /\ charge'[t] # "NONE"
              /\ posts'[t] = posts[t]
           \/ /\ charge[t] = "APPROVED" /\ charge'[t] = "REVERSED" /\ posts'[t] = posts[t]
<1>0. charge \in [Txns -> ChargeStatus] /\ posts \in [Txns -> 0 .. 2]
  BY DEF ServiceInv, ServiceTypeOK
<1>1. CASE UNCHANGED providerVars
  BY <1>1 DEF providerVars
<1>2. ASSUME NEW u \in Txns, ReceivePost(u) \/ DecideCharge(u), charge'[t] # charge[t]
      PROVE \/ charge[t] \in {"INFLIGHT", "PENDING"} /\ charge'[t] # "NONE"
               /\ posts'[t] = posts[t]
            \/ charge[t] = "APPROVED" /\ charge'[t] = "REVERSED" /\ posts'[t] = posts[t]
  <2>1. posts' = posts
    BY <1>2 DEF ReceivePost, DecideCharge
  <2>2. CASE ReceivePost(u)
    BY <1>0, <1>2, <2>1, <2>2 DEF ReceivePost
  <2>3. CASE DecideCharge(u)
    <3>1. "NONE" \notin ProviderOutcomes
      BY OutcomesAssumption DEF FinalStatus, PaymentStatus
    <3> QED BY <1>0, <1>2, <2>1, <2>3, <3>1 DEF DecideCharge
  <2> QED BY <1>2, <2>2, <2>3
<1>3. ASSUME NEW p \in Txns, Post(p), charge'[t] # charge[t]
      PROVE /\ charge[t] = "NONE" /\ charge'[t] = "INFLIGHT"
            /\ Sender(p, t) /\ posts'[t] = posts[t] + 1
  <2>1. op[p].txn = t
    BY <1>0, <1>3 DEF Post
  <2>2. Sender(p, t)
    BY <1>3, <2>1 DEF Post, At, Sender
  <2> QED BY <1>0, <1>3, <2>1, <2>2 DEF Post
<1> QED BY <1>1, <1>2, <1>3, ProviderSteps

\* What was never sent, and cannot be claimed, never will be.
LEMMA UnsendableStays ==
    ASSUME StoreInv, StoreInv', ServiceInv, [Next]_vars, NEW t \in Txns, Unsendable(t)
    PROVE  Unsendable(t)'
<1>1. payment'[t] # NULL
  <2>1. TypeInv /\ TypeInv' /\ Links
    BY DEF StoreInv
  <2>2. PaymentsStay
    BY <2>1, ServiceStepIsStores, ServicePaymentsStay
  <2> QED BY <2>2 DEF PaymentsStay, Unsendable
<1>2. payment'[t].dispatchPhase # "NOT_SENT"
  BY RowsMove DEF Unsendable, RowMoves
<1>3. posts'[t] = 0
  BY PostsMove DEF Unsendable, Unsent
<1>4. \A p \in Txns : ~Sender(p, t)'
  BY NewSender DEF Unsendable, Unsent, ClaimDispatchWrite
<1> QED BY <1>1, <1>2, <1>3, <1>4 DEF Unsendable, Unsent

\* An outcome once given stands.
LEMMA GivenStays ==
    ASSUME StoreInv, StoreInv', ServiceInv, [Next]_vars,
           NEW t \in Txns, NEW status, Given(t, status)
    PROVE  Given(t, status)'
  BY UnsendableStays, ChargeMoves DEF Given

\* Whoever could send a payment is alone with it.
LEMMA SendersStep ==
    ASSUME StoreInv, StoreInv', ServiceInv, MoneyInv, [Next]_vars
    PROVE  SendersAlone'
<1> SUFFICES ASSUME NEW p \in Txns, NEW t \in Txns, Sender(p, t)'
             PROVE /\ posts'[t] = 0
                   /\ payment'[t].dispatchPhase # "NOT_SENT"
                   /\ \A q \in Txns : Sender(q, t)' => q = p
  BY DEF SendersAlone
<1>1. CASE Sender(p, t)
  <2>1. /\ posts[t] = 0 /\ payment[t].dispatchPhase # "NOT_SENT"
        /\ \A q \in Txns : Sender(q, t) => q = p
    BY <1>1 DEF MoneyInv, SendersAlone
  <2>2. payment[t] # NULL
    BY <1>1, TxnsAssumption DEF Sender, ServiceInv, OpsNamePayments, Actors
  <2>3. posts'[t] = 0
    BY <2>1, PostsMove
  <2>4. payment'[t].dispatchPhase # "NOT_SENT"
    BY <2>1, <2>2, RowsMove DEF RowMoves
  <2>5. \A q \in Txns : Sender(q, t)' => q = p
    BY <2>1, NewSender DEF ClaimDispatchWrite
  <2> QED BY <2>3, <2>4, <2>5
<1>2. CASE ~Sender(p, t)
  <2>1. /\ ClaimDispatchWrite(t)
        /\ \A q \in Txns : Sender(q, t)' => Sender(q, t) \/ q = p
    BY <1>2, NewSender
  <2>2. payment[t] \in Payment /\ payment[t] # NULL
    BY <2>1 DEF ClaimDispatchWrite, IsPending, StoreInv, TypeInv, TypeOK
  <2>3. Unsent(t)
    BY <2>1, <2>2 DEF ClaimDispatchWrite, MoneyInv, RowsInv, Accepted
  <2>4. posts'[t] = 0
    BY <2>3, PostsMove DEF Unsent
  <2>5. payment'[t].dispatchPhase # "NOT_SENT"
    <3>1. payment'[t] = [payment[t] EXCEPT !.dispatchPhase = "SENDING", !.due = FALSE]
      BY <2>1 DEF ClaimDispatchWrite, StoreInv, TypeInv, TypeOK
    <3> QED BY <2>2, <3>1 DEF Payment
  <2> QED BY <2>1, <2>3, <2>4, <2>5 DEF Unsent
<1> QED BY <1>1, <1>2

\* A charge exists as soon as its payment was POSTed, and only then.
LEMMA PostsStep ==
    ASSUME StoreInv, StoreInv', ServiceInv, MoneyInv, [Next]_vars
    PROVE  PostsCounted'
<1> SUFFICES ASSUME NEW t \in Txns
             PROVE /\ posts'[t] \in {0, 1}
                   /\ posts'[t] = 0 <=> charge'[t] = "NONE"
                   /\ payment'[t] = NULL => posts'[t] = 0
  BY DEF PostsCounted
<1>1. /\ posts[t] \in {0, 1}
      /\ posts[t] = 0 <=> charge[t] = "NONE"
      /\ payment[t] = NULL => posts[t] = 0
  BY DEF MoneyInv, PostsCounted
<1>2. ASSUME NEW p \in Txns, Sender(p, t) PROVE posts[t] = 0 /\ payment[t] # NULL
  BY <1>2, TxnsAssumption
  DEF MoneyInv, SendersAlone, Sender, ServiceInv, OpsNamePayments, Actors
<1>3. payment[t] # NULL => payment'[t] # NULL
  <2>1. TypeInv /\ TypeInv' /\ Links
    BY DEF StoreInv
  <2>2. PaymentsStay
    BY <2>1, ServiceStepIsStores, ServicePaymentsStay
  <2> QED BY <2>2 DEF PaymentsStay
<1>4. posts'[t] \in {0, 1} /\ (payment'[t] = NULL => posts'[t] = 0)
  BY <1>1, <1>2, <1>3, PostsMove
<1>5. posts'[t] = 0 <=> charge'[t] = "NONE"
  BY <1>1, <1>2, PostsMove, ChargeMoves
<1> QED BY <1>4, <1>5

\* An accepted payment is new, and unsent.
LEMMA AcceptedUnsent ==
    ASSUME StoreInv, StoreInv', ServiceInv, MoneyInv, [Next]_vars,
           NEW t \in Txns, payment[t] = NULL, payment'[t] # NULL
    PROVE  /\ payment'[t].dispatchPhase = "NOT_SENT" /\ payment'[t].recoveryCode = "none"
           /\ payment'[t].paymentStatus = "PENDING"
           /\ Unsent(t)'
<1>0. payment \in [Txns -> Payment \cup {NULL}]
  BY DEF StoreInv, TypeInv, TypeOK
<1>1. \A p \in Txns : ~Sender(p, t)
  BY TxnsAssumption DEF Sender, ServiceInv, OpsNamePayments, Actors
<1>2. \A p \in Txns : ~Sender(p, t)'
  BY <1>1, NewSender DEF ClaimDispatchWrite, IsPending
<1>3. posts'[t] = 0
  BY <1>1, PostsMove DEF MoneyInv, PostsCounted
<1>4. PICK p \in Txns :
         PreparePaymentWrite(req[p].checkoutId, req[p].key, p, req[p].expectedVersion)
  <2>1. ASSUME UNCHANGED storeVars PROVE FALSE
    BY <2>1 DEF storeVars
  <2>2. ASSUME NEW u, NEW row, payment[u] # NULL, payment' = [payment EXCEPT ![u] = row]
        PROVE FALSE
    BY <1>0, <2>2
  <2>3. ASSUME UNCHANGED payment PROVE FALSE
    BY <2>3
  <2>4. ASSUME NEW a \in Actors, SettleWrite(a) PROVE FALSE
    <3>1. payment[op[a].txn] # NULL
      BY <2>4 DEF SettleWrite, FinalizeApprovedWrite, FinalizeFailureWrite,
                  FinalPaymentCondition, IsPending
    <3> QED BY <2>2, <2>4, <3>1 DEF SettleWrite, FinalizeApprovedWrite, FinalizeFailureWrite
  <2>5. ASSUME NEW u, \/ ClaimDispatchWrite(u) \/ MarkUnknownWrite(u) \/ BecomesDue(u)
                      \/ RecordApprovedInventoryConflictWrite(u)
        PROVE FALSE
    BY <2>2, <2>5 DEF ClaimDispatchWrite, MarkUnknownWrite, BecomesDue,
                      RecordApprovedInventoryConflictWrite, IsPending
  <2>6. ASSUME NEW u, NEW x, \/ AcknowledgeProviderWrite(u, u, x)
                             \/ RecordFinalConflictWrite(u, x) \/ ClaimDueWrite(u, x)
        PROVE FALSE
    BY <2>2, <2>6 DEF AcknowledgeProviderWrite, RecordFinalConflictWrite, ClaimDueWrite,
                      IsPending
  <2>7. ASSUME NEW c \in Checkouts,
               ReplaceDeliveryDetailsWrite(c, checkout[c].version, checkout[c].customer # 0)
        PROVE FALSE
    BY <2>3, <2>7 DEF ReplaceDeliveryDetailsWrite
  <2>8. ServiceWrite
    BY <2>1, OnlyServiceWrites
  <2> QED BY <2>4, <2>5, <2>6, <2>7, <2>8 DEF ServiceWrite
<1>5. p = t
  BY <1>0, <1>4 DEF PreparePaymentWrite
<1>6. /\ payment'[t].dispatchPhase = "NOT_SENT" /\ payment'[t].recoveryCode = "none"
      /\ payment'[t].paymentStatus = "PENDING"
  BY <1>0, <1>4, <1>5 DEF PreparePaymentWrite
<1> QED BY <1>2, <1>3, <1>6 DEF Unsent

\* The rows keep telling the truth about the provider.
LEMMA RowsStep ==
    ASSUME StoreInv, StoreInv', ServiceInv, MoneyInv, [Next]_vars
    PROVE  RowsInv'
<1> SUFFICES ASSUME NEW t \in Txns, payment'[t] # NULL
             PROVE /\ payment'[t].dispatchPhase = "NOT_SENT" => Unsent(t)'
                   /\ payment'[t].dispatchPhase = "NOT_SENT_FAILED" => Unsendable(t)'
                   /\ payment'[t].recoveryCode = "PROVIDER_NOT_SENT" => Unsendable(t)'
                   /\ Given(t, payment[t].paymentStatus)'
  BY DEF RowsInv, Accepted
<1>1. CASE payment[t] = NULL
  BY <1>1, AcceptedUnsent DEF Given
<1>2. CASE payment[t] # NULL
  <2>1. /\ payment[t].dispatchPhase = "NOT_SENT" => Unsent(t)
        /\ payment[t].dispatchPhase = "NOT_SENT_FAILED" => Unsendable(t)
        /\ payment[t].recoveryCode = "PROVIDER_NOT_SENT" => Unsendable(t)
        /\ Given(t, payment[t].paymentStatus)
    BY <1>2 DEF MoneyInv, RowsInv, Accepted
  <2>2. RowMoves(t)
    BY <1>2, RowsMove
  <2>3. ASSUME NEW a \in Actors, op[a].txn = t
        PROVE /\ op[a].recovery = "PROVIDER_NOT_SENT" => Unsendable(t)
              /\ Given(t, op[a].status)
    BY <2>3 DEF MoneyInv, OpsInv
  <2>4. ASSUME Unsent(t), payment'[t].dispatchPhase \in {"NOT_SENT", "NOT_SENT_FAILED"}
        PROVE Unsent(t)'
    <3>1. ~ClaimDispatchWrite(t)
      <4>1. ASSUME ClaimDispatchWrite(t) PROVE payment'[t].dispatchPhase = "SENDING"
        <5>1. payment[t] \in Payment
          BY <1>2 DEF StoreInv, TypeInv, TypeOK
        <5>2. payment'[t] = [payment[t] EXCEPT !.dispatchPhase = "SENDING", !.due = FALSE]
          BY <4>1 DEF ClaimDispatchWrite, StoreInv, TypeInv, TypeOK
        <5> QED BY <5>1, <5>2 DEF Payment
      <4> QED BY <2>4, <4>1
    <3>2. \A p \in Txns : ~Sender(p, t)'
      BY <2>4, <3>1, NewSender DEF Unsent
    <3>3. posts'[t] = 0
      BY <2>4, PostsMove DEF Unsent
    <3> QED BY <3>2, <3>3 DEF Unsent
  <2>5. payment'[t].dispatchPhase = "NOT_SENT" => Unsent(t)'
    BY <2>1, <2>2, <2>4 DEF RowMoves
  <2>6. payment'[t].dispatchPhase = "NOT_SENT_FAILED" => Unsendable(t)'
    <3>1. ASSUME payment'[t].dispatchPhase = "NOT_SENT_FAILED" PROVE Unsendable(t)'
      <4>1. CASE Unsendable(t)
        BY <4>1, UnsendableStays
      <4>2. CASE payment[t].dispatchPhase = "NOT_SENT"
        BY <2>1, <2>4, <3>1, <4>2 DEF Unsendable
      <4> QED BY <2>1, <2>2, <2>3, <3>1, <4>1, <4>2 DEF RowMoves
    <3> QED BY <3>1
  <2>7. payment'[t].recoveryCode = "PROVIDER_NOT_SENT" => Unsendable(t)'
    BY <2>1, <2>2, <2>3, UnsendableStays DEF RowMoves
  <2>8. Given(t, payment'[t].paymentStatus)
    BY <2>1, <2>2, <2>3 DEF RowMoves
  <2>9. ASSUME NEW status, Given(t, status) PROVE Given(t, status)'
    BY <2>9, GivenStays
  <2>10. Given(t, payment[t].paymentStatus)'
    <3>1. PICK s : s = payment'[t].paymentStatus
      OBVIOUS
    <3>2. Given(t, s)'
      BY <2>8, <2>9, <3>1
    <3> QED BY <3>1, <3>2 DEF Given
  <2> QED BY <2>5, <2>6, <2>7, <2>10
<1> QED BY <1>1, <1>2

\* What the provider answers about a payment is an outcome of its charge.
LEMMA AnswersGiven ==
    ASSUME ServiceInv, NEW t \in Txns, NEW status, ProviderAnswers(t, status)
    PROVE  Given(t, status)
<1>1. charge[t] \in ChargeStatus
  BY DEF ServiceInv, ServiceTypeOK
<1>2. charge[t] \in {"PENDING", "APPROVED", "DECLINED", "VOIDED", "ERROR", "REVERSED"}
  BY <1>1 DEF ProviderAnswers, ChargeStatus, FinalStatus, PaymentStatus
<1> QED BY <1>2 DEF ProviderAnswers, Reported, Given

\* What an actor comes to believe of the provider is true.
LEMMA OpsStep ==
    ASSUME StoreInv, StoreInv', ServiceInv, MoneyInv, [Next]_vars
    PROVE  OpsInv'
<1> SUFFICES ASSUME NEW a \in Actors, NEW t \in Txns, op'[a].txn = t
             PROVE /\ op'[a].recovery = "PROVIDER_NOT_SENT" => Unsendable(t)'
                   /\ Given(t, op[a].status)'
  BY DEF OpsInv
<1>1. ASSUME NEW status, Given(t, status) PROVE Given(t, status)'
  BY <1>1, GivenStays
<1>2. Unsendable(t) => Unsendable(t)'
  BY UnsendableStays
<1>3. ASSUME NEW b \in Actors, op[b].txn = t
      PROVE /\ op[b].recovery = "PROVIDER_NOT_SENT" => Unsendable(t)
            /\ Given(t, op[b].status)
  BY <1>3 DEF MoneyInv, OpsInv
<1>4. ASSUME NEW o, op'[a] = o, o.recovery = "PROVIDER_NOT_SENT" => Unsendable(t)',
             Given(t, o.status)'
      PROVE /\ op'[a].recovery = "PROVIDER_NOT_SENT" => Unsendable(t)'
            /\ Given(t, op[a].status)'
  BY <1>4 DEF Given
<1>5. CASE op'[a] = op[a]
  BY <1>1, <1>2, <1>3, <1>4, <1>5
<1>6. ASSUME NEW label \in Label, NEW o \in Op, pc'[a] = label, op'[a] = o, o.txn = t,
             Learns(a, label, o), op'[a] # op[a]
      PROVE /\ o.recovery = "PROVIDER_NOT_SENT" => Unsendable(t)'
            /\ Given(t, o.status)'
  <2>1. CASE /\ o.txn = op[a].txn /\ o.status = op[a].status
             /\ o.recovery \in {op[a].recovery, "none"}
    BY <1>1, <1>2, <1>3, <1>6, <2>1
  <2>2. CASE o.status = "PENDING" /\ o.recovery = "none"
    BY <2>2 DEF Given
  <2>3. CASE /\ ProviderAnswers(o.txn, o.status)
             /\ o.recovery = "none" \/ (o.txn = op[a].txn /\ o.recovery = op[a].recovery)
    <3>1. Given(t, o.status)'
      BY <1>1, <1>6, <2>3, AnswersGiven
    <3> QED BY <1>2, <1>3, <1>6, <2>3, <3>1
  <2>4. CASE /\ charge[o.txn] = "REJECTED"
             /\ o.status = "ERROR" /\ o.recovery = "PAYMENT_TOKEN_REJECTED"
    <3>1. Given(t, o.status)
      BY <1>6, <2>4 DEF Given
    <3> QED BY <1>1, <2>4, <3>1
  <2>5. ASSUME o.status = "ERROR", Unsendable(t)'
        PROVE /\ o.recovery = "PROVIDER_NOT_SENT" => Unsendable(t)'
              /\ Given(t, o.status)'
    BY <2>5 DEF Given
  <2>6. CASE /\ o.status = "ERROR" /\ o.recovery = "PROVIDER_NOT_SENT"
             /\ a \in Txns /\ At(a, "create") /\ label # "create" /\ o.txn = op[a].txn
    <3>1. Sender(a, t) /\ ~Sender(a, t)'
      BY <1>6, <2>6 DEF At, Sender
    <3>2. /\ posts[t] = 0 /\ payment[t].dispatchPhase # "NOT_SENT"
          /\ \A q \in Txns : Sender(q, t) => q = a
      BY <2>6, <3>1 DEF MoneyInv, SendersAlone
    <3>3. payment[t] # NULL
      BY <3>1, TxnsAssumption DEF Sender, ServiceInv, OpsNamePayments
    <3>4. payment'[t] # NULL
      <4>1. TypeInv /\ TypeInv' /\ Links
        BY DEF StoreInv
      <4>2. PaymentsStay
        BY <4>1, ServiceStepIsStores, ServicePaymentsStay
      <4> QED BY <3>3, <4>2 DEF PaymentsStay
    <3>5. payment'[t].dispatchPhase # "NOT_SENT"
      BY <3>2, <3>3, RowsMove DEF RowMoves
    <3>6. posts'[t] = 0
      BY <1>6, <3>2, PostsMove
    <3>7. \A q \in Txns : ~Sender(q, t)'
      BY <3>1, <3>2, NewSender DEF ClaimDispatchWrite
    <3>8. Unsendable(t)'
      BY <3>4, <3>5, <3>6, <3>7 DEF Unsendable, Unsent
    <3> QED BY <2>5, <2>6, <3>8
  <2>7. CASE /\ o.status = "ERROR" /\ o.recovery = "PROVIDER_NOT_SENT"
             /\ claimed[o.txn] # NULL
             /\ claimed[o.txn].dispatchPhase = "NOT_SENT_FAILED"
    <3>1. Unsendable(t)
      BY <1>6, <2>7 DEF MoneyInv, ClaimsInv
    <3> QED BY <1>2, <2>5, <2>7, <3>1
  <2> QED BY <1>6, <2>1, <2>2, <2>3, <2>4, <2>6, <2>7 DEF Learns
<1>7. \/ op'[a] = op[a]
      \/ \E label \in Label, o \in Op :
            pc'[a] = label /\ op'[a] = o /\ o.txn = t /\ Learns(a, label, o)
  <2>1. ASSUME NEW b \in Actors, NEW label \in Label, NEW o \in Op,
               pc'[b] = label, op'[b] = o, Origin(b, label, o),
               \A c \in Actors \ {b} : pc'[c] = pc[c] /\ op'[c] = op[c]
        PROVE \/ op'[a] = op[a]
              \/ pc'[a] = label /\ op'[a] = o /\ o.txn = t /\ Learns(a, label, o)
    <3>1. CASE a = b
      BY <2>1, <3>1, TxnsAssumption DEF Origin
    <3>2. CASE a # b
      BY <2>1, <3>2
    <3> QED BY <3>1, <3>2
  <2>2. UNCHANGED <<pc, op>> => op'[a] = op[a]
    OBVIOUS
  <2> QED BY <2>1, <2>2, OneMoves
<1> QED BY <1>4, <1>5, <1>6, <1>7

\* What the worker gives up as unsent is.
LEMMA ClaimsStep ==
    ASSUME StoreInv, StoreInv', ServiceInv, MoneyInv, [Next]_vars
    PROVE  ClaimsInv'
<1> SUFFICES ASSUME NEW t \in Txns, claimed'[t] # NULL,
                    claimed'[t].dispatchPhase = "NOT_SENT_FAILED"
             PROVE Unsendable(t)'
  BY DEF ClaimsInv
<1>1. TypeInv /\ TypeInv' /\ Links
  BY DEF StoreInv
<1>2. Books
  BY <1>1, BooksStep
<1>3. CASE claimed'[t] = claimed[t]
  BY <1>3, UnsendableStays DEF MoneyInv, ClaimsInv
<1>4. CASE ClaimsNow(t)
  <2>1. payment[t] # NULL /\ payment'[t].dispatchPhase = "NOT_SENT_FAILED"
    BY <1>4 DEF ClaimsNow
  <2>2. payment'[t] # NULL
    <3>1. PaymentsStay
      BY <1>1, ServiceStepIsStores, ServicePaymentsStay
    <3> QED BY <2>1, <3>1 DEF PaymentsStay
  <2> QED BY <2>1, <2>2, RowsStep DEF RowsInv, Accepted
<1> QED BY <1>2, <1>3, <1>4 DEF Books

\* Nothing is accepted, sent or charged at first.
LEMMA MoneyInit == Init => MoneyInv
<1> SUFFICES ASSUME Init PROVE MoneyInv
  OBVIOUS
<1>1. /\ \A a \in Actors : pc[a] = "idle" /\ op[a].txn = NULL
      /\ \A t \in Txns : payment[t] = NULL /\ posts[t] = 0 /\ charge[t] = "NONE"
                         /\ claimed[t] = NULL
  BY NoOpType DEF Init, StoreInit
<1>2. SendersAlone
  BY <1>1 DEF SendersAlone, Sender, Actors
<1>3. PostsCounted /\ RowsInv /\ ClaimsInv
  BY <1>1 DEF PostsCounted, RowsInv, ClaimsInv, Accepted
<1>4. OpsInv
  BY <1>1, TxnsAssumption DEF OpsInv
<1> QED BY <1>2, <1>3, <1>4 DEF MoneyInv

\* The state of the provider and what the service believes of it, in every state.
THEOREM MoneyAlways == Spec => [](StoreInv /\ ServiceInv /\ MoneyInv)
<1>1. StoreInv /\ StoreInv' /\ ServiceInv /\ MoneyInv /\ [Next]_vars => MoneyInv'
  BY SendersStep, PostsStep, RowsStep, OpsStep, ClaimsStep DEF MoneyInv
<1> QED BY <1>1, AllAlways, MoneyInit, PTL DEF Spec

\* The provider is asked for money at most once per payment, however many
\* invocations, retries, replays and worker runs there are and wherever they stop.
THEOREM SendsOnce == Spec => []SingleSend
<1>1. MoneyInv => SingleSend
  BY DEF MoneyInv, PostsCounted, SingleSend
<1> QED BY <1>1, MoneyAlways, PTL

\* "Never sent" is never a guess of the worker or of the dispatcher.
THEOREM UnsentNeverCharged == Spec => []UnsentIsUncharged
<1>1. MoneyInv => UnsentIsUncharged
  BY DEF MoneyInv, RowsInv, PostsCounted, Unsendable, Unsent, UnsentIsUncharged, Accepted
<1> QED BY <1>1, MoneyAlways, PTL

\* A settled payment carries an outcome the provider gave for its charge.
THEOREM OutcomeCorrect == Spec => []FinalStatusWasReported
<1>1. MoneyInv => FinalStatusWasReported
  BY DEF MoneyInv, RowsInv, PostsCounted, Given, Unsendable, Unsent, FinalStatusWasReported,
         Accepted
<1> QED BY <1>1, MoneyAlways, PTL

\* Nobody is told to buy again while the old charge may still go through.
THEOREM BuyAgainCorrect == Spec => []SafeToBuyAgain
<1>1. ASSUME MoneyInv, StoreInv PROVE SafeToBuyAgain
  <2> SUFFICES ASSUME NEW t \in Accepted,
                      "START_NEW_CHECKOUT" \in AllowedActionsFor(payment[t])
               PROVE /\ charge[t] \notin {"INFLIGHT", "PENDING", "APPROVED"}
                     /\ \A p \in Txns : ~Sender(p, t)
    BY DEF SafeToBuyAgain, Sender
  <2>1. payment[t].paymentStatus \in {"DECLINED", "VOIDED", "ERROR"}
    <3>1. payment[t].paymentStatus \in PaymentStatus
      BY <1>1 DEF Accepted, StoreInv, TypeInv, TypeOK, Payment
    <3> QED BY <3>1 DEF AllowedActionsFor, PaymentStatus, FailureStatus, FinalStatus
  <2>2. \/ charge[t] \in {"DECLINED", "VOIDED", "REVERSED", "ERROR", "REJECTED"}
        \/ Unsendable(t)
    BY <1>1, <2>1 DEF MoneyInv, RowsInv, Given
  <2>3. t \in Txns /\ (posts[t] = 0 <=> charge[t] = "NONE")
    BY <1>1 DEF MoneyInv, PostsCounted, Accepted
  <2>4. \A p \in Txns : Sender(p, t) => posts[t] = 0
    BY <1>1, <2>3 DEF MoneyInv, SendersAlone
  <2> QED BY <2>2, <2>3, <2>4 DEF Unsendable, Unsent
<1> QED BY <1>1, MoneyAlways, PTL

=============================================================================
