--------------------------- MODULE CheckoutDomain ---------------------------
(***************************************************************************)
(* The vocabulary of the checkout domain (apps/api/src/domain/checkout):   *)
(* the status sets of a checkout, a payment, its dispatch to the provider, *)
(* its reservation and its integrity, and the pure functions on them.      *)
(* Constant-level only: no variable, no behaviour.                         *)
(***************************************************************************)
CheckoutStatus == {"DRAFT", "READY", "PAYMENT_PENDING", "PAID", "PAYMENT_FAILED", "EXPIRED"}

PaymentStatus == {"PENDING", "APPROVED", "DECLINED", "VOIDED", "ERROR"}
FinalStatus   == PaymentStatus \ {"PENDING"}
FailureStatus == FinalStatus \ {"APPROVED"}

DispatchPhase == {"NOT_SENT", "SENDING", "ACKNOWLEDGED", "UNKNOWN", "NOT_SENT_FAILED"}

\* "none" stands for the null the provider status starts with.
ProviderStatus == PaymentStatus \cup {"none"}

\* "NONE" stands for the reservation row that does not exist yet.
ReservationStatus == {"NONE", "ACTIVE", "CONSUMED", "RELEASED"}

IntegrityStatus == {"OK", "APPROVED_INVENTORY_CONFLICT", "FINAL_STATE_CONFLICT"}

\* The recovery codes the payment lifecycle writes; "none" is the absent attribute.
RecoveryCode == {"none", "PAYMENT_TOKEN_REJECTED", "PROVIDER_NOT_SENT",
                 "PROVIDER_OUTCOME_UNKNOWN", "STATE_TRANSITION_CONFLICT"}

IsTerminalPayment(status) == status # "PENDING"

CheckoutStatusForPayment(status) ==
    CASE status = "PENDING"  -> "PAYMENT_PENDING"
      [] status = "APPROVED" -> "PAID"
      [] OTHER               -> "PAYMENT_FAILED"

\* faulty: an unknown outcome invites to try again
AllowedActionsRetryUnknown(p) ==
    IF p.paymentStatus # "APPROVED" /\ p.recoveryCode # "none"
    THEN {"QUERY", "START_NEW_CHECKOUT"}
    ELSE {"QUERY"}

\* What a client may do next with a stored payment p.
AllowedActionsFor(p) ==
    CASE p.paymentStatus = "PENDING"   -> {"QUERY", "WAIT", "RETURN_TO_PRODUCT"}
      [] /\ p.paymentStatus # "PENDING"
         /\ p.integrityStatus # "OK"   -> {"QUERY", "RETURN_TO_PRODUCT", "CONTACT_SUPPORT"}
      [] /\ p.paymentStatus = "APPROVED"
         /\ p.integrityStatus = "OK"   -> {"QUERY", "RETURN_TO_PRODUCT"}
      [] /\ p.paymentStatus \in FailureStatus
         /\ p.integrityStatus = "OK"
         /\ p.effectsApplied
         /\ p.reservationStatus = "RELEASED"
         /\ ~p.hasDelivery             -> {"QUERY", "RETURN_TO_PRODUCT", "START_NEW_CHECKOUT"}
      [] OTHER                         -> {"QUERY", "RETURN_TO_PRODUCT", "CONTACT_SUPPORT"}
=============================================================================
