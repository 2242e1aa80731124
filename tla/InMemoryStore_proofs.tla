------------------------ MODULE InMemoryStore_proofs ------------------------
(***************************************************************************)
(* What holds of InMemoryStore for any checkouts, transactions, keys,      *)
(* provider ids, stock and version bound.                                  *)
(*                                                                         *)
(* The mutation that awaits the catalog is part of the invariant: what it  *)
(* checked before it waited still holds when it resumes, because nothing   *)
(* but the clock runs in between.  From that follow what the maps say of   *)
(* one payment, the catalog's counters, and the promise.                   *)
(***************************************************************************)
EXTENDS InMemoryStore, FiniteSetTheorems, TLAPS

\* The mutations that may await the catalog.
Awaiting ==
  [op : {"none"}]
    \cup [op : {"reserved"}, c : Checkouts, k : Keys, t : Txns, version : 1 .. MaxVersion]
    \cup [op : {"consumed"}, t : Txns]
    \cup [op : {"released"}, t : Txns, status : FailureStatus,
          providerStatus : FailureStatus \cup {"none"},
          recovery : {"none", "PROVIDER_NOT_SENT", "PAYMENT_TOKEN_REJECTED"}]

TypeInv == TypeOK /\ busy \in Awaiting

\* What a mutation checked before it waited for the catalog still holds.
BusyInv ==
  /\ busy.op = "reserved" =>
       /\ IsAt(busy.c, busy.version)
       /\ transactions[busy.t] = NULL
       /\ idempotency[busy.c][busy.k] = NULL
  /\ busy.op \in {"consumed", "released"} => Pending(busy.t)

\* What the maps say of payment t, with what makes it inductive: its checkout
\* exists, and it is settled exactly when it holds no unit.
Agrees(t) ==
  /\ checkouts[transactions[t].checkout] # NULL
  /\ checkouts[transactions[t].checkout].active = t
  /\ checkouts[transactions[t].checkout].status
       = CheckoutStatusForPayment(transactions[t].paymentStatus)
  /\ t \in deliveries <=> transactions[t].reservationStatus = "CONSUMED"
  /\ transactions[t].reservationStatus = "CONSUMED"
       <=> transactions[t].paymentStatus = "APPROVED"
  /\ transactions[t].reservationStatus = "RELEASED"
       <=> transactions[t].paymentStatus \in FailureStatus
  /\ transactions[t].reservationStatus = "ACTIVE"
       <=> transactions[t].paymentStatus = "PENDING"
  /\ transactions[t].effectsApplied
       <=> transactions[t].reservationStatus \in {"CONSUMED", "RELEASED"}

\* One of its checkout's keys names it.
Named(t) ==
  \E k \in Keys : /\ idempotency[transactions[t].checkout][k] # NULL
                  /\ idempotency[transactions[t].checkout][k].transaction = t

AgreeInv ==
  /\ deliveries \subseteq Accepted
  /\ \A t \in Accepted : Agrees(t) /\ Named(t)

Inv == TypeInv /\ BusyInv /\ AgreeInv

-----------------------------------------------------------------------------
(* The kinds of step                                                       *)

\* A draft is created or edited.
Drafts(c) ==
  /\ checkouts[c] # NULL => checkouts[c].active = NULL
  /\ checkouts' = [checkouts EXCEPT ![c] = checkouts'[c]]
  /\ checkouts'[c] \in Checkout /\ checkouts'[c].active = NULL
  /\ busy = Idle
  /\ UNCHANGED <<product, transactions, deliveries, idempotency, busy>>

\* A reserved unit becomes a payment.
Accepts(c, k, t) ==
  /\ busy.op = "reserved" /\ t \in Txns
  /\ checkouts[c] # NULL /\ checkouts[c].active = NULL
  /\ transactions[t] = NULL /\ idempotency[c][k] = NULL
  /\ checkouts' = [checkouts EXCEPT ![c] = checkouts'[c]]
  /\ checkouts'[c] \in Checkout
  /\ checkouts'[c].active = t /\ checkouts'[c].status = "PAYMENT_PENDING"
  /\ transactions' = [transactions EXCEPT ![t] = transactions'[t]]
  /\ transactions'[t] \in Transaction
  /\ transactions'[t].checkout = c /\ transactions'[t].paymentStatus = "PENDING"
  /\ transactions'[t].reservationStatus = "ACTIVE"
  /\ transactions'[t].providerId = NULL /\ transactions'[t].effectsApplied = FALSE
  /\ idempotency' = [idempotency EXCEPT ![c][k] = idempotency'[c][k]]
  /\ idempotency'[c][k] \in IdempotencyRecord /\ idempotency'[c][k].transaction = t
  /\ busy' = Idle
  /\ UNCHANGED <<product, deliveries>>

\* Nothing that the maps agree on changes.
Quiet ==
  /\ transactions' \in [Txns -> Transaction \cup {NULL}]
  /\ \A t \in Txns : transactions[t] = NULL => transactions'[t] = NULL
  /\ \A t \in Accepted :
       /\ transactions'[t] \in Transaction
       /\ transactions'[t].checkout = transactions[t].checkout
       /\ transactions'[t].paymentStatus = transactions[t].paymentStatus
       /\ transactions'[t].reservationStatus = transactions[t].reservationStatus
       /\ transactions'[t].effectsApplied = transactions[t].effectsApplied
  /\ UNCHANGED <<product, checkouts, deliveries, idempotency, busy>>

\* ... nor does the provider id of a payment other than those in changed.
IdsKept(changed) ==
  \A t \in Accepted \ changed : transactions'[t].providerId = transactions[t].providerId

Acknowledges(t, id) ==
  /\ OwnsId(t, id) /\ t \in Accepted
  /\ transactions'[t].providerId = id
  /\ IdsKept({t})

\* The pending payment t is settled.
Settles(t, status, reservation) ==
  /\ t \in Accepted /\ transactions[t].paymentStatus = "PENDING"
  /\ transactions' = [transactions EXCEPT ![t] = transactions'[t]]
  /\ transactions'[t] \in Transaction
  /\ transactions'[t].checkout = transactions[t].checkout
  /\ transactions'[t].paymentStatus = status
  /\ transactions'[t].reservationStatus = reservation
  /\ transactions'[t].providerId = transactions[t].providerId
  /\ transactions'[t].effectsApplied = TRUE
  /\ Closed(t, status)
  /\ busy' = Idle
  /\ UNCHANGED <<product, idempotency>>

Sells(t) ==
  /\ busy.op = "consumed" /\ Settles(t, "APPROVED", "CONSUMED")
  /\ deliveries' = deliveries \cup {t}

Refunds(t, status) ==
  /\ busy.op = "released" /\ Settles(t, status, "RELEASED")
  /\ deliveries' = deliveries

\* A mutation calls the catalog and waits.
Waits ==
  \/ \E c \in Checkouts, k \in Keys, t \in Txns, v \in 1 .. MaxVersion :
       PreparePayment(c, k, t, v)
  \/ \E t \in Accepted : FinalizeApproved(t)
  \/ \E t \in Accepted, status \in FailureStatus,
        providerStatus \in FailureStatus \cup {"none"},
        recovery \in {"none", "PROVIDER_NOT_SENT", "PAYMENT_TOKEN_REJECTED"} :
       FinalizeFailure(t, status, providerStatus, recovery)

\* The fields of a mutation that awaits, by its kind.
LEMMA BusyFields ==
  ASSUME busy \in Awaiting
  PROVE  /\ busy.op \in {"none", "reserved", "consumed", "released"}
         /\ busy.op = "none" <=> busy = Idle
         /\ busy.op = "reserved" =>
              /\ busy.c \in Checkouts /\ busy.k \in Keys /\ busy.t \in Txns
              /\ busy.version \in 1 .. MaxVersion
         /\ busy.op \in {"consumed", "released"} => busy.t \in Txns
         /\ busy.op = "released" =>
              /\ busy.status \in FailureStatus
              /\ busy.providerStatus \in FailureStatus \cup {"none"}
              /\ busy.recovery \in {"none", "PROVIDER_NOT_SENT", "PAYMENT_TOKEN_REJECTED"}
<1>1. CASE busy \in [op : {"none"}]
  BY <1>1 DEF Idle
<1>2. CASE busy \in [op : {"reserved"}, c : Checkouts, k : Keys, t : Txns,
                     version : 1 .. MaxVersion]
  BY <1>2 DEF Idle
<1>3. CASE busy \in [op : {"consumed"}, t : Txns]
  BY <1>3 DEF Idle
<1>4. CASE busy \in [op : {"released"}, t : Txns, status : FailureStatus,
                     providerStatus : FailureStatus \cup {"none"},
                     recovery : {"none", "PROVIDER_NOT_SENT", "PAYMENT_TOKEN_REJECTED"}]
  BY <1>4 DEF Idle
<1> QED BY <1>1, <1>2, <1>3, <1>4 DEF Awaiting

\* The tables are well typed.
LEMMA Tables ==
  ASSUME Inv
  PROVE  /\ product \in [onHand : Nat, reserved : Nat, available : Nat]
         /\ checkouts \in [Checkouts -> Checkout \cup {NULL}]
         /\ transactions \in [Txns -> Transaction \cup {NULL}]
         /\ idempotency \in [Checkouts -> [Keys -> IdempotencyRecord \cup {NULL}]]
         /\ deliveries \subseteq Accepted /\ busy \in Awaiting
         /\ \A t \in Accepted : transactions[t] \in Transaction
         /\ \A c \in Checkouts : checkouts[c] # NULL => checkouts[c] \in Checkout
  BY DEF Inv, TypeInv, TypeOK, AgreeInv, Accepted

\* Drafting.
LEMMA DraftKind == Inv /\ Drafting => \E c \in Checkouts : Drafts(c)
<1> SUFFICES ASSUME Inv, Drafting PROVE \E c \in Checkouts : Drafts(c)
  OBVIOUS
<1>0. checkouts \in [Checkouts -> Checkout \cup {NULL}]
  BY Tables
<1>1. ASSUME NEW c \in Checkouts, Create(c) PROVE Drafts(c)
  <2>1. Draft \in Checkout /\ Draft.active = NULL
    BY InMemoryAssumption DEF Draft, Checkout, CheckoutStatus
  <2> QED BY <1>0, <1>1, <2>1 DEF Create, Drafts
<1>2. ASSUME NEW c \in Checkouts, NEW v \in 1 .. MaxVersion, ReplaceCustomer(c, v)
      PROVE Drafts(c)
  <2> DEFINE row == [checkouts[c] EXCEPT
                       !.version = v + 1, !.customer = TRUE,
                       !.status = IF checkouts[c].details THEN "READY" ELSE "DRAFT"]
  <2>1. checkouts[c] \in Checkout /\ checkouts[c].active = NULL /\ v + 1 \in 1 .. MaxVersion + 1
    BY <1>0, <1>2, InMemoryAssumption DEF ReplaceCustomer, IsAt
  <2>2. row \in Checkout /\ row.active = NULL
    BY <2>1 DEF Checkout, CheckoutStatus
  <2>3. checkouts' = [checkouts EXCEPT ![c] = row]
    BY <1>2 DEF ReplaceCustomer
  <2> HIDE DEF row
  <2> QED BY <1>0, <1>2, <2>1, <2>2, <2>3 DEF ReplaceCustomer, Drafts
<1>3. ASSUME NEW c \in Checkouts, NEW v \in 1 .. MaxVersion, ReplaceDeliveryDetails(c, v)
      PROVE Drafts(c)
  <2> DEFINE row == [checkouts[c] EXCEPT
                       !.version = v + 1, !.details = TRUE,
                       !.status = IF checkouts[c].customer THEN "READY" ELSE "DRAFT"]
  <2>1. checkouts[c] \in Checkout /\ checkouts[c].active = NULL /\ v + 1 \in 1 .. MaxVersion + 1
    BY <1>0, <1>3, InMemoryAssumption DEF ReplaceDeliveryDetails, IsAt
  <2>2. row \in Checkout /\ row.active = NULL
    BY <2>1 DEF Checkout, CheckoutStatus
  <2>3. checkouts' = [checkouts EXCEPT ![c] = row]
    BY <1>3 DEF ReplaceDeliveryDetails
  <2> HIDE DEF row
  <2> QED BY <1>0, <1>3, <2>1, <2>2, <2>3 DEF ReplaceDeliveryDetails, Drafts
<1> QED BY <1>1, <1>2, <1>3 DEF Drafting

\* The second half of a submission.
LEMMA ReservedKind ==
  Inv /\ Reserved => \E c \in Checkouts, k \in Keys, t \in Txns : Accepts(c, k, t)
<1> SUFFICES ASSUME Inv, Reserved PROVE Accepts(busy.c, busy.k, busy.t)
                                        /\ busy.c \in Checkouts /\ busy.k \in Keys
                                        /\ busy.t \in Txns
  OBVIOUS
<1> DEFINE c == busy.c
           k == busy.k
           t == busy.t
           checkout == [checkouts[c] EXCEPT !.status = "PAYMENT_PENDING",
                                            !.version = checkouts[c].version + 1, !.active = t]
           transaction ==
             [checkout |-> c, paymentStatus |-> "PENDING", dispatchPhase |-> "NOT_SENT",
              providerId |-> NULL, providerStatus |-> "none", reservationStatus |-> "ACTIVE",
              integrityStatus |-> "OK", recoveryCode |-> "none", effectsApplied |-> FALSE,
              due |-> FALSE]
           record == [transaction |-> t, semanticHash |-> busy.version]
<1>1. busy \in Awaiting /\ busy.op = "reserved"
  BY Tables DEF Reserved
<1>2. c \in Checkouts /\ k \in Keys /\ t \in Txns /\ busy.version \in 1 .. MaxVersion
  BY <1>1, BusyFields
<1>3. /\ checkouts[c] # NULL /\ checkouts[c].version = busy.version
      /\ checkouts[c].active = NULL /\ transactions[t] = NULL /\ idempotency[c][k] = NULL
  BY <1>1 DEF Inv, BusyInv, IsAt
<1>4. checkouts[c] \in Checkout
  BY <1>2, <1>3, Tables
<1>5. checkout \in Checkout /\ checkout.active = t /\ checkout.status = "PAYMENT_PENDING"
  <2>1. checkouts[c].version + 1 \in 1 .. MaxVersion + 1
    BY <1>2, <1>3, InMemoryAssumption
  <2> QED BY <1>2, <1>4, <2>1 DEF Checkout, CheckoutStatus
<1>6. transaction \in Transaction
  BY <1>2 DEF Transaction, PaymentStatus, DispatchPhase, ProviderStatus, ReservationStatus,
              IntegrityStatus, RecoveryCode
<1>7. record \in IdempotencyRecord /\ record.transaction = t
  BY <1>2 DEF IdempotencyRecord
<1>8. /\ transaction.checkout = c /\ transaction.paymentStatus = "PENDING"
      /\ transaction.reservationStatus = "ACTIVE" /\ transaction.providerId = NULL
      /\ transaction.effectsApplied = FALSE
  OBVIOUS
<1>9. /\ checkouts' = [checkouts EXCEPT ![c] = checkout]
      /\ transactions' = [transactions EXCEPT ![t] = transaction]
      /\ idempotency' = [idempotency EXCEPT ![c][k] = record]
      /\ busy' = Idle /\ UNCHANGED <<product, deliveries>>
  <2>1. checkouts' = [checkouts EXCEPT ![c] = checkout]
    BY DEF Reserved
  <2>2. transactions' = [transactions EXCEPT ![t] = transaction]
    BY DEF Reserved
  <2>3. idempotency' = [idempotency EXCEPT ![c][k] = record]
    BY DEF Reserved
  <2>4. busy' = Idle /\ UNCHANGED <<product, deliveries>>
    BY DEF Reserved
  <2> QED BY <2>1, <2>2, <2>3, <2>4
<1> HIDE DEF checkout, transaction, record
<1>10. /\ checkouts'[c] = checkout /\ transactions'[t] = transaction
       /\ idempotency'[c][k] = record
  BY <1>2, <1>9, Tables
<1> HIDE DEF c, k, t
<1>11. Accepts(c, k, t)
  BY <1>1, <1>2, <1>3, <1>5, <1>6, <1>7, <1>8, <1>9, <1>10 DEF Accepts
<1> QED BY <1>2, <1>11 DEF c, k, t


\* One row rewritten, with what the maps agree on.
LEMMA QuietRow ==
  ASSUME Inv, NEW t \in Accepted, NEW row \in Transaction, Store(t, row),
         row.checkout = transactions[t].checkout,
         row.paymentStatus = transactions[t].paymentStatus,
         row.reservationStatus = transactions[t].reservationStatus,
         row.effectsApplied = transactions[t].effectsApplied
  PROVE  /\ Quiet /\ transactions'[t] = row
         /\ row.providerId = transactions[t].providerId => IdsKept({})
         /\ IdsKept({t})
<1>1. transactions \in [Txns -> Transaction \cup {NULL}] /\ t \in Txns /\ transactions[t] # NULL
  BY Tables DEF Accepted
<1>2. transactions' = [transactions EXCEPT ![t] = row]
  BY DEF Store
<1>3. transactions' \in [Txns -> Transaction \cup {NULL}] /\ transactions'[t] = row
  BY <1>1, <1>2
<1>4. \A u \in Txns \ {t} : transactions'[u] = transactions[u]
  BY <1>1, <1>2
<1>5. ASSUME NEW u \in Txns, transactions[u] = NULL PROVE transactions'[u] = NULL
  BY <1>1, <1>4, <1>5
<1>6. ASSUME NEW u \in Accepted
      PROVE  /\ transactions'[u] \in Transaction
             /\ transactions'[u].checkout = transactions[u].checkout
             /\ transactions'[u].paymentStatus = transactions[u].paymentStatus
             /\ transactions'[u].reservationStatus = transactions[u].reservationStatus
             /\ transactions'[u].effectsApplied = transactions[u].effectsApplied
  <2>1. u \in Txns /\ transactions[u] \in Transaction
    BY <1>1 DEF Accepted
  <2> QED BY <1>3, <1>4, <2>1
<1>7. Quiet
  BY <1>3, <1>5, <1>6 DEF Quiet, Store
<1>8. IdsKept({t}) /\ (row.providerId = transactions[t].providerId => IdsKept({}))
  BY <1>3, <1>4 DEF IdsKept, Accepted
<1> QED BY <1>3, <1>7, <1>8

\* Dispatch, and what the clock does to it.
LEMMA DispatchKind ==
  Inv /\ Dispatching =>
    Quiet /\ (IdsKept({}) \/ \E t \in Accepted, id \in ProviderIds : Acknowledges(t, id))
<1> DEFINE Goal ==
      Quiet /\ (IdsKept({}) \/ \E t \in Accepted, id \in ProviderIds : Acknowledges(t, id))
<1> SUFFICES ASSUME Inv, Dispatching PROVE Goal
  OBVIOUS
<1>0. transactions \in [Txns -> Transaction \cup {NULL}]
  BY Tables
<1>1. ASSUME NEW t \in Txns, ClaimDispatch(t) PROVE Goal
  <2> DEFINE row == [transactions[t] EXCEPT !.dispatchPhase = "SENDING", !.due = FALSE]
  <2>1. t \in Accepted /\ transactions[t] \in Transaction
    BY <1>0, <1>1 DEF ClaimDispatch, Accepted
  <2>2. /\ row \in Transaction /\ row.checkout = transactions[t].checkout
        /\ row.paymentStatus = transactions[t].paymentStatus
        /\ row.reservationStatus = transactions[t].reservationStatus
        /\ row.effectsApplied = transactions[t].effectsApplied
        /\ row.providerId = transactions[t].providerId
    BY <2>1 DEF Transaction, DispatchPhase
  <2>3. Store(t, row)
    BY <1>1 DEF ClaimDispatch
  <2> HIDE DEF row
  <2> QED BY <2>1, <2>2, <2>3, QuietRow
<1>2. ASSUME NEW t \in Txns, MarkUnknown(t) PROVE Goal
  <2> DEFINE row == [transactions[t] EXCEPT
                       !.dispatchPhase = "UNKNOWN",
                       !.recoveryCode = "PROVIDER_OUTCOME_UNKNOWN", !.due = FALSE]
  <2>1. t \in Accepted /\ transactions[t] \in Transaction
    BY <1>0, <1>2 DEF MarkUnknown, Pending, Accepted
  <2>2. /\ row \in Transaction /\ row.checkout = transactions[t].checkout
        /\ row.paymentStatus = transactions[t].paymentStatus
        /\ row.reservationStatus = transactions[t].reservationStatus
        /\ row.effectsApplied = transactions[t].effectsApplied
        /\ row.providerId = transactions[t].providerId
    BY <2>1 DEF Transaction, DispatchPhase, RecoveryCode
  <2>3. Store(t, row)
    BY <1>2 DEF MarkUnknown
  <2> HIDE DEF row
  <2> QED BY <2>1, <2>2, <2>3, QuietRow
<1>3. ASSUME NEW t \in Txns, BecomesDue(t) PROVE Goal
  <2> DEFINE row == [transactions[t] EXCEPT !.due = TRUE]
  <2>1. t \in Accepted /\ transactions[t] \in Transaction
    BY <1>0, <1>3 DEF BecomesDue, Pending, Accepted
  <2>2. /\ row \in Transaction /\ row.checkout = transactions[t].checkout
        /\ row.paymentStatus = transactions[t].paymentStatus
        /\ row.reservationStatus = transactions[t].reservationStatus
        /\ row.effectsApplied = transactions[t].effectsApplied
        /\ row.providerId = transactions[t].providerId
    BY <2>1 DEF Transaction
  <2>3. Store(t, row)
    BY <1>3 DEF BecomesDue, Store
  <2> HIDE DEF row
  <2> QED BY <2>1, <2>2, <2>3, QuietRow
<1>4. ASSUME NEW t \in Txns, NEW id \in ProviderIds, NEW status \in PaymentStatus,
             AcknowledgeProvider(t, id, status)
      PROVE Goal
  <2> DEFINE row == [transactions[t] EXCEPT
                       !.providerId = id, !.providerStatus = status,
                       !.dispatchPhase = "ACKNOWLEDGED",
                       !.due = IF status = "PENDING" THEN FALSE ELSE @]
  <2>1. t \in Accepted /\ transactions[t] \in Transaction
    BY <1>0, <1>4 DEF AcknowledgeProvider, Pending, Accepted
  <2>2. /\ row.checkout = transactions[t].checkout
        /\ row.paymentStatus = transactions[t].paymentStatus
        /\ row.reservationStatus = transactions[t].reservationStatus
        /\ row.effectsApplied = transactions[t].effectsApplied
        /\ row.providerId = id
    BY <2>1 DEF Transaction
  <2>3. row \in Transaction
    BY <2>1 DEF Transaction, DispatchPhase, ProviderStatus
  <2>4. Store(t, row) /\ OwnsId(t, id)
    BY <1>4 DEF AcknowledgeProvider
  <2> HIDE DEF row
  <2>5. Quiet /\ transactions'[t] = row /\ IdsKept({t})
    BY <2>1, <2>2, <2>3, <2>4, QuietRow
  <2>6. Acknowledges(t, id)
    BY <2>1, <2>2, <2>4, <2>5 DEF Acknowledges
  <2> QED BY <2>1, <2>5, <2>6
<1>5. ASSUME NEW claimed \in SUBSET Txns, ClaimDue(claimed) PROVE Goal
  <2> DEFINE row(t) == [transactions[t] EXCEPT !.due = FALSE,
                          !.dispatchPhase = IF @ = "NOT_SENT" THEN "NOT_SENT_FAILED" ELSE @]
  <2>1. transactions' = [t \in Txns |-> IF t \notin claimed THEN transactions[t] ELSE row(t)]
        /\ UNCHANGED <<product, checkouts, deliveries, idempotency, busy>>
    BY <1>5 DEF ClaimDue
  <2>2. ASSUME NEW t \in claimed
        PROVE  /\ transactions[t] # NULL /\ transactions[t] \in Transaction
               /\ row(t) \in Transaction /\ row(t).checkout = transactions[t].checkout
               /\ row(t).paymentStatus = transactions[t].paymentStatus
               /\ row(t).reservationStatus = transactions[t].reservationStatus
               /\ row(t).effectsApplied = transactions[t].effectsApplied
               /\ row(t).providerId = transactions[t].providerId
    <3>1. transactions[t] # NULL /\ transactions[t] \in Transaction
      BY <1>0, <1>5 DEF ClaimDue, Pending
    <3> QED BY <3>1 DEF Transaction, DispatchPhase
  <2> HIDE DEF row
  <2>3. transactions' \in [Txns -> Transaction \cup {NULL}]
    BY <1>0, <2>1, <2>2
  <2>4. ASSUME NEW t \in Txns, transactions[t] = NULL PROVE transactions'[t] = NULL
    BY <2>1, <2>2, <2>4
  <2>5. ASSUME NEW t \in Accepted
        PROVE  /\ transactions'[t] \in Transaction
               /\ transactions'[t].checkout = transactions[t].checkout
               /\ transactions'[t].paymentStatus = transactions[t].paymentStatus
               /\ transactions'[t].reservationStatus = transactions[t].reservationStatus
               /\ transactions'[t].effectsApplied = transactions[t].effectsApplied
               /\ transactions'[t].providerId = transactions[t].providerId
    <3>1. t \in Txns /\ transactions[t] # NULL /\ transactions[t] \in Transaction
      BY <1>0 DEF Accepted
    <3>2. transactions'[t] = IF t \notin claimed THEN transactions[t] ELSE row(t)
      BY <2>1, <3>1
    <3> QED BY <2>2, <3>1, <3>2
  <2>6. Quiet
    BY <2>1, <2>3, <2>4, <2>5 DEF Quiet
  <2>7. IdsKept({})
    BY <2>5 DEF IdsKept
  <2> QED BY <2>6, <2>7
<1> HIDE DEF Goal
<1> QED BY <1>1, <1>2, <1>3, <1>4, <1>5 DEF Dispatching

\* An accepted payment that is not pending is flagged, nothing else.
LEMMA AgainKind ==
  ASSUME Inv, NEW t \in Accepted, NEW status, FinalizeAgain(t, status)
  PROVE  Quiet /\ IdsKept({})
<1> DEFINE row == [transactions[t] EXCEPT !.integrityStatus = "FINAL_STATE_CONFLICT"]
<1>1. transactions[t] \in Transaction
  BY Tables
<1>2. /\ row \in Transaction /\ row.checkout = transactions[t].checkout
      /\ row.paymentStatus = transactions[t].paymentStatus
      /\ row.reservationStatus = transactions[t].reservationStatus
      /\ row.effectsApplied = transactions[t].effectsApplied
      /\ row.providerId = transactions[t].providerId
  BY <1>1 DEF Transaction, IntegrityStatus
<1>3. Store(t, row)
  BY DEF FinalizeAgain
<1> HIDE DEF row
<1> QED BY <1>2, <1>3, QuietRow

\* The second half of a settlement.
LEMMA SettledKind ==
  /\ Inv /\ Consumed => Sells(busy.t) /\ busy.t \in Accepted
  /\ Inv /\ Released =>
       /\ Refunds(busy.t, busy.status) /\ busy.t \in Accepted
       /\ busy.status \in FailureStatus
<1> DEFINE t == busy.t
<1>1. ASSUME Inv, busy.op \in {"consumed", "released"}
      PROVE  /\ t \in Accepted /\ transactions[t].paymentStatus = "PENDING"
             /\ transactions[t] \in Transaction
  <2>1. t \in Txns
    BY <1>1, Tables, BusyFields
  <2> QED BY <1>1, <2>1, Tables DEF Inv, BusyInv, Pending, IsTerminalPayment, Accepted
<1>2. ASSUME Inv, Consumed PROVE Sells(t) /\ t \in Accepted
  <2> DEFINE row == [transactions[t] EXCEPT
                       !.paymentStatus = "APPROVED", !.providerStatus = "APPROVED",
                       !.dispatchPhase = "ACKNOWLEDGED", !.reservationStatus = "CONSUMED",
                       !.integrityStatus = "OK", !.effectsApplied = TRUE]
  <2>1. /\ t \in Accepted /\ transactions[t].paymentStatus = "PENDING"
        /\ transactions[t] \in Transaction
    BY <1>1, <1>2 DEF Consumed
  <2>2. row \in Transaction
    BY <2>1 DEF Transaction, PaymentStatus, ProviderStatus, DispatchPhase, ReservationStatus,
                IntegrityStatus
  <2>3. /\ row.checkout = transactions[t].checkout /\ row.paymentStatus = "APPROVED"
        /\ row.reservationStatus = "CONSUMED" /\ row.effectsApplied = TRUE
        /\ row.providerId = transactions[t].providerId
    BY <2>1 DEF Transaction
  <2>4. transactions' = [transactions EXCEPT ![t] = row]
    BY <1>2 DEF Consumed
  <2> HIDE DEF row
  <2>5. transactions'[t] = row
    BY <1>2, <2>1, <2>4, Tables DEF Accepted
  <2>6. /\ deliveries' = deliveries \cup {t} /\ Closed(t, "APPROVED") /\ busy' = Idle
        /\ busy.op = "consumed" /\ UNCHANGED <<product, idempotency>>
    BY <1>2 DEF Consumed
  <2> HIDE DEF t
  <2> QED BY <2>1, <2>2, <2>3, <2>4, <2>5, <2>6 DEF Sells, Settles
<1>3. ASSUME Inv, Released
      PROVE  Refunds(t, busy.status) /\ t \in Accepted /\ busy.status \in FailureStatus
  <2> DEFINE row == [transactions[t] EXCEPT
                       !.paymentStatus = busy.status, !.providerStatus = busy.providerStatus,
                       !.dispatchPhase = IF busy.recovery = "PROVIDER_NOT_SENT"
                                         THEN "NOT_SENT_FAILED" ELSE "ACKNOWLEDGED",
                       !.reservationStatus = "RELEASED", !.integrityStatus = "OK",
                       !.recoveryCode = IF busy.recovery = "none" THEN @ ELSE busy.recovery,
                       !.effectsApplied = TRUE]
  <2>1. /\ t \in Accepted /\ transactions[t].paymentStatus = "PENDING"
        /\ transactions[t] \in Transaction
    BY <1>1, <1>3 DEF Released
  <2>2. /\ busy.status \in FailureStatus /\ busy.providerStatus \in FailureStatus \cup {"none"}
        /\ busy.recovery \in {"none", "PROVIDER_NOT_SENT", "PAYMENT_TOKEN_REJECTED"}
    BY <1>3, Tables, BusyFields DEF Released
  <2>3. busy.status \in PaymentStatus /\ busy.providerStatus \in ProviderStatus
    BY <2>2 DEF FailureStatus, FinalStatus, ProviderStatus
  <2>4. row \in Transaction
    BY <2>1, <2>2, <2>3
    DEF Transaction, DispatchPhase, ReservationStatus, IntegrityStatus, RecoveryCode
  <2>5. /\ row.checkout = transactions[t].checkout /\ row.paymentStatus = busy.status
        /\ row.reservationStatus = "RELEASED" /\ row.effectsApplied = TRUE
        /\ row.providerId = transactions[t].providerId
    BY <2>1 DEF Transaction
  <2>6. transactions' = [transactions EXCEPT ![t] = row]
    BY <1>3 DEF Released, SettledAs
  <2> HIDE DEF row
  <2>7. transactions'[t] = row
    BY <1>3, <2>1, <2>6, Tables DEF Accepted
  <2>8. /\ deliveries' = deliveries /\ Closed(t, busy.status) /\ busy' = Idle
        /\ busy.op = "released" /\ UNCHANGED <<product, idempotency>>
    BY <1>3 DEF Released
  <2> HIDE DEF t
  <2> QED BY <2>1, <2>2, <2>4, <2>5, <2>6, <2>7, <2>8 DEF Refunds, Settles
<1> QED BY <1>2, <1>3

\* Every step is of one of these kinds.
LEMMA StepKinds ==
  ASSUME Inv, Next
  PROVE  \/ \E c \in Checkouts : Drafts(c)
         \/ Waits
         \/ \E c \in Checkouts, k \in Keys, t \in Txns : Accepts(c, k, t)
         \/ Quiet /\ IdsKept({})
         \/ Quiet /\ \E t \in Accepted, id \in ProviderIds : Acknowledges(t, id)
         \/ \E t \in Accepted : Sells(t)
         \/ \E t \in Accepted, status \in FailureStatus : Refunds(t, status)
<1>1. CASE Drafting
  BY <1>1, DraftKind
<1>2. CASE Submitting
  BY <1>2, ReservedKind DEF Submitting, Waits
<1>3. CASE Dispatching
  BY <1>3, DispatchKind
<1>4. CASE Settling
  <2>1. CASE \E t \in Accepted : FinalizeApproved(t)
    BY <2>1 DEF Waits
  <2>2. ASSUME NEW t \in Accepted, NEW status \in FailureStatus,
               FinalizeFailure(t, status, status, "none")
        PROVE Waits
    BY <2>2 DEF Waits
  <2>3. ASSUME NEW t \in Accepted,
               \/ FinalizeFailure(t, "ERROR", "none", "PROVIDER_NOT_SENT")
               \/ FinalizeFailure(t, "ERROR", "ERROR", "PAYMENT_TOKEN_REJECTED")
        PROVE Waits
    <3>1. "ERROR" \in FailureStatus
      BY DEF FailureStatus, FinalStatus, PaymentStatus
    <3> QED BY <2>3, <3>1 DEF Waits
  <2>4. ASSUME NEW t \in Accepted, NEW status \in FinalStatus, FinalizeAgain(t, status)
        PROVE Quiet /\ IdsKept({})
    BY <2>4, AgainKind
  <2>5. CASE Consumed \/ Released
    BY <2>5, SettledKind
  <2> QED BY <1>4, <2>1, <2>2, <2>3, <2>4, <2>5 DEF Settling
<1> QED BY <1>1, <1>2, <1>3, <1>4 DEF Next


-----------------------------------------------------------------------------
(* Types, the waiting mutation, and what the maps agree on                 *)

\* The catalog's answer moves counters by one, never below zero, and the mutation
\* that waits for it remembers what it checked.
LEMMA WaitsFacts ==
  ASSUME Inv, Waits
  PROVE  /\ UNCHANGED maps /\ busy = Idle
         /\ product' \in [onHand : Nat, reserved : Nat, available : Nat]
         /\ busy' \in Awaiting /\ BusyInv'
         /\ \/ /\ busy'.op = "reserved" /\ product'.onHand = product.onHand
               /\ product'.reserved = product.reserved + 1
               /\ product'.available = product.available - 1
            \/ /\ busy'.op = "consumed" /\ product'.onHand = product.onHand - 1
               /\ product'.reserved = product.reserved - 1
               /\ product'.available = product.available
            \/ /\ busy'.op = "released" /\ product'.onHand = product.onHand
               /\ product'.reserved = product.reserved - 1
               /\ product'.available = product.available + 1
<1>0. /\ product \in [onHand : Nat, reserved : Nat, available : Nat]
      /\ product.onHand \in Nat /\ product.reserved \in Nat /\ product.available \in Nat
  BY Tables
<1>1. ASSUME NEW c \in Checkouts, NEW k \in Keys, NEW t \in Txns, NEW v \in 1 .. MaxVersion,
             PreparePayment(c, k, t, v)
      PROVE  /\ UNCHANGED maps /\ busy = Idle
             /\ product' \in [onHand : Nat, reserved : Nat, available : Nat]
             /\ busy' \in Awaiting /\ BusyInv'
             /\ busy'.op = "reserved" /\ product'.onHand = product.onHand
             /\ product'.reserved = product.reserved + 1
             /\ product'.available = product.available - 1
  <2>1. /\ product' = [product EXCEPT !.reserved = @ + 1, !.available = @ - 1]
        /\ product.available >= 1
        /\ UNCHANGED maps /\ busy = Idle
    BY <1>1 DEF PreparePayment, HasUnit
  <2>2. /\ product' \in [onHand : Nat, reserved : Nat, available : Nat]
        /\ product'.onHand = product.onHand /\ product'.reserved = product.reserved + 1
        /\ product'.available = product.available - 1
    <3>1. /\ product.onHand \in Nat /\ product.reserved + 1 \in Nat
          /\ product.available - 1 \in Nat
      BY <1>0, <2>1
    <3>2. product' = [onHand |-> product.onHand, reserved |-> product.reserved + 1,
                      available |-> product.available - 1]
      BY <1>0, <2>1
    <3> QED BY <3>1, <3>2
  <2>3. busy' = [op |-> "reserved", c |-> c, k |-> k, t |-> t, version |-> v]
    BY <1>1 DEF PreparePayment
  <2>4. busy' \in Awaiting
    BY <2>3 DEF Awaiting
  <2>5. IsAt(c, v)' /\ transactions'[t] = NULL /\ idempotency'[c][k] = NULL
    BY <1>1, <2>1 DEF PreparePayment, IsAt, maps
  <2>6. /\ busy'.op = "reserved" /\ busy'.c = c /\ busy'.k = k /\ busy'.t = t
        /\ busy'.version = v
    BY <2>3
  <2>7. BusyInv'
    BY <2>5, <2>6 DEF BusyInv, IsAt
  <2> QED BY <2>1, <2>2, <2>4, <2>6, <2>7
<1>2. ASSUME NEW t \in Accepted, FinalizeApproved(t)
      PROVE  /\ UNCHANGED maps /\ busy = Idle
             /\ product' \in [onHand : Nat, reserved : Nat, available : Nat]
             /\ busy' \in Awaiting /\ BusyInv'
             /\ busy'.op = "consumed" /\ product'.onHand = product.onHand - 1
             /\ product'.reserved = product.reserved - 1
             /\ product'.available = product.available
  <2>1. /\ product' = [product EXCEPT !.onHand = @ - 1, !.reserved = @ - 1]
        /\ product.onHand >= 1 /\ product.reserved >= 1
        /\ UNCHANGED maps /\ busy = Idle /\ busy' = [op |-> "consumed", t |-> t]
    BY <1>0, <1>2 DEF FinalizeApproved, LacksItsUnit
  <2>2. /\ product' \in [onHand : Nat, reserved : Nat, available : Nat]
        /\ product'.onHand = product.onHand - 1 /\ product'.reserved = product.reserved - 1
        /\ product'.available = product.available
    <3>1. /\ product.onHand - 1 \in Nat /\ product.reserved - 1 \in Nat
          /\ product.available \in Nat
      BY <1>0, <2>1
    <3>2. product' = [onHand |-> product.onHand - 1, reserved |-> product.reserved - 1,
                      available |-> product.available]
      BY <1>0, <2>1
    <3> QED BY <3>1, <3>2
  <2>3. t \in Txns /\ Pending(t)'
    BY <1>2, <2>1 DEF FinalizeApproved, Pending, maps, Accepted
  <2>4. busy' \in Awaiting /\ busy'.op = "consumed" /\ busy'.t = t
    BY <2>1, <2>3 DEF Awaiting
  <2>5. BusyInv'
    BY <2>3, <2>4 DEF BusyInv, Pending
  <2> QED BY <2>1, <2>2, <2>4, <2>5
<1>3. ASSUME NEW t \in Accepted, NEW status \in FailureStatus,
             NEW providerStatus \in FailureStatus \cup {"none"},
             NEW recovery \in {"none", "PROVIDER_NOT_SENT", "PAYMENT_TOKEN_REJECTED"},
             FinalizeFailure(t, status, providerStatus, recovery)
      PROVE  /\ UNCHANGED maps /\ busy = Idle
             /\ product' \in [onHand : Nat, reserved : Nat, available : Nat]
             /\ busy' \in Awaiting /\ BusyInv'
             /\ busy'.op = "released" /\ product'.onHand = product.onHand
             /\ product'.reserved = product.reserved - 1
             /\ product'.available = product.available + 1
  <2>1. /\ product' = [product EXCEPT !.reserved = @ - 1, !.available = @ + 1]
        /\ product.reserved >= 1
        /\ UNCHANGED maps /\ busy = Idle
    BY <1>3 DEF FinalizeFailure
  <2>2. /\ product' \in [onHand : Nat, reserved : Nat, available : Nat]
        /\ product'.onHand = product.onHand /\ product'.reserved = product.reserved - 1
        /\ product'.available = product.available + 1
    <3>1. /\ product.onHand \in Nat /\ product.reserved - 1 \in Nat
          /\ product.available + 1 \in Nat
      BY <1>0, <2>1
    <3>2. product' = [onHand |-> product.onHand, reserved |-> product.reserved - 1,
                      available |-> product.available + 1]
      BY <1>0, <2>1
    <3> QED BY <3>1, <3>2
  <2>3. t \in Txns /\ Pending(t)'
    BY <1>3, <2>1 DEF FinalizeFailure, Pending, maps, Accepted
  <2>4. busy' = [op |-> "released", t |-> t, status |-> status,
                 providerStatus |-> providerStatus, recovery |-> recovery]
    BY <1>3 DEF FinalizeFailure
  <2>5. busy' \in Awaiting /\ busy'.op = "released" /\ busy'.t = t
    BY <2>3, <2>4 DEF Awaiting
  <2>6. BusyInv'
    BY <2>3, <2>5 DEF BusyInv, Pending
  <2> QED BY <2>1, <2>2, <2>5, <2>6
<1> QED BY <1>1, <1>2, <1>3 DEF Waits

\* A settlement closes the checkout of its payment and no other.
LEMMA ClosedFacts ==
  ASSUME Inv, NEW t \in Accepted, NEW status, Closed(t, status)
  PROVE  LET c == transactions[t].checkout
         IN  /\ c \in Checkouts /\ checkouts[c] \in Checkout /\ checkouts[c].active = t
             /\ checkouts' \in [Checkouts -> Checkout \cup {NULL}]
             /\ checkouts'[c] \in Checkout /\ checkouts'[c].active = t
             /\ checkouts'[c].status = CheckoutStatusForPayment(status)
             /\ \A d \in Checkouts \ {c} : checkouts'[d] = checkouts[d]
<1> DEFINE c == transactions[t].checkout
           row == [checkouts[c] EXCEPT !.status = CheckoutStatusForPayment(status)]
<1>1. c \in Checkouts
  BY Tables DEF Transaction
<1>2. checkouts[c] \in Checkout /\ checkouts[c].active = t
  BY <1>1, Tables DEF Inv, AgreeInv, Agrees
<1>3. row \in Checkout /\ row.active = t /\ row.status = CheckoutStatusForPayment(status)
  <2>1. CheckoutStatusForPayment(status) \in CheckoutStatus
    BY DEF CheckoutStatusForPayment, CheckoutStatus
  <2> QED BY <1>2, <2>1 DEF Checkout
<1>4. checkouts' = [checkouts EXCEPT ![c] = row]
  BY DEF Closed, CheckoutOf
<1> HIDE DEF row
<1> QED BY <1>1, <1>2, <1>3, <1>4, Tables

\* Every table keeps its type.
LEMMA TypeStep == ASSUME Inv, Next PROVE TypeInv'
<1>0. TypeInv /\ busy \in Awaiting
  BY Tables DEF Inv
<1>1. Idle \in Awaiting /\ Idle.op = "none"
  BY DEF Idle, Awaiting
<1>2. ASSUME NEW c \in Checkouts, Drafts(c) PROVE TypeInv'
  BY <1>0, <1>1, <1>2 DEF Drafts, TypeInv, TypeOK
<1>3. CASE Waits
  <2>1. busy'.op \in {"none", "reserved", "consumed", "released"}
    BY <1>3, WaitsFacts
  <2> QED BY <1>0, <1>3, <2>1, WaitsFacts DEF TypeInv, TypeOK, maps
<1>4. ASSUME NEW c \in Checkouts, NEW k \in Keys, NEW t \in Txns, Accepts(c, k, t)
      PROVE TypeInv'
  <2>1. checkouts' \in [Checkouts -> Checkout \cup {NULL}]
    BY <1>0, <1>4 DEF Accepts, TypeInv, TypeOK
  <2>2. transactions' \in [Txns -> Transaction \cup {NULL}]
    BY <1>0, <1>4 DEF Accepts, TypeInv, TypeOK
  <2>3. idempotency' \in [Checkouts -> [Keys -> IdempotencyRecord \cup {NULL}]]
    <3>1. idempotency \in [Checkouts -> [Keys -> IdempotencyRecord \cup {NULL}]]
      BY <1>0 DEF TypeInv, TypeOK
    <3>2. PICK record \in IdempotencyRecord :
            idempotency' = [idempotency EXCEPT ![c][k] = record]
      BY <1>4 DEF Accepts
    <3> QED BY <3>1, <3>2
  <2> QED BY <1>0, <1>1, <1>4, <2>1, <2>2, <2>3 DEF Accepts, TypeInv, TypeOK
<1>5. CASE Quiet
  BY <1>0, <1>5 DEF Quiet, TypeInv, TypeOK
<1>6. ASSUME NEW t \in Accepted, NEW status, NEW reservation, Settles(t, status, reservation),
             deliveries' \subseteq deliveries \cup {t}
      PROVE TypeInv'
  <2>1. checkouts' \in [Checkouts -> Checkout \cup {NULL}]
    BY <1>6, ClosedFacts DEF Settles
  <2>2. transactions' \in [Txns -> Transaction \cup {NULL}] /\ t \in Txns
    BY <1>0, <1>6 DEF Settles, TypeInv, TypeOK, Accepted
  <2> QED BY <1>0, <1>1, <1>6, <2>1, <2>2 DEF Settles, TypeInv, TypeOK
<1> QED BY <1>2, <1>3, <1>4, <1>5, <1>6, StepKinds DEF Sells, Refunds

\* What a mutation checked still holds when it resumes.
LEMMA BusyStep == ASSUME Inv, Next PROVE BusyInv'
<1>1. CASE busy' = Idle
  BY <1>1 DEF BusyInv, Idle
<1>2. CASE Waits
  BY <1>2, WaitsFacts
<1>3. CASE Quiet
  <2>1. busy \in Awaiting /\ BusyInv
    BY Tables DEF Inv
  <2>2. busy.op = "reserved" => IsAt(busy.c, busy.version)' /\ transactions'[busy.t] = NULL
    BY <1>3, <2>1, BusyFields DEF Quiet, BusyInv, IsAt
  <2>3. ASSUME busy.op \in {"consumed", "released"} PROVE Pending(busy.t)'
    <3>1. busy.t \in Accepted /\ transactions[busy.t].paymentStatus = "PENDING"
      BY <2>1, <2>3, BusyFields DEF BusyInv, Pending, IsTerminalPayment, Accepted
    <3>2. /\ transactions'[busy.t] \in Transaction
          /\ transactions'[busy.t].paymentStatus = "PENDING" /\ busy' = busy
      BY <1>3, <3>1 DEF Quiet
    <3> QED BY <3>2, NullAssumption DEF Pending, IsTerminalPayment
  <2> QED BY <1>3, <2>1, <2>2, <2>3 DEF Quiet, BusyInv, IsAt
<1> QED BY <1>1, <1>2, <1>3, StepKinds DEF Drafts, Accepts, Sells, Refunds, Settles

\* The maps still agree on a payment whose row, checkout and keys did not change.
LEMMA AgreesElsewhere ==
  ASSUME Inv, NEW u \in Accepted, transactions'[u] = transactions[u],
         checkouts'[transactions[u].checkout] = checkouts[transactions[u].checkout],
         u \in deliveries' <=> u \in deliveries,
         \A k \in Keys : idempotency[transactions[u].checkout][k] # NULL =>
           idempotency'[transactions[u].checkout][k] = idempotency[transactions[u].checkout][k]
  PROVE  Agrees(u)' /\ Named(u)'
<1>1. Agrees(u) /\ Named(u)
  BY DEF Inv, AgreeInv
<1> QED BY <1>1 DEF Agrees, Named

\* The maps agree after every step.
LEMMA AgreeStep == ASSUME Inv, Next PROVE AgreeInv'
<1>0. /\ checkouts \in [Checkouts -> Checkout \cup {NULL}]
      /\ transactions \in [Txns -> Transaction \cup {NULL}]
      /\ idempotency \in [Checkouts -> [Keys -> IdempotencyRecord \cup {NULL}]]
      /\ deliveries \subseteq Accepted /\ NULL \notin Txns
      /\ \A t \in Accepted : transactions[t] \in Transaction
  BY Tables, InMemoryAssumption
<1>1. \A t \in Accepted :
        /\ Agrees(t) /\ Named(t) /\ t \in Txns
        /\ transactions[t].checkout \in Checkouts
        /\ checkouts[transactions[t].checkout] # NULL
        /\ checkouts[transactions[t].checkout].active = t
  <2> TAKE t \in Accepted
  <2>1. Agrees(t) /\ Named(t) /\ transactions[t] \in Transaction
    BY <1>0 DEF Inv, AgreeInv
  <2> QED BY <2>1 DEF Agrees, Transaction, Accepted
<1>2. ASSUME NEW c \in Checkouts, Drafts(c) PROVE AgreeInv'
  <2>1. ASSUME NEW t \in Accepted PROVE Agrees(t)' /\ Named(t)'
    <3>1. transactions[t].checkout # c
      BY <1>0, <1>1, <1>2 DEF Drafts
    <3>2. checkouts'[transactions[t].checkout] = checkouts[transactions[t].checkout]
      BY <1>0, <1>1, <1>2, <3>1 DEF Drafts
    <3> QED BY <1>2, <3>2, AgreesElsewhere DEF Drafts
  <2> QED BY <1>0, <1>2, <2>1 DEF Drafts, AgreeInv, Accepted
<1>3. CASE Waits
  <2>1. UNCHANGED <<checkouts, transactions, deliveries, idempotency>>
    BY <1>3, WaitsFacts DEF maps
  <2>2. ASSUME NEW t \in Accepted PROVE Agrees(t)' /\ Named(t)'
    BY <2>1, AgreesElsewhere
  <2> QED BY <1>0, <2>1, <2>2 DEF AgreeInv, Accepted
<1>4. ASSUME NEW c \in Checkouts, NEW k \in Keys, NEW t \in Txns, Accepts(c, k, t)
      PROVE AgreeInv'
  <2>1. /\ transactions'[t].checkout = c /\ checkouts'[c] \in Checkout
        /\ transactions'[t] \in Transaction
        /\ transactions'[t].paymentStatus = "PENDING"
        /\ transactions'[t].reservationStatus = "ACTIVE"
        /\ transactions'[t].effectsApplied = FALSE /\ deliveries' = deliveries
        /\ checkouts'[c].active = t /\ checkouts'[c].status = "PAYMENT_PENDING"
        /\ idempotency'[c][k] \in IdempotencyRecord /\ idempotency'[c][k].transaction = t
    BY <1>4 DEF Accepts
  <2>2. t \notin Accepted /\ t \notin deliveries
    BY <1>0, <1>4 DEF Accepts, Accepted
  <2>3. Agrees(t)'
    BY <2>1, <2>2, NullAssumption
    DEF Agrees, CheckoutStatusForPayment, FailureStatus, FinalStatus
  <2>4. Named(t)'
    BY <2>1, NullAssumption DEF Named
  <2>5. Accepted' = Accepted \cup {t}
    BY <1>0, <1>4, <2>1, NullAssumption DEF Accepts, Accepted
  <2>6. ASSUME NEW u \in Accepted PROVE Agrees(u)' /\ Named(u)'
    <3>1. transactions[u].checkout # c /\ u # t
      BY <1>0, <1>1, <1>4, <2>2 DEF Accepts
    <3>2. /\ checkouts'[transactions[u].checkout] = checkouts[transactions[u].checkout]
          /\ transactions'[u] = transactions[u]
          /\ idempotency'[transactions[u].checkout] = idempotency[transactions[u].checkout]
      BY <1>0, <1>1, <1>4, <3>1 DEF Accepts
    <3> QED BY <2>1, <3>2, AgreesElsewhere
  <2> QED BY <1>0, <2>1, <2>3, <2>4, <2>5, <2>6 DEF AgreeInv
<1>5. CASE Quiet
  <2>1. Accepted' = Accepted
    BY <1>0, <1>5, NullAssumption DEF Quiet, Accepted
  <2>2. ASSUME NEW t \in Accepted PROVE Agrees(t)' /\ Named(t)'
    <3>1. Agrees(t) /\ Named(t)
      BY <1>1
    <3>2. /\ transactions'[t].checkout = transactions[t].checkout
          /\ transactions'[t].paymentStatus = transactions[t].paymentStatus
          /\ transactions'[t].reservationStatus = transactions[t].reservationStatus
          /\ transactions'[t].effectsApplied = transactions[t].effectsApplied
          /\ UNCHANGED <<checkouts, deliveries, idempotency>>
      BY <1>5 DEF Quiet
    <3>3. Agrees(t)'
      BY <3>1, <3>2 DEF Agrees
    <3>4. Named(t)'
      BY <3>1, <3>2 DEF Named
    <3> QED BY <3>3, <3>4
  <2> QED BY <1>0, <1>5, <2>1, <2>2 DEF Quiet, AgreeInv
<1>6. ASSUME NEW t \in Accepted, NEW status, NEW reservation, Settles(t, status, reservation),
             \/ /\ status = "APPROVED" /\ reservation = "CONSUMED"
                /\ deliveries' = deliveries \cup {t}
             \/ /\ status \in FailureStatus /\ reservation = "RELEASED"
                /\ deliveries' = deliveries
      PROVE AgreeInv'
  <2> DEFINE c == transactions[t].checkout
  <2>1. /\ transactions'[t].checkout = c /\ transactions'[t] \in Transaction
        /\ transactions'[t].paymentStatus = status
        /\ transactions'[t].reservationStatus = reservation
        /\ transactions'[t].effectsApplied = TRUE
        /\ idempotency' = idempotency /\ transactions[t].paymentStatus = "PENDING"
    BY <1>6 DEF Settles
  <2>2. /\ checkouts'[c] \in Checkout /\ checkouts'[c].active = t
        /\ checkouts'[c].status = CheckoutStatusForPayment(status)
        /\ \A d \in Checkouts \ {c} : checkouts'[d] = checkouts[d]
    BY <1>6, ClosedFacts DEF Settles
  <2>3. Accepted' = Accepted
    BY <1>0, <1>1, <1>6, <2>1, NullAssumption DEF Settles, Accepted
  <2>4. t \notin deliveries
    BY <1>1, <2>1 DEF Agrees
  <2>5. Agrees(t)'
    BY <1>6, <2>1, <2>2, <2>4, NullAssumption
    DEF Agrees, FailureStatus, FinalStatus, PaymentStatus
  <2>6. Named(t)'
    BY <1>1, <2>1 DEF Named
  <2>7. ASSUME NEW u \in Accepted, u # t PROVE Agrees(u)' /\ Named(u)'
    <3>1. transactions[u].checkout # c /\ transactions[u].checkout \in Checkouts
      BY <1>1, <2>7
    <3>2. /\ checkouts'[transactions[u].checkout] = checkouts[transactions[u].checkout]
          /\ transactions'[u] = transactions[u]
      BY <1>0, <1>1, <1>6, <2>2, <2>7, <3>1 DEF Settles
    <3>3. u \in deliveries' <=> u \in deliveries
      BY <1>6, <2>7
    <3> QED BY <2>1, <3>2, <3>3, AgreesElsewhere
  <2> QED BY <1>0, <1>6, <2>3, <2>5, <2>6, <2>7 DEF AgreeInv
<1> QED BY <1>2, <1>3, <1>4, <1>5, <1>6, StepKinds DEF Sells, Refunds

\* The empty store.
LEMMA InvInit == Init => Inv
<1> SUFFICES ASSUME Init PROVE Inv
  OBVIOUS
<1>1. Accepted = {}
  BY DEF Init, Accepted
<1>2. busy \in Awaiting /\ busy.op = "none"
  BY DEF Init, Idle, Awaiting
<1>3. TypeInv
  BY <1>2, InMemoryAssumption DEF Init, TypeInv, TypeOK
<1> QED BY <1>1, <1>2, <1>3 DEF Init, Inv, BusyInv, AgreeInv

\* The invariant holds in every state.
LEMMA InvAlways == Spec => []Inv
<1>1. Inv /\ Next => Inv'
  BY TypeStep, BusyStep, AgreeStep DEF Inv
<1>2. Inv /\ UNCHANGED vars => Inv'
  BY DEF vars, Inv, TypeInv, TypeOK, BusyInv, IsAt, Pending, AgreeInv, Accepted, Agrees, Named
<1> QED BY <1>1, <1>2, InvInit, PTL DEF Spec

\* Every map of the in-memory repositories holds records of the shape the code gives
\* them, also while a mutation waits for the catalog.
THEOREM MapsTypeCorrect == Spec => []TypeOK
<1>1. Inv => TypeOK
  BY DEF Inv, TypeInv
<1> QED BY <1>1, InvAlways, PTL


-----------------------------------------------------------------------------
(* MapsAgree                                                               *)

\* No step gives the id of one payment to another.
LEMMA OwnerStep ==
  ASSUME Inv, Next, OneOwnerPerProviderId
  PROVE  OneOwnerPerProviderId'
<1>0. /\ transactions \in [Txns -> Transaction \cup {NULL}]
      /\ NULL \notin ProviderIds
  BY Tables, InMemoryAssumption
<1>1. CASE UNCHANGED transactions
  BY <1>1 DEF OneOwnerPerProviderId, Accepted
<1>2. ASSUME NEW c \in Checkouts, NEW k \in Keys, NEW t \in Txns, Accepts(c, k, t)
      PROVE OneOwnerPerProviderId'
  <2>1. /\ transactions'[t].providerId = NULL
        /\ \A u \in Txns \ {t} : transactions'[u] = transactions[u]
    BY <1>0, <1>2 DEF Accepts
  <2> QED BY <2>1 DEF OneOwnerPerProviderId, Accepted
<1>3. CASE Quiet /\ IdsKept({})
  <2>1. \A t \in Accepted' :
          t \in Accepted /\ transactions'[t].providerId = transactions[t].providerId
    BY <1>3 DEF Quiet, IdsKept, Accepted
  <2> QED BY <2>1 DEF OneOwnerPerProviderId
<1>4. ASSUME NEW t \in Accepted, NEW id \in ProviderIds, Quiet, Acknowledges(t, id)
      PROVE OneOwnerPerProviderId'
  <2>1. /\ transactions'[t].providerId = id
        /\ \A u \in Accepted \ {t} : transactions[u].providerId # id
        /\ \A u \in Accepted \ {t} : transactions'[u].providerId = transactions[u].providerId
    BY <1>4 DEF Acknowledges, OwnsId, IdsKept
  <2>2. \A u \in Accepted' : u \in Accepted
    BY <1>4 DEF Quiet, Accepted
  <2> QED BY <2>1, <2>2 DEF OneOwnerPerProviderId
<1>5. ASSUME NEW t \in Accepted, NEW status, NEW reservation, Settles(t, status, reservation)
      PROVE OneOwnerPerProviderId'
  <2>1. /\ transactions'[t].providerId = transactions[t].providerId
        /\ \A u \in Txns \ {t} : transactions'[u] = transactions[u]
    BY <1>0, <1>5 DEF Settles
  <2>2. \A u \in Accepted' :
          u \in Accepted /\ transactions'[u].providerId = transactions[u].providerId
    BY <2>1 DEF Accepted
  <2> QED BY <2>2 DEF OneOwnerPerProviderId
<1>6. Waits => UNCHANGED transactions
  BY WaitsFacts DEF maps
<1> QED BY <1>1, <1>2, <1>3, <1>4, <1>5, <1>6, StepKinds DEF Drafts, Sells, Refunds

\* No provider id leads to two payments, in any state.
LEMMA OwnersAlways == Spec => []OneOwnerPerProviderId
<1>1. Init => OneOwnerPerProviderId
  BY DEF Init, OneOwnerPerProviderId, Accepted
<1>2. Inv /\ OneOwnerPerProviderId /\ UNCHANGED vars => OneOwnerPerProviderId'
  BY DEF vars, OneOwnerPerProviderId, Accepted
<1> QED BY <1>1, <1>2, OwnerStep, InvAlways, PTL DEF Spec

\* A query never sees half of a settlement, although queries do not wait for the
\* mutation that awaits the catalog (finalize, findTransaction, findCheckout).
THEOREM MapsAlwaysAgree == Spec => []MapsAgree
<1>1. Inv /\ OneOwnerPerProviderId => MapsAgree
  <2> SUFFICES ASSUME Inv, OneOwnerPerProviderId, NEW t \in Accepted
               PROVE  /\ checkouts[transactions[t].checkout].active = t
                      /\ checkouts[transactions[t].checkout].status
                           = CheckoutStatusForPayment(transactions[t].paymentStatus)
                      /\ t \in deliveries <=> transactions[t].reservationStatus = "CONSUMED"
                      /\ transactions[t].reservationStatus = "CONSUMED"
                           => transactions[t].paymentStatus = "APPROVED"
                      /\ transactions[t].reservationStatus = "RELEASED"
                           <=> transactions[t].paymentStatus \in FailureStatus
                      /\ transactions[t].effectsApplied
                           <=> transactions[t].reservationStatus \in {"CONSUMED", "RELEASED"}
                      /\ \E k \in Keys :
                           /\ idempotency[transactions[t].checkout][k] # NULL
                           /\ idempotency[transactions[t].checkout][k].transaction = t
    BY DEF MapsAgree
  <2>1. Agrees(t) /\ Named(t)
    BY DEF Inv, AgreeInv
  <2> QED BY <2>1 DEF Agrees, Named
<1> QED BY <1>1, InvAlways, OwnersAlways, PTL

-----------------------------------------------------------------------------
(* The catalog's counters                                                  *)

\* The payments that hold or have sold a unit are finitely many.
LEMMA CountedSetsFinite ==
  /\ IsFiniteSet(Holding) /\ Cardinality(Holding) \in Nat
  /\ IsFiniteSet(Sold) /\ Cardinality(Sold) \in Nat
<1>1. Holding \in SUBSET Txns /\ Sold \in SUBSET Txns
  BY DEF Holding, Sold, Accepted
<1>2. IsFiniteSet(Holding) /\ IsFiniteSet(Sold)
  BY <1>1, FS_Subset, InMemoryAssumption
<1> QED BY <1>2, FS_CardinalityType

\* Every step keeps the counters in agreement with the payments.
LEMMA CountersStep ==
  ASSUME Inv, Next, CountersMatchPayments
  PROVE  CountersMatchPayments'
<1>0. /\ transactions \in [Txns -> Transaction \cup {NULL}]
      /\ product.onHand \in Nat /\ product.reserved \in Nat /\ product.available \in Nat
      /\ \A t \in Accepted : transactions[t] \in Transaction
      /\ busy \in Awaiting
  BY Tables
<1>1. CASE UNCHANGED <<product, transactions, busy>>
  BY <1>1 DEF CountersMatchPayments, Holding, Sold, Accepted, One
<1>2. CASE Waits
  <2>1. Holding' = Holding /\ Sold' = Sold
    BY <1>2, WaitsFacts DEF maps, Holding, Sold, Accepted
  <2>2. One("reserved") = 0 /\ One("consumed") = 0 /\ One("released") = 0
    BY <1>2, WaitsFacts DEF One, Idle
  <2>3. \/ /\ One("reserved")' = 1 /\ One("consumed")' = 0 /\ One("released")' = 0
           /\ product'.onHand = product.onHand
           /\ product'.reserved = product.reserved + 1
           /\ product'.available = product.available - 1
        \/ /\ One("reserved")' = 0 /\ One("consumed")' = 1 /\ One("released")' = 0
           /\ product'.onHand = product.onHand - 1
           /\ product'.reserved = product.reserved - 1
           /\ product'.available = product.available
        \/ /\ One("reserved")' = 0 /\ One("consumed")' = 0 /\ One("released")' = 1
           /\ product'.onHand = product.onHand
           /\ product'.reserved = product.reserved - 1
           /\ product'.available = product.available + 1
    BY <1>2, WaitsFacts DEF One
  <2>4. Cardinality(Holding') = Cardinality(Holding) /\ Cardinality(Sold') = Cardinality(Sold)
    BY <2>1
  <2> QED BY <1>0, <2>2, <2>3, <2>4, CountedSetsFinite, InMemoryAssumption
          DEF CountersMatchPayments
<1>3. ASSUME NEW c \in Checkouts, NEW k \in Keys, NEW t \in Txns, Accepts(c, k, t)
      PROVE CountersMatchPayments'
  <2>1. /\ transactions[t] = NULL /\ transactions'[t] # NULL
        /\ transactions'[t].reservationStatus = "ACTIVE"
        /\ \A u \in Txns \ {t} : transactions'[u] = transactions[u]
    BY <1>0, <1>3, NullAssumption DEF Accepts
  <2>2. t \notin Holding /\ Holding' = Holding \cup {t} /\ Sold' = Sold
    BY <2>1 DEF Holding, Sold, Accepted
  <2>3. /\ Cardinality(Holding') = Cardinality(Holding) + 1
        /\ Cardinality(Sold') = Cardinality(Sold)
    BY <2>2, CountedSetsFinite, FS_AddElement
  <2>4. /\ One("reserved") = 1 /\ One("consumed") = 0 /\ One("released") = 0
        /\ One("reserved")' = 0 /\ One("consumed")' = 0 /\ One("released")' = 0
        /\ product' = product
    BY <1>3 DEF Accepts, One, Idle
  <2> QED BY <1>0, <2>3, <2>4, CountedSetsFinite, InMemoryAssumption DEF CountersMatchPayments
<1>4. CASE Quiet
  <2>1. Holding' = Holding /\ Sold' = Sold
    <3>1. Accepted' = Accepted
      BY <1>0, <1>4, NullAssumption DEF Quiet, Accepted
    <3> QED BY <1>4, <3>1 DEF Quiet, Holding, Sold
  <2>2. product' = product /\ busy' = busy
    BY <1>4 DEF Quiet
  <2> QED BY <2>1, <2>2 DEF CountersMatchPayments, One
<1>5. ASSUME NEW t \in Accepted, NEW status, NEW reservation, Settles(t, status, reservation)
      PROVE  /\ t \in Holding /\ t \in Accepted'
             /\ \A u \in Txns \ {t} : transactions'[u] = transactions[u]
             /\ transactions'[t].reservationStatus = reservation
             /\ product' = product
             /\ One("reserved")' = 0 /\ One("consumed")' = 0 /\ One("released")' = 0
  <2>1. transactions[t].reservationStatus = "ACTIVE" /\ t \in Txns
    BY <1>5 DEF Settles, Inv, AgreeInv, Agrees, Accepted
  <2>2. transactions'[t] # NULL
    BY <1>5, NullAssumption DEF Settles
  <2>3. busy' = Idle /\ product' = product /\ transactions'[t].reservationStatus = reservation
    BY <1>5 DEF Settles
  <2>4. \A u \in Txns \ {t} : transactions'[u] = transactions[u]
    BY <1>0, <1>5 DEF Settles
  <2> QED BY <1>5, <2>1, <2>2, <2>3, <2>4 DEF Holding, Accepted, One, Idle
<1>6. ASSUME NEW t \in Accepted, Sells(t) PROVE CountersMatchPayments'
  <2>1. /\ t \in Holding /\ t \in Accepted' /\ t \in Txns
        /\ \A u \in Txns \ {t} : transactions'[u] = transactions[u]
        /\ transactions'[t].reservationStatus = "CONSUMED" /\ product' = product
        /\ One("reserved")' = 0 /\ One("consumed")' = 0 /\ One("released")' = 0
    BY <1>5, <1>6 DEF Sells, Accepted
  <2>2. /\ Holding' = Holding \ {t}
        /\ t \notin Sold /\ Sold' = Sold \cup {t}
    BY <2>1 DEF Holding, Sold, Accepted
  <2>3. /\ Cardinality(Holding') = Cardinality(Holding) - 1
        /\ Cardinality(Sold') = Cardinality(Sold) + 1
    BY <2>1, <2>2, CountedSetsFinite, FS_AddElement, FS_RemoveElement
  <2>4. One("reserved") = 0 /\ One("consumed") = 1 /\ One("released") = 0
    BY <1>6 DEF Sells, One
  <2> QED BY <1>0, <2>1, <2>3, <2>4, CountedSetsFinite, InMemoryAssumption
          DEF CountersMatchPayments
<1>7. ASSUME NEW t \in Accepted, NEW status \in FailureStatus, Refunds(t, status)
      PROVE CountersMatchPayments'
  <2>1. /\ t \in Holding /\ t \in Accepted' /\ t \in Txns
        /\ \A u \in Txns \ {t} : transactions'[u] = transactions[u]
        /\ transactions'[t].reservationStatus = "RELEASED" /\ product' = product
        /\ One("reserved")' = 0 /\ One("consumed")' = 0 /\ One("released")' = 0
    BY <1>5, <1>7 DEF Refunds, Accepted
  <2>2. Holding' = Holding \ {t} /\ Sold' = Sold
    BY <2>1 DEF Holding, Sold, Accepted
  <2>3. /\ Cardinality(Holding') = Cardinality(Holding) - 1
        /\ Cardinality(Sold') = Cardinality(Sold)
    BY <2>1, <2>2, CountedSetsFinite, FS_RemoveElement
  <2>4. One("reserved") = 0 /\ One("consumed") = 0 /\ One("released") = 1
    BY <1>7 DEF Refunds, One
  <2> QED BY <1>0, <2>1, <2>3, <2>4, CountedSetsFinite, InMemoryAssumption
          DEF CountersMatchPayments
<1> QED BY <1>1, <1>2, <1>3, <1>4, <1>6, <1>7, StepKinds DEF Drafts

\* The counters agree with the payments in every state.
LEMMA CountersAlways == Spec => []CountersMatchPayments
<1>1. Init => CountersMatchPayments
  <2> SUFFICES ASSUME Init PROVE CountersMatchPayments
    OBVIOUS
  <2>1. Holding = {} /\ Sold = {}
    BY DEF Init, Holding, Sold, Accepted
  <2>2. Cardinality(Holding) = 0 /\ Cardinality(Sold) = 0
    BY <2>1, FS_EmptySet
  <2> QED BY <2>2, InMemoryAssumption DEF Init, CountersMatchPayments, One, Idle
<1>2. CountersMatchPayments /\ UNCHANGED vars => CountersMatchPayments'
  BY DEF vars, CountersMatchPayments, Holding, Sold, Accepted, One
<1> QED BY <1>1, <1>2, CountersStep, InvAlways, PTL DEF Spec

\* No approval of a pending payment finds its unit gone: the branch of finalize that
\* approves a payment and ships nothing (approvedInventoryConflict) is dead here.
THEOREM UnitsAreFound == Spec => []ApprovalFindsItsUnit
<1>1. Inv /\ CountersMatchPayments => ApprovalFindsItsUnit
  <2> SUFFICES ASSUME Inv, CountersMatchPayments, busy = Idle,
                      NEW t \in Accepted, Pending(t)
               PROVE  ~LacksItsUnit(t)
    BY DEF ApprovalFindsItsUnit
  <2>1. transactions[t].reservationStatus = "ACTIVE"
    BY DEF Inv, AgreeInv, Agrees, Pending, IsTerminalPayment
  <2>2. t \in Holding
    BY <2>1 DEF Holding
  <2>3. Cardinality(Holding) >= 1
    <3>1. Cardinality(Holding) # 0
      BY <2>2, CountedSetsFinite, FS_EmptySet
    <3> QED BY <3>1, CountedSetsFinite
  <2>4. /\ product.onHand \in Nat /\ product.reserved \in Nat /\ product.available \in Nat
    BY Tables
  <2>5. One("reserved") = 0 /\ One("consumed") = 0 /\ One("released") = 0
    BY DEF One, Idle
  <2>6. product.reserved >= 1 /\ product.onHand >= 1
    BY <2>3, <2>4, <2>5, CountedSetsFinite DEF CountersMatchPayments
  <2> QED BY <2>1, <2>4, <2>6 DEF LacksItsUnit
<1> QED BY <1>1, InvAlways, CountersAlways, PTL

-----------------------------------------------------------------------------
(* The promise                                                             *)

\* The value PaymentPromise's attempt takes.
AttemptOf(c) == IF checkouts[c] = NULL THEN NULL ELSE checkouts[c].active

\* ... and free.
Free == product.available + One("reserved") - One("released")

\* The outcome of a payment, case by case ...
LEMMA OutcomeCases ==
  ASSUME NEW t
  PROVE  /\ transactions[t] = NULL => OutcomeOf(t) = "none"
         /\ transactions[t] # NULL =>
              OutcomeOf(t) = CASE transactions[t].paymentStatus = "PENDING" -> "pending"
                               [] transactions[t].paymentStatus = "APPROVED" ->
                                    IF transactions[t].effectsApplied THEN "sold" ELSE "review"
                               [] OTHER -> "failed"
  BY DEF OutcomeOf, Pending, IsTerminalPayment

\* ... and the same of the next state.
LEMMA OutcomeCasesNext ==
  ASSUME NEW t
  PROVE  /\ transactions'[t] = NULL => OutcomeOf(t)' = "none"
         /\ transactions'[t] # NULL =>
              OutcomeOf(t)' = CASE transactions'[t].paymentStatus = "PENDING" -> "pending"
                                [] transactions'[t].paymentStatus = "APPROVED" ->
                                     IF transactions'[t].effectsApplied THEN "sold" ELSE "review"
                                [] OTHER -> "failed"
  BY DEF OutcomeOf, Pending, IsTerminalPayment

\* The outcome of a payment depends on its row alone.
LEMMA OutcomeSame ==
  ASSUME NEW t, transactions'[t] = transactions[t]
  PROVE  OutcomeOf(t)' = OutcomeOf(t)
  BY DEF OutcomeOf, Pending

\* A settlement leaves every checkout's slot and every other payment's outcome.
LEMMA SettlesOneOutcome ==
  ASSUME Inv, NEW t \in Accepted, NEW status, NEW reservation,
         Settles(t, status, reservation)
  PROVE  /\ \A c \in Checkouts : AttemptOf(c)' = AttemptOf(c)
         /\ \A u \in Txns : u # t => OutcomeOf(u)' = OutcomeOf(u)
         /\ OutcomeOf(t) = "pending" /\ t \in Txns
         /\ transactions'[t] # NULL /\ transactions'[t].paymentStatus = status
         /\ transactions'[t].effectsApplied = TRUE
<1>0. transactions \in [Txns -> Transaction \cup {NULL}]
  BY Tables
<1>1. \A c \in Checkouts : AttemptOf(c)' = AttemptOf(c)
  BY ClosedFacts, NullAssumption DEF Settles, AttemptOf
<1>2. ASSUME NEW u \in Txns, u # t PROVE OutcomeOf(u)' = OutcomeOf(u)
  <2>1. transactions'[u] = transactions[u]
    BY <1>0, <1>2 DEF Settles
  <2> QED BY <2>1, OutcomeSame
<1>3. OutcomeOf(t) = "pending" /\ t \in Txns
  BY OutcomeCases DEF Settles, Accepted
<1>4. /\ transactions'[t] # NULL /\ transactions'[t].paymentStatus = status
      /\ transactions'[t].effectsApplied = TRUE
  BY NullAssumption DEF Settles
<1> QED BY <1>1, <1>2, <1>3, <1>4

\* Each step of the repositories is one step of the promise, or none.
LEMMA PromiseStep ==
  ASSUME Inv, [Next]_vars
  PROVE  [Promise!PromiseNext]_(Promise!vars)
<1>0. /\ checkouts \in [Checkouts -> Checkout \cup {NULL}]
      /\ transactions \in [Txns -> Transaction \cup {NULL}]
      /\ product.available \in Nat /\ busy \in Awaiting
  BY Tables
<1>1. CASE UNCHANGED vars
  BY <1>1 DEF vars, Promise!vars, OutcomeOf, Pending, One
<1>2. ASSUME NEW c \in Checkouts, Drafts(c) PROVE UNCHANGED Promise!vars
  <2>1. \A d \in Checkouts : AttemptOf(d)' = AttemptOf(d)
    BY <1>0, <1>2, NullAssumption DEF Drafts, AttemptOf
  <2>2. \A t \in Txns : OutcomeOf(t)' = OutcomeOf(t)
    BY <1>2, OutcomeSame DEF Drafts
  <2>3. UNCHANGED <<Free, deliveries>>
    BY <1>2 DEF Drafts, Free, One
  <2> QED BY <2>1, <2>2, <2>3 DEF Promise!vars, AttemptOf, Free
<1>3. CASE Waits
  <2>1. UNCHANGED <<checkouts, transactions, deliveries>>
    BY <1>3, WaitsFacts DEF maps
  <2>2. \A d \in Checkouts : AttemptOf(d)' = AttemptOf(d)
    BY <2>1 DEF AttemptOf
  <2>3. \A t \in Txns : OutcomeOf(t)' = OutcomeOf(t)
    BY <2>1, OutcomeSame
  <2>4. Free' = Free
    <3>1. One("reserved") = 0 /\ One("released") = 0
      BY <1>3, WaitsFacts DEF One, Idle
    <3>2. \/ /\ One("reserved")' = 1 /\ One("released")' = 0
             /\ product'.available = product.available - 1
          \/ /\ One("reserved")' = 0 /\ One("released")' = 0
             /\ product'.available = product.available
          \/ /\ One("reserved")' = 0 /\ One("released")' = 1
             /\ product'.available = product.available + 1
      BY <1>3, WaitsFacts DEF One
    <3> QED BY <1>0, <3>1, <3>2 DEF Free
  <2> QED BY <2>1, <2>2, <2>3, <2>4 DEF Promise!vars, AttemptOf, Free
<1>4. ASSUME NEW c \in Checkouts, NEW k \in Keys, NEW t \in Txns, Accepts(c, k, t)
      PROVE Promise!Accept(c, t)
  <2>1. \A d \in Checkouts : AttemptOf(d)' = IF d = c THEN t ELSE AttemptOf(d)
    BY <1>0, <1>4, NullAssumption DEF Accepts, AttemptOf
  <2>2. AttemptOf(c) = NULL
    BY <1>4 DEF Accepts, AttemptOf
  <2>3. transactions'[t] # NULL /\ transactions'[t].paymentStatus = "PENDING"
        /\ transactions[t] = NULL
    BY <1>4, NullAssumption DEF Accepts
  <2>4. OutcomeOf(t) = "none" /\ OutcomeOf(t)' = "pending"
    BY <2>3, OutcomeCases, OutcomeCasesNext
  <2>5. ASSUME NEW u \in Txns, u # t PROVE OutcomeOf(u)' = OutcomeOf(u)
    <3>1. transactions'[u] = transactions[u]
      BY <1>0, <1>4, <2>5 DEF Accepts
    <3> QED BY <3>1, OutcomeSame
  <2>6. Free > 0 /\ Free' = Free - 1 /\ deliveries' = deliveries
    BY <1>0, <1>4 DEF Accepts, Free, One, Idle
  <2> QED BY <2>1, <2>2, <2>4, <2>5, <2>6 DEF Promise!Accept, AttemptOf, Free
<1>5. CASE Quiet
  <2>1. ASSUME NEW t \in Txns PROVE OutcomeOf(t)' = OutcomeOf(t)
    <3>1. CASE transactions[t] = NULL
      BY <1>5, <3>1, OutcomeCases, OutcomeCasesNext DEF Quiet
    <3>2. CASE transactions[t] # NULL
      <4>1. /\ transactions'[t] # NULL
            /\ transactions'[t].paymentStatus = transactions[t].paymentStatus
            /\ transactions'[t].effectsApplied = transactions[t].effectsApplied
        BY <1>5, <3>2, NullAssumption DEF Quiet, Accepted
      <4> QED BY <3>2, <4>1, OutcomeCases, OutcomeCasesNext
    <3> QED BY <3>1, <3>2
  <2>2. UNCHANGED <<checkouts, deliveries, product, busy>>
    BY <1>5 DEF Quiet
  <2> QED BY <2>1, <2>2 DEF Promise!vars, One
<1>6. ASSUME NEW t \in Accepted, Sells(t) PROVE Promise!Sell(t)
  <2>1. /\ \A c \in Checkouts : AttemptOf(c)' = AttemptOf(c)
        /\ \A u \in Txns : u # t => OutcomeOf(u)' = OutcomeOf(u)
        /\ OutcomeOf(t) = "pending" /\ t \in Txns
        /\ transactions'[t] # NULL /\ transactions'[t].paymentStatus = "APPROVED"
        /\ transactions'[t].effectsApplied = TRUE
    BY <1>6, SettlesOneOutcome DEF Sells
  <2>2. OutcomeOf(t)' = "sold"
    BY <2>1, OutcomeCasesNext
  <2>3. Free' = Free /\ deliveries' = deliveries \cup {t}
    BY <1>6 DEF Sells, Settles, Free, One, Idle
  <2> QED BY <2>1, <2>2, <2>3 DEF Promise!Sell, AttemptOf, Free
<1>7. ASSUME NEW t \in Accepted, NEW status \in FailureStatus, Refunds(t, status)
      PROVE Promise!Fail(t)
  <2>1. /\ \A c \in Checkouts : AttemptOf(c)' = AttemptOf(c)
        /\ \A u \in Txns : u # t => OutcomeOf(u)' = OutcomeOf(u)
        /\ OutcomeOf(t) = "pending" /\ t \in Txns
        /\ transactions'[t] # NULL /\ transactions'[t].paymentStatus = status
    BY <1>7, SettlesOneOutcome DEF Refunds
  <2>2. status # "PENDING" /\ status # "APPROVED"
    BY DEF FailureStatus, FinalStatus
  <2>3. OutcomeOf(t)' = "failed"
    BY <2>1, <2>2, OutcomeCasesNext
  <2>4. Free' = Free + 1 /\ deliveries' = deliveries
    BY <1>0, <1>7 DEF Refunds, Settles, Free, One, Idle
  <2> QED BY <2>1, <2>3, <2>4 DEF Promise!Fail, AttemptOf, Free
<1> QED
  BY <1>1, <1>2, <1>3, <1>4, <1>5, <1>6, <1>7, StepKinds DEF Promise!PromiseNext, Accepted

\* The demo's repositories keep the promise of the production ones: seen through the
\* refinement mapping they only accept, sell or fail one payment at a time, although
\* they change the catalog and their maps in two steps.
THEOREM DemoKeepsPromise == Spec => KeepsPromise
<1>1. Init => Promise!PromiseInit
  <2> SUFFICES ASSUME Init PROVE Promise!PromiseInit
    OBVIOUS
  <2>1. product.available + One("reserved") - One("released") = Stock
    BY InMemoryAssumption DEF Init, One, Idle
  <2>2. \A t \in Txns : OutcomeOf(t) = "none"
    BY OutcomeCases DEF Init
  <2>3. /\ [c \in Checkouts |-> IF checkouts[c] = NULL THEN NULL ELSE checkouts[c].active]
             = [c \in Checkouts |-> NULL]
        /\ deliveries = {}
    BY DEF Init
  <2> QED BY <2>1, <2>2, <2>3 DEF Promise!PromiseInit
<1> QED BY <1>1, PromiseStep, InvAlways, PTL DEF Spec, KeepsPromise, Promise!PromiseSpec

=============================================================================
