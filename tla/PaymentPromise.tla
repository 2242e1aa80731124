--------------------------- MODULE PaymentPromise ---------------------------
(***************************************************************************)
(* What the checkout backend promises about money and stock, with no       *)
(* tables, phases, leases or processes: every accepted payment holds one   *)
(* unit of stock, belongs to one checkout, and is settled at most once, in *)
(* one indivisible step that moves the unit and the delivery with it.      *)
(* PaymentStore is shown to implement this specification.                  *)
(***************************************************************************)
EXTENDS Naturals

CONSTANTS Checkouts,  \* checkout sessions
          Txns,       \* payment transactions
          Stock,      \* units on hand at the start
          NULL        \* "no transaction"

VARIABLES free,     \* units nobody holds
          attempt,  \* attempt[c]: the one payment of checkout c, or NULL
          outcome,  \* outcome[t]: where payment t stands
          shipped   \* the payments a delivery exists for

vars == <<free, attempt, outcome, shipped>>

Outcome == {"none", "pending", "sold", "failed", "review"}

PromiseInit ==
    /\ free = Stock
    /\ attempt = [c \in Checkouts |-> NULL]
    /\ outcome = [t \in Txns |-> "none"]
    /\ shipped = {}

\* A payment is accepted: it takes a free unit and its checkout's only slot.
Accept(c, t) ==
    /\ free > 0
    /\ attempt[c] = NULL
    /\ outcome[t] = "none"
    /\ free' = free - 1
    /\ attempt' = [attempt EXCEPT ![c] = t]
    /\ outcome' = [outcome EXCEPT ![t] = "pending"]
    /\ UNCHANGED shipped

\* Approved: the held unit leaves the warehouse and the delivery exists.
Sell(t) ==
    /\ outcome[t] = "pending"
    /\ outcome' = [outcome EXCEPT ![t] = "sold"]
    /\ shipped' = shipped \cup {t}
    /\ UNCHANGED <<free, attempt>>

\* Declined, voided or in error: the held unit is free again, nothing ships.
Fail(t) ==
    /\ outcome[t] = "pending"
    /\ outcome' = [outcome EXCEPT ![t] = "failed"]
    /\ free' = free + 1
    /\ UNCHANGED <<attempt, shipped>>

\* Approved, but the effects could not be applied: kept for a person to review,
\* the unit stays held.
Escalate(t) ==
    /\ outcome[t] = "pending"
    /\ outcome' = [outcome EXCEPT ![t] = "review"]
    /\ UNCHANGED <<free, attempt, shipped>>

PromiseNext ==
    \/ \E c \in Checkouts, t \in Txns : Accept(c, t)
    \/ \E t \in Txns : Sell(t)
    \/ \E t \in Txns : Fail(t)
    \/ \E t \in Txns : Escalate(t)

PromiseSpec == PromiseInit /\ [][PromiseNext]_vars
=============================================================================
