# Formal model of async-checkout-demo

TLA+ specifications of the checkout, backend and browser, and of the watchdog that removes
its prereleases; the TLC configurations that check them on small instances; and TLAPS
proofs of what matters most, for every instance. Paths are relative
to the repository; `service` is `apps/api/src/application/use-cases/checkout-service.ts`,
`repository` is `apps/api/src/infrastructure/persistence/dynamodb-checkout.repository.ts`.

## The system

A buyer drafts a checkout for one product (customer, delivery details), submits a
payment and polls its transaction. The submission is answered 202 once it is
durable; the card charge happens at an external provider, and its outcome may
arrive in the same invocation or be read back later by a scheduled worker.

| Part | State it keeps | Operations | Talks to |
|---|---|---|---|
| Domain (`domain/checkout`, `domain/catalog`) | none | status sets, allowed actions | everything |
| Repository | META, CUSTOMER, DELIVERY_DETAILS, PAYMENT, RESERVATION, DELIVERY, IDEMPOTENCY and lock rows; the product's counters | `create`, two `replace*`, `preparePayment`, `claimDispatch`, `acknowledgeProvider`, `markUnknown`, `finalize`, `claimDue` | DynamoDB |
| Checkout service | none of its own; what an invocation holds between two awaits | `submitPayment`, `reconcileDue`, drafts, queries | repository, provider |
| Worker (`worker.ts`) | one run's batch and read quota | `reconcileDue`, every minute | service |
| Provider adapters | none | `createOnce` (at most one POST), `getById` | external provider |
| In-memory repository | the same rows, in maps | the same port, serialised | nothing |
| Catalog repositories, seed | product row | conditional seed, reads | DynamoDB |
| Sandbox runtime | cached acceptances, one in-flight read | acceptance reader | provider |
| Rate limiter | token buckets | admit or refuse a request | nothing |
| Web checkout | dialog step, ids in storage, card token | save draft, submit, recover | API |
| Transaction polling | timer, attempt, cached answers | poll, consult, stop | API |
| Prerelease watchdog | tags and parameters of CloudFormation stacks | mark, unpublish and delete what has expired, every hour | CloudFormation |
| Release workflow of a prerelease | the same stacks | deploy, activate, restore, mandatory cleanup | CloudFormation |

Interaction: the parts of the backend share nothing but the tables. Invocations of the API Lambda
run concurrently with each other and with the worker. Between any two awaits of one
actor the others may do anything, so every write carries a condition on the rows it
relies on, and what happens after a condition fails is decided from a new read.

What is hard: two submissions of one checkout; the last unit; the worker giving up an
unsent payment while an invocation is about to send it; an outcome that arrives
late, twice, or contradicts an earlier one; a write that was applied although its
answer was lost; a Lambda that stops between any two steps; a settlement spread over
six rows of two tables. In time: a lease that must outlive the invocation it protects,
tokens checked before a wait and used after it, a poll that races its deadline, a clock
that steps back. And two programs that delete the same stacks without knowing of each
other.

What makes it correct, by part:

- repository: counters agree with reservations; the rows of one payment agree;
  a settlement is final; one payment per checkout, per key and per provider id;
- service: the charge is sent at most once; "not sent" and every final status are true
  of the provider; what the buyer is told (202, `START_NEW_CHECKOUT`, the
  delivery's address) is true;
- worker: a decided charge that is known by id is settled in the end, an unsent one
  released; the read quota is kept and shared in turns; no running invocation is disturbed;
- provider adapter: what is posted carries acceptances that are valid when it is posted,
  and "not sent" is reported only if nothing was;
- in-memory adapters: the same promise as the tables, and no query sees half a settlement;
- rate limiter: no identity beats its policy, and `Retry-After` is long enough;
- web: a card is posted once; what is paid is what was on screen; a pending payment
  is never lost from sight, and is shown to a buyer who comes back; polls keep to their
  window and never become a tight loop;
- watchdog: what is left of a group can be taken up by the next run, nothing is deleted
  while it is published, and what has expired is removed.

## Modules

| Module | Models |
|---|---|
| `CheckoutDomain` | `checkout.ts`: statuses, `checkoutStatusForPayment`, `allowedActionsFor` |
| `PaymentPromise` | abstract specification: accept, sell, fail, escalate; no tables, phases or processes |
| `PaymentStore` | the rows, and each conditional write of the repository as one action |
| `CheckoutPayment` | `submitPayment` and `reconcileDue`, one DynamoDB or provider request per step, with the provider, the clock and failures; EXTENDS `PaymentStore` |
| `CheckoutDialog` | the web client: slice, storage, dialog, saves, submissions, reloads, against an atomic API |
| `ReconcileBatch` | the worker's batches in time: lease, backoff, index order, schedule, quota |
| `SandboxProvider` | `createOnce` in time, over the acceptance reader and the transport |
| `InMemoryStore` | the in-memory repository and catalog, against `PaymentPromise` |
| `TransactionPolling` | the polling hook and the transaction query in time |
| `RateLimiter` | the token buckets of one API process |
| `PrereleaseCleanup` | the watchdog and the release workflow over CloudFormation |
| `..._proofs` | theorems about the module of that name, and their proofs; those of `PaymentStore` open `CheckoutPayment_proofs`, which needs them |
| `MC...` | model values, symmetry and bounds for TLC, one per module that is checked |

The `TypeOK` of the modules other than `PaymentStore` and `CheckoutPayment` is named in no
configuration: they are theorems.

### PaymentStore

A row is an element of a function indexed by its key: `checkout[c]` gathers META with
the versions of CUSTOMER and DELIVERY_DETAILS, `payment[t]` the PAYMENT row, and so on.
An action named `...Write` is one `UpdateItem` or `TransactWriteItems`: its guard is the
`ConditionExpression` (of all items), its effect the `UpdateExpression`s. `StoreSpec`
lets any client send any write the repository's own early returns let through
(`FinalizeAdmits` fixes the snapshots `SettleStep` ranges over), so what holds of it
holds whatever the service does.

Abstractions: one product row, since a checkout never touches another's. `due` stands
for "`nextCheckAt` and `leaseUntil` are in the past": both are set together by
`claimDispatch` and `claimDue`, and elsewhere the lease is removed. A delivery or a
draft part is the checkout version it was written at. `semanticHash` is the If-Match
version: the other parts of the hash are constant for one checkout, or change only
together with its version. TRANSACTION locks are written with their payment and are
represented by it. The deployment's contract set is constant.

### CheckoutPayment

`pc[a]` is the await actor `a` stands at, `op[a]` what it carries across it (the payment,
the snapshot read by `finalize`, the outcome, the delivery details). An invocation is
named by the transaction id it would mint.

| Code | Actions |
|---|---|
| `submitPayment`, `preparePayment` | `Submit`, `Replay`, `Refuse`, `Proceed`, `Prepare`, `PrepareCancelled` |
| `dispatchIfLeader`, `claimDispatch`, `createOnce` | `ClaimRead`, `ClaimDispatch`, `DoNotPost`, `Post`, `PostAnswered` |
| `applyProviderObservation`, `acknowledgeProvider` | `AckRead`, `Acknowledge` |
| `markUnknown` | `MarkUnknownRead`, `MarkUnknown` |
| `finalize` | `FinalizeRead`, `EffectsRead`, `Settle`, `SettleCancelled`, `Flag`, `Escalate` |
| `claimDue`, `reconcileDue` | `StartRun`, `ClaimDueRead`, `ClaimDue`, `ClaimedAll`, `ReconcileUnsent`, `ReconcileRead`, `OverQuota`, `RunEnds` |

`Fails(a)` says where the code goes when the awaited request fails. A write that was
applied but whose answer was lost is the write together with `Fails`; one that was not
applied is `RequestFails`. `Stop(a)` ends an invocation at any await; the worker's next
run starts afresh. `PrepareCancelled` also happens on a transaction conflict, by `Fault`.

The provider is external: a POST that arrives makes a charge PENDING or is refused; a
pending charge is decided once, and an approved one may be voided later (`REVERSED`).
Answers are the current status or, at the price of a fault, an older one. It never
charges a payment whose POST was not sent, and its id of a charge is unique: the id of
the charge of payment `t` is `t`.

The worker runs one at a time: its Lambda has reserved concurrency 1 and a 30 s timeout
(`infra/lib/release-stacks.ts`). The index query may return any accepted payments, at
most `BatchSize`, since the index is eventually consistent. A claimed lease may end at
any moment (`Clock`), sooner than the 45 s it lasts: the model has more behaviours
than the deployment, where an invocation is stopped after 10 s. What the real lease,
order and schedule give is the subject of `ReconcileBatch`.

### ReconcileBatch

Time is relative: `due[t]` is `nextCheckAt` minus now, and `TimePasses` takes one from
whatever waits. A row keeps its dispatch phase, whether its provider id is known, its
attempts and whether it is leased; rivals and row contents are left to `CheckoutPayment`.
Transactions are numbers, because the index lists equal due times in the order of the ids;
`Position` counts what comes before a payment, and `InOrder` lists a set by it.

| Code | Actions |
|---|---|
| `preparePayment`, `claimDispatch`, the end of a dispatch | `Accept`, `ClaimDispatch`, `Answered` |
| `claimDue`: query in index order, lease, giving up what was not sent | `StartRun` |
| the loop of `reconcileDue` | `Unreadable`, `OverQuota`, `Read`, `RunEnds`, `RunFails` |
| the schedule and the time limits of the Lambdas | `TimePasses`, `RunMissed` |

### SandboxProvider

`call[c]` is one call of `createOnce`, from the check of the authorisation through the
reader to the POST. The reader has a cache with a time to live and one shared operation;
`inFlight.finallyDue` is the moment between the settling of that operation and the
`finally` that forgets it. The provider's contracts may change, tokens expire and the
authorisation end at any time.

### InMemoryStore

Mutations are queued, so a mutation is one action, except where it awaits the catalog:
there the catalog's half is one action and the maps' half another (`Reserved`, `Consumed`,
`Released`), with `busy` between them, since queries do not queue and may read then. The
branch that approves a payment without a unit is not modelled as a step: `LacksItsUnit`
is its condition and `ApprovalFindsItsUnit` shows it never holds.

### TransactionPolling

A render with the effects it causes is part of the event that causes it (`PollEffect`
runs when the dependencies of the effect change). The buyer opens, leaves and changes the
transaction (`ShowTransaction`, `Forget`), consults by hand (`AskManually`); GETs end or
fail in any order; the server settles when it likes. The browser's clock need not agree
with the server's.

### RateLimiter

A bucket holds ticks of refill, `Cost[i]` per token, so that fractions of tokens are
whole numbers. `budget` is an ideal bucket that never forgets; the table is bounded and
gives up the entry inserted first. The wall clock may be corrected, back (`ClockStepsBack`)
or forward: a jump is several ticks of `TimePasses` with no request between them, and it
refills the ideal bucket too, since the code grants whatever the clock skips.

### PrereleaseCleanup

A group is the four stacks of one prerelease. Both programs read stacks, decide, call
CloudFormation, wait and read again, one action each; either may be cut off in between
while CloudFormation goes on.

| Code | Actions |
|---|---|
| watchdog: list, hydrate and group, call, refresh | `ListTaggedStackMappings`, `Discovery`, `Call`, `RefreshStack`, `RunCut` |
| deployment of one stack | `DeployStack`, `ReleaseCall`, `ReleaseWaitEnds` |
| activation and its compensation | `Activate`, `ActivationStep`, `RestoreStep` |
| mandatory cleanup, in the window or enforced after the expiry | `CleanupRelease`, `CleanupStep` |
| CloudFormation (external) | `OperationEnds`, `OperationFails` |

`late` holds the groups that expired while one of their deployments or activations was at
work; the safety properties are about the others (see Disagreements).

### CheckoutDialog

One browser tab. `progress` is the `checkoutUi` slice, `page` what the mounted dialog and
the query cache hold, `save` the save under way, `post[p]` the submission `p` both on the
network and at the tab. An event handler, an effect, or the code between two awaits is
one action, since JavaScript runs one task at a time; the flows interleave at their
awaits. Another tab edits (`OtherTabEdits`) or pays (`OtherTabPays`) the same checkout.

| Code | Actions |
|---|---|
| `openProgress`, mount effect, `close`, browser back | `Open` (`Mount`), `Leave`, `CreateAnswered` |
| `readCheckoutProgress`, `persistCheckoutProgress` | `Reload`: only the ids survive, neither key nor card |
| `checkoutQuery` and the two effects on it | `Fetch`, `AdoptActive`, `RequireToken` |
| steps of the dialog, card timer | `Tokenized`, `TokenExpires`, `AcceptTerms`, `Back`, `RefreshQuote` |
| `saveCustomerDelivery`, `saveWithCanonicalRecovery` | `StartSave`, `SavePut`, `SaveRecover`, `SaveFinal` |
| `startPayment`, `recoverAfterSubmission` | `StartPayment`, `StartWithoutToken`, `PostAccepted`, `PostRefused`, `PostLost`, `PostRefetch`, `PostRecover`, `ConsultSession` |
| polling, `returnToProduct`, `retryPayment` | `PollTransaction`, `ReturnToProduct` |
| `submitPayment`, the provider, expiry | `HandlePost`, `DecidePayment`, `Expire`, `Lapse` |

A submission carries the checkout of its URL (`checkoutId`, from the slice) and the quote
of its body (`quote`, from the page): the two ids differ when a late create has put another
checkout into the slice, and the API then answers `QUOTE_STALE`.

The API is one step per request here, as `submitPayment` orders its checks: what happens
inside is `CheckoutPayment`. A flow whose dialog has gone goes on (`own` is FALSE): what
it sets in its component is lost, what it dispatches is not. A draft part is who wrote it
last: the buyer ("mine") always enters the same data, so a repeated save is already
applied. An effect runs before the buyer's next event, while a timer or an answer may
overtake it. DECLINED, VOIDED and ERROR look like APPROVED to the client (`SETTLED`).

`Upsets` names what may go wrong besides `MaxFaults` lost requests: quotes lapse, stock
runs out, checkouts expire, a read fails as a 404, a create is answered after the dialog
is gone, the buyer leaves a submission by the browser's back button, the card expires
while it is submitted, the page renders again while a submission is answered.

## Checks

| Run | Question | Instance |
|---|---|---|
| `store` | Do the writes keep the rows consistent, whoever sends them in whatever order, and do they implement `PaymentPromise`? | 2 checkouts, 2 payments, 2 keys, 2 provider ids, 1 unit |
| `service` | Is the charge sent once, and are rows, 202s, offers and parcels true of it? | 2 invocations, the worker with quota 1; one checkout with 2 keys and a fault, or two checkouts in one batch |
| `faults` | With three failures anywhere and all four outcomes: is the store used as specified, are decided charges settled, unsent ones released? | 1 invocation, the worker, 3 faults, fairness |
| `conflict` | Is an inventory conflict recorded only without an ACTIVE reservation? (violated) | 1 invocation, 1 fault |
| `batches` | Does the worker leave running invocations alone and give every payment its turn? | 2 payments, quota 1, 2 faults, units of 12 s, fairness |
| `acceptances` | Is what is posted valid at that moment, what is shared or cached fresh, and what is reported true? | 3 calls, 2 versions of the contracts, times up to 5 |
| `demo_store` | Do the in-memory adapters keep `PaymentPromise` too? | as `store` |
| `limiter` | Is no identity faster than its policy, and is `Retry-After` enough? | 4 kinds of request, 4 identities, 3 buckets, 4 ticks, 1 step back |
| `dialog` | Is a card posted once, is what is paid or replayed what was on screen, is a pending payment kept in sight and no other shown? | 2 submissions, 1 fault; two checkouts and another tab's payment, or one checkout and upsets |
| `returns` | Does every submission end, and is an accepted payment shown in the end? | 1 checkout, 1 submission, 1 payment of another tab, 1 fault, fairness; expiry, late |
| `polling` | Do polls keep to their window and apart, and is a pending payment followed? | 2 transactions, 2 delays, window 6, 3 skews of the clock, 1 failed GET, fairness |
| `cleanup` | Can what is left be taken up, is nothing deleted in service, and is what expired removed? | 2 groups, one abandoned with 2 or 4 stacks, 1 fault, fairness |

Bounds. The conditions of the code compare at most two payments (a unit, a checkout, a
key, a provider id wanted by both), so two of each give every conflict; one unit makes
stock run out, and a refused second checkout is the case a third one would repeat.
`MaxVersion` bounds draft edits: from version 3, where a draft is ready, each value
leaves room for at least one edit before and one during a submission. Drafts start READY,
or absent and then drafted in the `store` run. `MaxFaults` bounds failures: one with two
invocations and the worker, three with one. `posts` counts to 2, enough to see a second
send. `ReadLimit = 1` with two payments makes the quota bite.

`MCCheckoutPayment` explores one checkout in full (`Scope`); two together only with one
key, one further edit, approvals and no faults, which is where a batch meets its quota.
In the dialog two submissions make one late, lost or replayed while the other is under
way, and two checkouts let ids of both meet in the slice; version 3 is the first READY
one, so `MaxVersion = 4` leaves one edit of another tab during a submission. What holds
of the dialog depends on what goes wrong, so `UpsetSets` names the combinations: renders
only, with two checkouts and a payment of another tab; back button, lapsing quotes and
stock, slow creates and renders; failing reads and expiry, with one checkout; and creates answered late, alone
and with two checkouts, where slice and page may name different ones. Drafts that
are ready are edited only in the second.

`ReconcileBatch` counts in units of 12 s, rounded so that every order of the code's times
is kept: lease 3 (45 s, rounded down), period 5, invocation 1 (10 s), worker run less than
2 (30 s would be 2.5), backoff one minute and then the recurring delay 20. Two payments
with a quota of one are the shortest queue in which one can starve the other; two failures
allow three runs in a row that pass a payment over, and `passed` is told apart up to one
more. `SandboxProvider`: three calls are
one that starts a read, one that shares it and one that comes after; times let tokens of
the shorter life expire inside the cache's time and the authorisation end inside a call; the
longest life outlives the bound, which is how a token without `exp` behaves.
`TransactionPolling`: the window of 6 ends between two polls, and the skews -2, 0 and 6
put its start in the future, now, and past its end. `RateLimiter`: four identities for
three buckets, so that the table overflows. `PrereleaseCleanup`: two groups suffice for
one to stop the other; leftovers of two stacks are a deployment cut in the middle, of four
one that is complete and perhaps active.

Deadlock is not checked: payments settle, the buyer leaves, and nothing is left to do.

Every property of a passing run is accompanied in `PROJECT.json` by a mutant, a faulty
variant of one operator kept beside it (marked `faulty`), which breaks it.

### Fairness

`FairSpec` assumes that a started worker run goes on (the platform ends it within 30 s
otherwise, which is `Stop`, a fault); that time passes; and that the schedule starts runs
for ever, with every payment listed by the index again and again whenever the worker is
idle. Nothing is assumed of invocations, of the buyer or of the provider. The number of
failures is bounded, so liveness says: once failures stop, decided charges get settled.

The strong fairness on `StartRun` stands in for lease, backoff and index order. That these
give every payment its turn is what `ReconcileBatch` shows for two quotas' worth of
payments: a payment is passed over at most once in a row, and once more per failure
(`TakesTurns`), and is read again and again (`IsReadAgain`), under weak fairness of time,
of the schedule and of a run that goes on.

In the dialog, `FairSpec` assumes that the API answers a POST that reached it (its Lambda
is stopped after 10 s), that the browser runs what waits for an answer, and that a buyer
who left the checkout comes back to it again and again and now and then stays until it
has been read. The card, save and pay steps are not fair.

In `TransactionPolling` the browser fires timers that are due, time passes, and a GET is
answered in the end; neither buyer nor provider need do anything. In `PrereleaseCleanup`
the schedule starts a run every hour and a run goes on until it ends or is cut off, which
is a fault, and CloudFormation ends what it began. The release workflow is not fair: it may
stop anywhere.

### Disagreements between design and code

The first is violated by its run. Those of the others that have a name are stated beside the
properties that hold, in `CheckoutPayment`, `CheckoutDialog` and `TransactionPolling`, and
no configuration names them: add one to the module's `.cfg` to see its trace.

- `ConflictOnlyWithoutReservation`. The design keeps the inventory conflict for an
  approval without a consumable reservation (`PAY-T06`, `FAL-17`). `finalize` (repository
  1164) also records it when its read of the checkout or of the reservation fails. One
  failed read ends an approved payment as a conflict with its reservation ACTIVE.
- `UnknownOnlyFromSending`. `TXN-06` is a compare-and-set from SENDING. `markUnknown`
  asks only for a pending payment, so ACKNOWLEDGED becomes UNKNOWN when a read-back
  fails. `DecidedIsSettled` still holds: the provider id is kept and read again.
- A second submission after a reload. The design lets a reload of a submission only read. The code keeps
  key and flag in memory: if the POST has not been stored yet, the reloaded dialog starts
  at the card with a new key. The API accepts one of the two (`OnePaymentPerCheckout`).
- `ActivePaymentShowsStatus`. The design shows no way to pay while a payment is pending.
  Adopting an active payment leaves the card's timer running, which then takes the
  dialog to the card form; the API refuses what is submitted there.
- `NewCheckoutOnlyWithoutActivePayment`. The design creates a checkout only without a
  pending payment and treats ambiguous errors as UNKNOWN. `authorize` answers a failed
  read with 404, and the dialog clears its progress on 404.

- `FailureIsRetried`, `RevocationStops`. The design repeats a failed poll with backoff and
  stops at a revocation. The first GET of a transaction is not a poll: if it fails, the
  query has nothing PENDING to show, and nothing is asked again until the buyer does. A
  GET answered 404 is treated like any failure, so polling goes on until its window ends.

`PaymentStaysReachable` and `ShowsItsOwnPayment` hold under the conditions of `dialog`
(no lapse of quotes or stock, nothing left behind), and no document says more. They fail when a quote lapses or
stock runs out after a submission whose answer was lost (the refusal of a later one
clears the slice, while the first is still accepted), and when a flow outlives its
dialog (back button, late create, a card that expires while it is submitted): it
dispatches its ids into the slice of the next checkout.

`PrereleaseCleanup` met no sentence of the documents that its programs contradict, but
three conditions on what they achieve, which its properties state.

- A deployment or activation looks at its window once and may outlive the expiry: the
  configuration asks only that the expiry be later than the end of the window
  (`scripts/stage7/core.mjs:543`). It may then create a stack in a group that is being
  deleted, which leaves a group no later run accepts, or publish one that is deleted next.
- One stack whose deletion failed, whose creation was rolled back, or that is out of
  order ends every run before any group is cleaned, until somebody removes it.
- A deleted stack that is described by its ARN is taken to be missing, as in the program's
  own test double. Were CloudFormation to answer `DELETE_COMPLETE` for it, each run would
  end after one deletion (`E7_CLEANUP_STACK_STILL_EXISTS`) and the next would go on.

## Proofs

The modules `..._proofs` hold, for every value of the constants that the named assumptions
admit:

| Module | Theorem | States |
|---|---|---|
| `PaymentStore` | `TypeCorrect` | `TypeOK` |
| | `InventoryCorrect` | `InventoryMatchesReservations` |
| | `OnePaymentCorrect`, `KeysCorrect` | `OnePaymentPerCheckout`, `KeyNamesItsPayment` |
| | `SettlementCorrect` | `SettledTogether` |
| | `FinalityCorrect` | `SettlementIsFinal` |
| | `ProviderIdsCorrect`, `UnsentCorrect` | `ProviderIdNamesOnePayment`, `UnsentHasNoProviderId` |
| | `PromiseKept` | `KeepsPromise`: `StoreSpec` implements `PaymentPromise` |
| `CheckoutPayment` | `ServiceUsesStore` | `UsesStore`: `Spec` implements `StoreSpec` |
| | `ServiceTypeCorrect` | `ServiceTypeOK` |
| | `ServiceKeepsPromise` | `KeepsPromise`, of the service |
| | `AnswersCorrect`, `AddressCorrect` | `AnswersAgree`, `ShippedAsSubmitted` |
| | `MoneyAlways` | the invariant the next four rest on |
| | `SendsOnce`, `UnsentNeverCharged` | `SingleSend`, `UnsentIsUncharged` |
| | `OutcomeCorrect`, `BuyAgainCorrect` | `FinalStatusWasReported`, `SafeToBuyAgain` |
| `CheckoutDialog` | `DialogInvariant` | the invariant that needs no condition on what goes wrong |
| | `DialogTypeCorrect` | `TypeOK` |
| | `TokensAreSentOnce` | `TokenSentOnce` |
| | `AcceptanceCorrect`, `ReplayCorrect` | `AcceptedAsReviewed`, `ReplayAsReviewed` |
| | `NothingIsLeft` | the invariant of a dialog that leaves nothing behind |
| | `ReachCorrect`, `ShownCorrect` | `PaymentStaysReachable`, `ShowsItsOwnPayment` |
| `InMemoryStore` | `MapsTypeCorrect` | `TypeOK` |
| | `MapsAlwaysAgree`, `UnitsAreFound` | `MapsAgree`, `ApprovalFindsItsUnit` |
| | `DemoKeepsPromise` | `KeepsPromise` |
| `SandboxProvider` | `ReaderCorrect` | `TypeOK` |
| | `ReadsAreFresh`, `PostsAreValid` | `AnswersAreFresh`, `PostsWithValidAcceptances` |
| | `OutcomesAreTrue` | `OutcomeIsTrue` |
| `ReconcileBatch` | `BatchTypeCorrect` | `TypeOK` |
| | `LeavesInvocationsCorrect` | `LeavesRunningInvocationsAlone` |
| | `TurnsCorrect`, `TurnsOfFew` | `TakesTurns`, where few payments wait (see below) |
| `TransactionPolling` | `OneTimerCorrect` | `TypeOK` |
| | `PollingCorrect` | `PollsWithinWindow` |
| `RateLimiter` | `LimiterTypeCorrect` | `TypeOK` |
| | `RateCorrect` | `AdmitsAtItsRate` |
| | `RetryCorrect` | `RetryAfterIsEnough` |
| `PrereleaseCleanup` | `CleanupTypeCorrect` | `TypeOK` |
| | `PrefixesCorrect` | `LeavesDeployPrefixes` |
| | `UnpublishCorrect` | `UnpublishesBeforeDeleting` |

Assumptions. Of the code's configuration: a lease lasts as long as an invocation
(`LeaseAssumption`; 45 s and 10 s) and ends before the next run and before any backoff
(`TurnsAssumption`; 60 s, and 48 s or more with jitter), the first polling delay is the
shortest (`DelaysAssumption`), a request is counted against one or two identities
(`LimiterAssumption`), numbers are natural. Of the model: transactions and submissions are
finite in number, since counters and keys are counted by them; `MaxVersion` leaves room
for the versions used; `MaxOverdue` tells a lease apart that has ended since the last run,
and `MaxPassed` one more run than there are failures (`BoundsAssumption`); the ids of this
tab's and of another tab's payments differ, and the worker is not an invocation;
prerelease groups are finitely many, numbered by their order; an id, a row and `NULL` are
told apart (`NullAssumption` of three modules: where a JavaScript value is absent or an
object, the model has a union).
Checkouts, keys, provider ids, calls, contracts, other tabs' payments, token lives, delays
and windows are any.

### PaymentStore

`TypeOK` alone is not inductive, because submitting raises the version
without a bound of its own; `TypeInv` adds that a checkout nobody has paid for is within
`MaxVersion`. Every step is then one of five kinds (`StepKinds`): it drafts, accepts,
touches, settles (sells or refunds) or escalates one payment; each kind says what it
leaves alone, and the later proofs use only the kinds. `Links` makes the owner rows
inductive: the checkout and the key name the payment, and a payment that does not exist
is named by nothing. Inventory follows by counting the reservation that moved.
`SettledTogether` is kept by a settlement because all six rows change in it, and by any
other step because no two payments share a checkout or a key (`Links`). A settled payment
fails the conditions of every write but the conflict flag, which gives finality.
`IdInv` relates provider ids to their locks and to the phases. For the refinement each
kind maps to one promised step or to a stutter.

### CheckoutPayment

Three layers. `ServiceInv` says what an actor carries across the await it stands at
(`Carries`): a snapshot that `finalize`'s own checks let through, a destination if it will
ship, a payment that exists. Hence each write an actor sends is one `StoreNext` allows
(`ServiceWrite`), every other step leaves the rows alone, and whatever is proved of the
store holds here (`StoreInv`). `AnswersInv` and `AddressInv` add that an actor works on the
payment of its own request, and that a destination in flight is no newer than the hash
stored with the key.

`MoneyInv` is about the charge. `Sender(p, t)`: invocation `p` has claimed the dispatch of
`t` and is about to POST. Senders are alone, since the claim moves the phase away from
NOT_SENT, to which no write returns (`SendersAlone`). "Never sent", in a row, in what an
actor carries or in what the worker has claimed, means `Unsendable`: nothing was posted,
nobody is about to, and nobody can claim. An outcome carried or stored was given by the
provider (`Given`), which stays true because its statuses only move forward. Each of the
five parts needs the others: the worker's giving up rests on the rows, the rows on the
senders.

### CheckoutDialog

`Inv` holds for every set of upsets. Besides names that exist and flows that belong to
the dialog on screen, its core is `ContentInv`: one version of a checkout has one content,
wherever it was seen. It makes `AcceptedAsReviewed` inductive: the API accepts only the
version the row has, and the page showed that version's content. `TokenInv` keeps a sent
token only while its submission is awaited, by the dialog that is on screen. `ReplyInv`
says that what an answer names was accepted for the same checkout and content, because a
key's command covers version and quote. Steps are of three kinds: the client's (rows stay),
those where rows grow (versions never fall, nothing is removed), and `StartPayment`.

`Kept` holds where nothing is left behind. The slice names the checkout of the page and of
the submission awaited, which pins the dialog at the review (`WaitingInv`): whatever may
end it, a close, an adopted payment, an error, is shown to be impossible meanwhile. Then
the slice changes its checkout only when no submission is pending or on the network
(`ReachInv`), and a payment it names is its checkout's active one (`ActiveInv`).

### The others

- `InMemoryStore`: the mutation that awaits the catalog is part of the invariant: what it
  checked before it waited still holds when it resumes, because mutations queue
  (`BusyInv`). `AgreeInv` then ties the maps together, and counting the reservations that
  a step moves gives the catalog's counters and the dead branch. The refinement follows
  the store's: each kind of step is one promised step or a stutter.
- `SandboxProvider`: an operation that has settled is cleared before time moves
  (`ReaderInv`), so whoever joins it late joins it at the moment it settled; where a call
  stands says what it may hold.
- `ReconcileBatch`: one inequality, `TimeLeft`: the time an invocation has left never
  exceeds the time its payment still waits. It starts true because a lease is no shorter
  than an invocation, and time takes from both alike.

  Turns are another invariant. A run leaves the payments it passed over a lease that ends
  before the next run and before the backoff of any it read. So a payment passed over once
  meets, in the next run, only payments passed over with it (`OwedInv`), and what is left
  of two quotas is enough for all of them (`QuotaInv`); each failure costs it one run more.
  `TurnsCorrect` needs `FewWaiting`: two quotas of payments with a provider id, and a batch
  of payments; 4 and 10 in the code. Beyond, the bound is false. In an instance of three
  payments and a quota of one, two alternate, since a backoff with its jitter may end
  before or after the next run, and the third is passed over without a failure more often
  than the bound allows.
- `TransactionPolling`: a timer says all its callback relies on: it is the only one, no
  poll is under way, it was set for what is still shown, and it is due a delay after the
  last poll or not before the deadline, when the callback stops instead of asking.
- `RateLimiter`: lemmas about the table alone say what storing one or two buckets leaves in
  it. A bucket was never checked later than the clock has gone forward (`ClockInv`), so a tick
  of a clock that never stepped back refills what the ideal bucket gets, and any other tick no more:
  which makes `AdmitsAtItsRate` inductive. A refusal's promise is about the ideal bucket
  (`PromiseInv`), of which an admission to others takes nothing; an evicted bucket is full.
- `PrereleaseCleanup`: neither program holds a lock, so what each has read is related to
  what is there by now. In a group that has expired, or that is being cleaned by its
  release, nothing is created or published any more, unless the group is `late`
  (`ReleaseFits`). So what was read stays an upper bound (`Covers`): the last stack read
  has none after it, and one read as unpublished is. A creation, in turn, meets no
  deletion and finds the stacks before its own (`BuildFits`); so each change of a stack
  keeps the order of deployment (`Ordered`), and an `Ordered` group is a prefix of it.
  `late` is the exception in both theorems as it is in the properties.

The invariants of the dialog, of the cleanup, of turns and of the limiter were checked by
TLC before they were proved, and the proofs of the dialog fail, as they should, when the
version check of the API or the submitting flag is taken out of the model.

### Only model-checked

- All liveness (`DecidedIsSettled`, `UnsentIsReleased`, `IsReadAgain`, `SubmissionEnds`,
  `PaymentIsShown`, `PendingIsFollowed`, `ExpiredAreRemoved`): TLAPS has no rule for
  fairness of so many actions, nor for `ENABLED`.

Every invariant and every action property of the passing runs is a theorem.

## Not modelled

- Expiry and TTL of checkouts and quotes, prices, capability cookies: their refusals are
  one nondeterministic `Refuse`; no modelled row depends on them.
- Validation of the provider's answers: a protocol violation ends, like a lost answer,
  in `markUnknown`.
- `recordWebhook`, which nothing calls; queries that only feed responses; metrics.
- A sent payment whose answer is lost has no provider id and stays UNKNOWN, its unit
  reserved, until a person resolves it: the adapters cannot look up by reference. The
  code promises nothing here and no property claims it.
- `preparePayment`'s two reads before its transaction, of the key's row and of the checkout,
  are one step (`Proceed`, `Refuse`): the transaction's conditions decide, and its
  cancellation is followed by reads of its own.
- In the dialog: what the buyer types; installments, which show only as the refusal (409 or
  422) of a replay; focus and layout; a second save of a reopened dialog beside an orphaned
  one, whose effect on the draft is that of another tab's edit; after a refusal that asks to
  reconfigure, a dialog that stays at the status instead of going to the payment step; two
  tabs sharing one storage (the other tab acts on the API only); the reducers nothing
  dispatches.
- HTTP parsing, presentation, configuration, logging, tokenization: stateless, read once
  at start, or output only.
- The catalog seed, which puts the product once if it is absent, and the scripted demo
  providers, which are test doubles.
- Most of `scripts/`: validation of manifests, policies and evidence files, which decides
  from its inputs once and keeps no state, and the tooling of full releases, rollbacks and
  baselines. The latter does change state in steps; it is the next thing to model there.
- Fractions of tokens are exact: what IEEE rounding does to a request at the very moment of
  its token is left out.
- Of the prerelease programs: identity and credentials, tag formats, evidence files and
  the seeding of a prerelease. The four stacks are read at once in `Discovery` and
  `CleanupRelease`, where the programs describe them one by one: an expired group
  without late steps only shrinks between two descriptions. Checks after an activation and
  drift appear only as failed operations. Of CloudFormation's statuses,
  `REVIEW_IN_PROGRESS` (a cut between creating and executing a change set) and
  `UPDATE_ROLLBACK_FAILED` are left out: the watchdog ends its run at such a stack, as at
  one whose deletion failed. For the release,
  an update that changes nothing is taken like one that does.

## Plan

Done: the store with its promise and theorems; the service over it, with failures and
liveness; the worker's batches in time, which justify the fairness assumed of it; the
provider adapter, the in-memory adapters, the rate limiter; the dialog and its polling;
the prerelease watchdog; and the theorems above.

In order of importance:

1. Creating and editing drafts with quote and expiry on the server; `CheckoutDialog`
   against the store instead of an atomic API; two tabs that share one storage.
2. Full releases and rollbacks (`scripts/stage7/aws-operations.mjs`) over the stacks of
   `PrereleaseCleanup`; the catalog's conditional seed.
