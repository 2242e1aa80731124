--------------------------- MODULE CheckoutDialog ---------------------------
(***************************************************************************)
(* The web checkout (apps/web/src/features/checkout): one browser tab, its *)
(* store, the dialog with its asynchronous flows, and reloads, against an  *)
(* API that answers late or not at all.                                    *)
(*                                                                         *)
(* JavaScript runs one task at a time, so an event handler, an effect, or  *)
(* the code between two awaits is one action.  Three flows may be under    *)
(* way at once and interleave: a save (saveCustomerDelivery), submissions  *)
(* (startPayment; one that the buyer left by going back still runs) and    *)
(* the creation of a checkout.  own says whether a flow belongs to the     *)
(* dialog on screen: what a flow left behind tells its own component is    *)
(* lost, what it dispatches to the store is not.                           *)
(*                                                                         *)
(* The API is atomic here: what its Lambdas do between their awaits is the *)
(* subject of CheckoutPayment.  Another tab may edit or pay the checkout.  *)
(***************************************************************************)
EXTENDS Naturals, FiniteSets

CONSTANTS Checkouts,  \* checkouts the API may create
          Posts,      \* POST /transactions of this tab; accepted, they name the payment
          OtherPosts, \* payments submitted by another tab
          NULL,
          MaxVersion, \* bound on the versions of a checkout
          MaxFaults,  \* bound on requests that fail
          UpsetSets   \* what may go wrong besides, together: see UpsetsAssumption

(***************************************************************************)
(* "quote": the quote lapses or the price changes.  "stock": the units run *)
(* out.  "expiry": a checkout's 30 minutes end.  "read": the API cannot    *)
(* read its table and answers 404 (authorize).  "late": a create the buyer *)
(* left is answered after all.  "back": the buyer leaves a submission under *)
(* way by the browser's back button; the dialog's own close refuses.       *)
(* "slow": the card token expires while its submission is under way.       *)
(* "render": the page renders again while a submission is answered, which  *)
(* runs the effects of the dialog again.                                   *)
(***************************************************************************)
ASSUME UpsetsAssumption ==
    UpsetSets \subseteq SUBSET {"quote", "stock", "expiry", "read", "late", "back", "slow", "render"}
ASSUME BoundsAssumption == MaxVersion \in Nat \ {0} /\ MaxFaults \in Nat
ASSUME PostsAssumption == IsFiniteSet(Posts) /\ Posts \cap OtherPosts = {}

VARIABLES draft,    \* draft[c]: the checkout row as the API has it, or NULL
          payment,  \* payment[p]: how the payment stands
          progress, \* the checkoutUi slice
          page,     \* what the mounted dialog and the query cache hold
          save,     \* the save under way
          post,     \* post[p]: the submission p, on its way and at the tab
          faults,
          upsets    \* what may go wrong in this behaviour

serverVars == <<draft, payment>>
vars == <<draft, payment, progress, page, save, post, faults>>

Payments == Posts \cup OtherPosts
Steps == {"payment", "customer", "acceptances", "review", "status"}
Keys == 1..(Cardinality(Posts) + 1)

\* SETTLED: final, its integrity OK.  CONFLICT: final, and not OK.
PaymentState == {"NONE", "PENDING", "SETTLED", "CONFLICT"}

\* What a refusal of a submission says.
Codes == {"409", "410", "412", "422", "QUOTE_STALE", "OUT_OF_STOCK"}

\* A part of a draft is absent, or as one of the tabs saved it.
PartState == {NULL, "mine", "theirs"}

Draft == [version : 1..(MaxVersion + 1), customer : PartState, deliveryDetails : PartState,
          active : Payments \cup {NULL}, expired : BOOLEAN, lapsed : BOOLEAN]

View == [checkoutId : Checkouts, version : 1..(MaxVersion + 1), customer : PartState,
         deliveryDetails : PartState, active : Payments \cup {NULL}]

\* NULL is none of what may stand in its place, and a code is not an id.
ASSUME NullAssumption ==
    /\ NULL \notin Checkouts /\ NULL \notin Payments /\ NULL \notin Codes
    /\ NULL \notin Keys /\ NULL \notin Draft /\ NULL \notin View
    /\ NULL \notin PaymentState
    /\ Posts \cap Codes = {}

Fault == faults < MaxFaults /\ faults' = faults + 1
NoFault == UNCHANGED faults

-----------------------------------------------------------------------------
(***************************************************************************)
(* The slice and its storage.                                              *)
(***************************************************************************)
Cleared == [checkoutId |-> NULL, transactionId |-> NULL, key |-> NULL, step |-> "payment"]

AtStep(s, step) == [s EXCEPT !.step = step]
TransactionAccepted(s, t) == [s EXCEPT !.transactionId = t, !.step = "status"]
CheckoutCreated(c, k) == [checkoutId |-> c, transactionId |-> NULL, key |-> k, step |-> "payment"]

\* Keys are random: a new one differs from those sent.  One that was never
\* sent and is forgotten may be drawn again, which nobody can tell.
NewKey == CHOOSE k \in Keys : \A p \in Posts : post[p].key # k

CheckoutRecovered(s) ==
    IF s.transactionId = NULL
    THEN [AtStep(s, "payment") EXCEPT !.key = IF s.key = NULL THEN NewKey ELSE s.key]
    ELSE AtStep(s, "status")

\* What a reload leaves of the slice: persistCheckoutProgress ran at its last
\* change, readCheckoutProgress runs now.  The step kept in sessionStorage is
\* replaced by CheckoutRecovered before anything is shown.
ReadProgress(s) ==
    IF s.checkoutId = NULL THEN Cleared ELSE [s EXCEPT !.key = NULL, !.step = "payment"]

-----------------------------------------------------------------------------
(***************************************************************************)
(* The dialog.  view is checkoutQuery.data, which outlives the dialog in   *)
(* the query cache; shown is transactionQuery.data; token says whether a   *)
(* card token is held and whether it has been sent.                        *)
(***************************************************************************)
FreshPage(route) ==
    [route |-> route, view |-> NULL, shown |-> NULL, token |-> "none", selection |-> FALSE,
     uncertain |-> FALSE, error |-> FALSE, fetching |-> FALSE, creating |-> FALSE,
     lateCreate |-> page.lateCreate \/ (page.creating /\ "late" \in upsets)]

Mounted == page.route # "product"
WithoutSecrets == [page EXCEPT !.token = "none", !.selection = FALSE]

\* The dialog leaves the screen: its flows go on without it.
Orphaned == [p \in Posts |-> [post[p] EXCEPT !.own = FALSE]]
Unmount == /\ page' = [FreshPage("product") EXCEPT !.view = page.view]
           /\ save' = [save EXCEPT !.own = FALSE]
           /\ post' = Orphaned

\* What the query cache has of a checkout.  (The faulty variant is not keyed.)
CachedUnkeyed(c) == page.view
Cached(c) == IF page.view # NULL /\ page.view.checkoutId = c THEN page.view ELSE NULL

\* The effect that runs once in a new dialog: recover, create, or give up.  The
\* cached checkout is read again (the faulty variant trusts it).
MountFromCache(route, s) ==
    /\ page' = [FreshPage(route) EXCEPT
                  !.view = Cached(s.checkoutId),
                  !.fetching = s.checkoutId # NULL /\ Cached(s.checkoutId) = NULL,
                  !.creating = s.checkoutId = NULL /\ route = "capture",
                  !.error = s.checkoutId = NULL /\ route = "status"]
    /\ progress' = IF s.checkoutId = NULL THEN s ELSE CheckoutRecovered(s)
Mount(route, s) ==
    /\ page' = [FreshPage(route) EXCEPT
                  !.view = Cached(s.checkoutId),
                  !.fetching = s.checkoutId # NULL,
                  !.creating = s.checkoutId = NULL /\ route = "capture",
                  !.error = s.checkoutId = NULL /\ route = "status"]
    /\ progress' = IF s.checkoutId = NULL THEN s ELSE CheckoutRecovered(s)

\* submittingRef.  (The faulty variant is never set.)
NeverSubmitting == FALSE
Submitting == \E p \in Posts : post[p].own /\ post[p].at \notin {"unsent", "done"}

NoSave == [at |-> "idle", part |-> "customer", version |-> 0, attempt |-> 1,
           retry |-> FALSE, own |-> FALSE, checkoutId |-> NULL]

NoPost == [at |-> "unsent", own |-> FALSE, checkoutId |-> NULL, quote |-> NULL, version |-> 0,
           key |-> NULL, token |-> "none", seen |-> NULL, net |-> FALSE, reply |-> NULL]

Init ==
    /\ draft = [c \in Checkouts |-> NULL]
    /\ payment = [p \in Payments |-> "NONE"]
    /\ progress = Cleared
    /\ page = [route |-> "product", view |-> NULL, shown |-> NULL, token |-> "none",
               selection |-> FALSE, uncertain |-> FALSE, error |-> FALSE, fetching |-> FALSE,
               creating |-> FALSE, lateCreate |-> FALSE]
    /\ save = NoSave
    /\ post = [p \in Posts |-> NoPost]
    /\ faults = 0
    /\ upsets \in UpsetSets

-----------------------------------------------------------------------------
(***************************************************************************)
(* The API.                                                                *)
(***************************************************************************)
Exists(c) == draft[c] # NULL

\* authorize: an expired checkout answers 410 unless a payment keeps it.
Readable(c) == ~draft[c].expired \/ draft[c].active # NULL

Ready(d) == d.customer # NULL /\ d.deliveryDetails # NULL

Snapshot(c) == [checkoutId |-> c, version |-> draft[c].version, customer |-> draft[c].customer,
                deliveryDetails |-> draft[c].deliveryDetails, active |-> draft[c].active]

\* GET /checkouts/:id ends with what the hook then holds: the new view, or the
\* old one with an error; gone is a 404 or 410, which clears the progress.
\* (The faulty variant is asked again until the checkout can be read.)
GetUntilReadable(r) ==
    /\ Readable(progress.checkoutId)
    /\ NoFault
    /\ r = [view |-> Snapshot(progress.checkoutId), gone |-> FALSE]
Get(r) ==
    LET c == progress.checkoutId
    IN  \/ Readable(c)  /\ NoFault /\ r = [view |-> Snapshot(c), gone |-> FALSE]
        \/ ~Readable(c) /\ NoFault /\ r = [view |-> page.view, gone |-> TRUE]
        \/ Fault /\ \E gone \in {FALSE} \cup {x \in {TRUE} : "read" \in upsets} :
                       r = [view |-> page.view, gone |-> gone]

\* The slice and the page once the error effect has seen the result.
ProgressAfter(r) == IF r.gone THEN Cleared ELSE progress
PageAfter(r) == [page EXCEPT !.view = r.view, !.fetching = FALSE, !.error = @ \/ r.gone]

\* Another submission under the same key, found by findIdempotency.
Replayed(p) == {q \in Posts : /\ payment[q] # "NONE"
                              /\ post[q].checkoutId = post[p].checkoutId
                              /\ post[q].key = post[p].key}

StockUpset == IF "stock" \in upsets THEN {"OUT_OF_STOCK"} ELSE {}

\* submitPayment: its refusals in the order of its checks, or the acceptance.  A
\* quote is of one checkout: quoteId is told by the checkout it was shown for.
Refusal(p, code) ==
    LET q == post[p]
        d == draft[q.checkoutId]
    IN  CASE ~Readable(q.checkoutId)                 -> code = "410"
          [] Replayed(p) # {}                        -> code \in {"409", "422"}
          [] ~Ready(d) /\ d.active = NULL            -> code = "409"
          [] d.lapsed \/ q.quote # q.checkoutId      -> code = "QUOTE_STALE"
          [] d.version # q.version                   -> code \in {"422", "412"}
          [] d.active # NULL                         -> code \in {"422", "409"}
          [] OTHER                                   -> code \in {"422"} \cup StockUpset

\* (The faulty variant of Accepts takes any If-Match.)
AcceptsAnyVersion(p) ==
    LET d == draft[post[p].checkoutId]
    IN  /\ Readable(post[p].checkoutId) /\ Replayed(p) = {}
        /\ Ready(d) /\ ~d.lapsed /\ post[p].quote = post[p].checkoutId
        /\ d.active = NULL
Accepts(p) ==
    LET d == draft[post[p].checkoutId]
    IN  /\ Readable(post[p].checkoutId) /\ Replayed(p) = {}
        /\ Ready(d) /\ ~d.lapsed /\ post[p].quote = post[p].checkoutId
        /\ d.version = post[p].version /\ d.active = NULL

\* The checkout row once a payment has been accepted for it.
Paying(d, p) == [d EXCEPT !.active = p, !.version = d.version + 1]

\* The answer is for a submission that still waits for it.
Answer(p, reply) == IF post[p].at = "awaiting" THEN reply ELSE NULL

\* A replay must be of the same command: its hash covers quote and version.  (It may
\* be refused although they are the same, since it covers the installments too.)
AnyCommand(p, q) == TRUE
SameCommand(p, q) == post[q].quote = post[p].quote /\ post[q].version = post[p].version

HandlePost(p) ==
    /\ post[p].net
    /\ \/ /\ Accepts(p)
          /\ draft' = [draft EXCEPT ![post[p].checkoutId] = Paying(draft[post[p].checkoutId], p)]
          /\ payment' = [payment EXCEPT ![p] = "PENDING"]
          /\ post' = [post EXCEPT ![p].net = FALSE, ![p].reply = Answer(p, p)]
       \/ /\ \E q \in Replayed(p) :
                /\ Readable(post[p].checkoutId)
                /\ SameCommand(p, q)
                /\ post' = [post EXCEPT ![p].net = FALSE, ![p].reply = Answer(p, q)]
          /\ UNCHANGED serverVars
       \/ /\ \E code \in Codes :
                /\ Refusal(p, code)
                /\ post' = [post EXCEPT ![p].net = FALSE, ![p].reply = Answer(p, code)]
          /\ UNCHANGED serverVars
    /\ UNCHANGED <<progress, page, save, faults>>

DecidePayment(p) ==
    /\ payment[p] = "PENDING"
    /\ \E outcome \in {"SETTLED", "CONFLICT"} :
          payment' = [payment EXCEPT ![p] = outcome]
    /\ UNCHANGED <<draft, progress, page, save, post, faults>>

Expire(c) ==
    /\ "expiry" \in upsets
    /\ Exists(c) /\ ~draft[c].expired
    /\ draft' = [draft EXCEPT ![c].expired = TRUE]
    /\ UNCHANGED <<payment, progress, page, save, post, faults>>

Lapse(c) ==
    /\ "quote" \in upsets
    /\ Exists(c) /\ ~draft[c].lapsed
    /\ draft' = [draft EXCEPT ![c].lapsed = TRUE]
    /\ UNCHANGED <<payment, progress, page, save, post, faults>>

\* replaceCustomer and replaceDeliveryDetails under If-Match.
Puts(c, version) == /\ Readable(c)
                    /\ draft[c].version = version /\ draft[c].active = NULL
                    /\ version < MaxVersion
Edited(c, part, value) ==
    [draft EXCEPT ![c] = [draft[c] EXCEPT ![part] = value, !.version = draft[c].version + 1]]

OtherTabEdits(c, part) ==
    /\ Exists(c) /\ Puts(c, draft[c].version)
    /\ draft[c][part] # "theirs"
    /\ draft' = Edited(c, part, "theirs")
    /\ UNCHANGED <<payment, progress, page, save, post, faults>>

OtherTabPays(c, o) ==
    /\ Exists(c) /\ payment[o] = "NONE"
    /\ Readable(c) /\ Ready(draft[c]) /\ ~draft[c].lapsed /\ draft[c].active = NULL
    /\ draft' = [draft EXCEPT ![c] = Paying(draft[c], o)]
    /\ payment' = [payment EXCEPT ![o] = "PENDING"]
    /\ UNCHANGED <<progress, page, save, post, faults>>

-----------------------------------------------------------------------------
(***************************************************************************)
(* Opening, leaving, reloading.                                            *)
(***************************************************************************)
Local == UNCHANGED <<serverVars, save, post, faults>>

\* openProgress of the product page.
Open ==
    /\ ~Mounted
    /\ Mount(IF progress.transactionId = NULL THEN "capture" ELSE "status", progress)
    /\ Local

\* close, and the browser's back button, which asks nobody.
Leave ==
    /\ Mounted
    /\ Submitting => "back" \in upsets
    /\ Unmount
    /\ UNCHANGED <<serverVars, progress, faults>>

\* The page is loaded again: every flow is gone and the store is read back.
Reload ==
    /\ save' = NoSave
    /\ post' = [p \in Posts |->
                  IF post[p].at = "unsent" THEN post[p]
                  ELSE [post[p] EXCEPT !.at = "done", !.own = FALSE, !.reply = NULL]]
    /\ IF Mounted
       THEN LET s == ReadProgress(progress)
            IN  /\ page' = [FreshPage(page.route) EXCEPT
                              !.fetching = s.checkoutId # NULL,
                              !.creating = s.checkoutId = NULL /\ page.route = "capture",
                              !.error = s.checkoutId = NULL /\ page.route = "status",
                              !.lateCreate = FALSE]
                /\ progress' = IF s.checkoutId = NULL THEN s ELSE CheckoutRecovered(s)
       ELSE /\ page' = [FreshPage("product") EXCEPT !.lateCreate = FALSE]
            /\ progress' = ReadProgress(progress)
    /\ UNCHANGED <<serverVars, faults>>

\* createCheckout answers the dialog that called it, or after it was left.
CreateAnswered ==
    /\ page.creating \/ page.lateCreate
    /\ \/ \E c \in Checkouts :
             /\ ~Exists(c)
             /\ draft' = [draft EXCEPT ![c] =
                            [version |-> 1, customer |-> NULL, deliveryDetails |-> NULL,
                             active |-> NULL, expired |-> FALSE, lapsed |-> FALSE]]
             /\ progress' = CheckoutCreated(c, NewKey)
             /\ \E late \in {x \in BOOLEAN : IF x THEN page.lateCreate ELSE page.creating} :
                   page' = IF late THEN [page EXCEPT !.lateCreate = FALSE, !.fetching = Mounted]
                           ELSE [page EXCEPT !.creating = FALSE, !.fetching = TRUE]
             /\ NoFault
       \/ /\ page.creating
          /\ Fault
          /\ page' = [page EXCEPT !.creating = FALSE, !.error = TRUE]
          /\ UNCHANGED <<draft, progress>>
    /\ UNCHANGED <<payment, save, post>>

\* The hook's own GET: after mounting, after a new id, after a save.
Fetch ==
    /\ Mounted /\ page.fetching /\ progress.checkoutId # NULL
    /\ \E r \in [view : {page.view, Snapshot(progress.checkoutId)}, gone : BOOLEAN] :
          /\ Get(r)
          /\ page' = PageAfter(r)
          /\ progress' = ProgressAfter(r)
    /\ UNCHANGED <<serverVars, save, post>>

\* The effect on checkoutQuery.data.  The API never answers the status EXPIRED.
\* React runs it before it handles the buyer's next event; a timer or an answer
\* may come first.
AdoptDue ==
    /\ Mounted /\ page.view # NULL
    /\ page.view.active # NULL
    /\ progress.transactionId # page.view.active \/ page.route # "status"

AdoptActive ==
    /\ AdoptDue
    /\ progress' = IF progress.transactionId = page.view.active THEN progress
                   ELSE TransactionAccepted(progress, page.view.active)
    /\ page' = [page EXCEPT !.route = "status"]
    /\ Local

TokenDue ==
    /\ Mounted /\ page.view # NULL /\ page.view.active = NULL
    /\ progress.transactionId = NULL /\ ~page.uncertain
    /\ progress.step # "payment" /\ page.token = "none"
    /\ Submitting => "render" \in upsets

RequireToken ==
    /\ TokenDue
    /\ progress' = AtStep(progress, "payment")
    /\ UNCHANGED page
    /\ Local

-----------------------------------------------------------------------------
(***************************************************************************)
(* The five steps.                                                         *)
(***************************************************************************)
Shows(step) == Mounted /\ ~page.error /\ page.view # NULL /\ progress.step = step

\* A card was tokenized.  Its lifetime starts.
Tokenized ==
    /\ Shows("payment")
    /\ page' = [page EXCEPT !.token = "fresh"]
    /\ progress' = AtStep(progress, "customer")
    /\ Local

\* The token's five minutes are over, or getPaymentToken finds that they are.
TokenExpires ==
    /\ Mounted /\ page.token # "none"
    /\ Submitting => "slow" \in upsets
    /\ page' = WithoutSecrets
    /\ progress' = AtStep(progress, "payment")
    /\ Local

AcceptTerms ==
    /\ Shows("acceptances")
    /\ page' = [page EXCEPT !.selection = TRUE]
    /\ progress' = AtStep(progress, "review")
    /\ Local

Back ==
    /\ \/ /\ Shows("customer")
          /\ page' = WithoutSecrets
          /\ progress' = AtStep(progress, "payment")
       \/ /\ Shows("acceptances")
          /\ progress' = AtStep(progress, "customer")
          /\ UNCHANGED page
       \/ /\ Shows("review") /\ page.selection /\ ~Submitting
          /\ page' = [page EXCEPT !.selection = FALSE]
          /\ progress' = AtStep(progress, "acceptances")
    /\ Local

\* restartQuote, from the review once the quote has expired.
RefreshQuote ==
    /\ Shows("review") /\ page.selection
    /\ draft[page.view.checkoutId].lapsed
    /\ progress' = Cleared
    /\ Unmount
    /\ UNCHANGED <<serverVars, faults>>

-----------------------------------------------------------------------------
(***************************************************************************)
(* saveCustomerDelivery: two saves, each with one retry, and a refetch.    *)
(***************************************************************************)
StartSave ==
    /\ Shows("customer") /\ progress.checkoutId # NULL
    /\ save.at = "idle"
    /\ save' = [NoSave EXCEPT !.at = "put", !.version = page.view.version, !.own = TRUE,
                              !.checkoutId = progress.checkoutId]
    /\ UNCHANGED <<serverVars, progress, page, post, faults>>

\* saveWithCanonicalRecovery returned version.
Saved(version) ==
    IF save.part = "customer"
    THEN [NoSave EXCEPT !.at = "put", !.part = "deliveryDetails", !.version = version,
                        !.own = save.own, !.checkoutId = save.checkoutId]
    ELSE [save EXCEPT !.at = "final"]

Recover(retry) == [save EXCEPT !.at = "recover", !.retry = retry]

\* The PUT: applied, refused, or its answer lost.  Answered or not, the query
\* is invalidated and read again.
SavePut ==
    /\ save.at = "put"
    /\ LET c == save.checkoutId
       IN  \/ /\ Puts(c, save.version)
              /\ draft' = Edited(c, save.part, "mine")
              /\ \/ NoFault /\ save' = Saved(save.version + 1)
                 \/ Fault /\ save' = Recover(TRUE)
           \/ /\ ~Puts(c, save.version)
              /\ NoFault
              /\ save' = Recover(Readable(c) /\ draft[c].version # save.version)
              /\ UNCHANGED draft
           \/ /\ Fault
              /\ save' = Recover(TRUE)
              /\ UNCHANGED draft
    /\ page' = [page EXCEPT !.fetching = @ \/ (Mounted /\ progress.checkoutId = save.checkoutId)]
    /\ UNCHANGED <<payment, progress, post>>

\* A hook whose dialog is gone, or whose checkout was cleared, cannot refetch:
\* the flow fails.  It reads the checkout that the slice names by then.
CanRefetch(flow) == flow.own /\ progress.checkoutId # NULL

IsApplied(view) == view[save.part] = "mine"

\* What the recovered view decides.
AfterRecovery(view) ==
    IF IsApplied(view) THEN Saved(view.version)
    ELSE IF save.attempt = 2 \/ ~save.retry THEN NoSave
    ELSE [save EXCEPT !.at = "put", !.attempt = @ + 1, !.version = view.version]

SaveRecover ==
    /\ save.at = "recover"
    /\ \/ /\ CanRefetch(save)
          /\ \E r \in [view : {page.view, Snapshot(progress.checkoutId)}, gone : BOOLEAN] :
                /\ Get(r)
                /\ save' = AfterRecovery(r.view)
                /\ page' = PageAfter(r)
                /\ progress' = ProgressAfter(r)
       \/ /\ ~CanRefetch(save)
          /\ save' = NoSave
          /\ UNCHANGED <<page, progress, faults>>
    /\ UNCHANGED <<serverVars, post>>

SaveFinal ==
    /\ save.at = "final"
    /\ save' = NoSave
    /\ \/ /\ CanRefetch(save)
          /\ \E r \in [view : {page.view, Snapshot(progress.checkoutId)}, gone : BOOLEAN] :
                /\ Get(r)
                /\ page' = PageAfter(r)
                /\ progress' = AtStep(ProgressAfter(r), "acceptances")
       \/ /\ ~CanRefetch(save)
          /\ UNCHANGED <<page, progress, faults>>
    /\ UNCHANGED <<serverVars, post>>

-----------------------------------------------------------------------------
(***************************************************************************)
(* startPayment.                                                           *)
(***************************************************************************)
\* The parts of a draft a submission is about.
Reviewed(d) == <<d.customer, d.deliveryDetails>>

ShowsReview == Shows("review") /\ page.selection
HasPrerequisites == progress.checkoutId # NULL /\ progress.key # NULL /\ page.token # "none"

StartPayment(p) ==
    /\ ShowsReview /\ HasPrerequisites
    /\ ~Submitting
    /\ post[p].at = "unsent"
    /\ post' = [post EXCEPT ![p] =
                  [NoPost EXCEPT !.at = "awaiting", !.own = TRUE, !.net = TRUE,
                                 !.checkoutId = progress.checkoutId, !.key = progress.key,
                                 !.quote = page.view.checkoutId,
                                 !.version = page.view.version, !.token = page.token,
                                 !.seen = Reviewed(page.view)]]
    /\ page' = [page EXCEPT !.token = "sent", !.uncertain = FALSE]
    /\ UNCHANGED <<serverVars, progress, save, faults>>

StartWithoutToken ==
    /\ ShowsReview /\ ~HasPrerequisites
    /\ ~Submitting
    /\ progress' = AtStep(progress, "payment")
    /\ UNCHANGED page
    /\ Local

\* What the dialog holds once its submission has been answered; the dialog that
\* came after the one that submitted keeps its own card.
AfterAnswer(p) == IF post[p].own THEN WithoutSecrets ELSE page

Reply(p, at) == [post EXCEPT ![p].at = at, ![p].reply = NULL,
                             ![p].own = post[p].own /\ at # "done"]

\* transactionAccepted and onStatusRoute, from a dialog or from one left behind.
ShowAccepted(p, t) ==
    IF Mounted
    THEN /\ progress' = TransactionAccepted(progress, t)
         /\ page' = [AfterAnswer(p) EXCEPT !.route = "status"]
    ELSE Mount("status", TransactionAccepted(progress, t))

PostAccepted(p) ==
    /\ post[p].at = "awaiting" /\ post[p].reply \in Posts
    /\ ShowAccepted(p, post[p].reply)
    /\ post' = Reply(p, "done")
    /\ UNCHANGED <<serverVars, save, faults>>

PostRefused(p) ==
    /\ post[p].at = "awaiting"
    /\ \/ /\ post[p].reply = "410"
          /\ progress' = Cleared
          /\ page' = [AfterAnswer(p) EXCEPT !.error = @ \/ post[p].own]
          /\ post' = Reply(p, "done")
          /\ UNCHANGED save
       \/ /\ post[p].reply \in {"QUOTE_STALE", "OUT_OF_STOCK"}
          /\ progress' = Cleared
          /\ IF Mounted
             THEN /\ page' = [FreshPage("product") EXCEPT !.view = page.view]
                  /\ save' = [save EXCEPT !.own = FALSE]
                  /\ post' = [Orphaned EXCEPT ![p].at = "done", ![p].reply = NULL]
             ELSE post' = Reply(p, "done") /\ UNCHANGED <<page, save>>
       \/ /\ post[p].reply \in {"412", "422", "409"}
          /\ page' = AfterAnswer(p)
          /\ post' = Reply(p, CASE post[p].reply = "412" -> "refetch"
                                [] post[p].reply = "422" -> "reconfigure"
                                [] post[p].reply = "409" -> "recover")
          /\ UNCHANGED <<progress, save>>
    /\ UNCHANGED <<serverVars, faults>>

\* No answer, or one that cannot be read.  The POST may still arrive.
PostLost(p) ==
    /\ post[p].at = "awaiting"
    /\ Fault
    /\ page' = AfterAnswer(p)
    /\ post' = [post EXCEPT ![p].at = "recover"]
    /\ UNCHANGED <<serverVars, progress, save>>

\* The refetch of the 412 branch, then back to the card.
PostRefetch(p) ==
    /\ post[p].at \in {"refetch", "reconfigure"}
    /\ post' = Reply(p, "done")
    /\ \/ /\ post[p].at = "refetch" /\ CanRefetch(post[p])
          /\ \E r \in [view : {page.view, Snapshot(progress.checkoutId)}, gone : BOOLEAN] :
                /\ Get(r)
                /\ page' = PageAfter(r)
                /\ progress' = AtStep(ProgressAfter(r), "payment")
       \/ /\ post[p].at = "reconfigure" /\ post[p].own
          /\ progress' = AtStep(progress, "payment")
          /\ UNCHANGED <<page, faults>>
       \/ /\ ~(post[p].own /\ (post[p].at = "refetch" => CanRefetch(post[p])))
          /\ UNCHANGED <<page, progress, faults>>
    /\ UNCHANGED <<serverVars, save>>

\* recoverAfterSubmission: adopt what the refetched checkout names.
Adopts(r) ==
    /\ progress' = TransactionAccepted(ProgressAfter(r), r.view.active)
    /\ page' = [PageAfter(r) EXCEPT !.route = "status"]

PostRecover(p) ==
    /\ post[p].at = "recover"
    /\ post' = Reply(p, "done")
    /\ \/ /\ CanRefetch(post[p])
          /\ \E r \in [view : {page.view, Snapshot(progress.checkoutId)}, gone : BOOLEAN] :
                /\ Get(r)
                /\ \/ r.view.active # NULL /\ Adopts(r)
                   \/ /\ r.view.active = NULL
                      /\ progress' = AtStep(ProgressAfter(r), "status")
                      /\ page' = [PageAfter(r) EXCEPT !.uncertain = TRUE]
       \/ /\ ~CanRefetch(post[p])
          /\ UNCHANGED <<page, progress, faults>>
    /\ UNCHANGED <<serverVars, save>>

\* The button of the panel shown after an unanswered submission.
ConsultSession ==
    /\ Shows("status")
    /\ page.uncertain /\ progress.transactionId = NULL /\ progress.checkoutId # NULL
    /\ \E r \in [view : {page.view, Snapshot(progress.checkoutId)}, gone : BOOLEAN] :
          /\ Get(r)
          /\ \/ r.view.active # NULL /\ Adopts(r)
             \/ /\ r.view.active = NULL
                /\ progress' = ProgressAfter(r)
                /\ page' = PageAfter(r)
    /\ UNCHANGED <<serverVars, save, post>>

-----------------------------------------------------------------------------
(***************************************************************************)
(* The status step.                                                        *)
(***************************************************************************)
PollTransaction ==
    /\ Mounted /\ progress.transactionId # NULL
    /\ page.shown # payment[progress.transactionId]
    /\ page' = [page EXCEPT !.shown = payment[progress.transactionId]]
    /\ UNCHANGED progress
    /\ Local

ShowsTransaction == Shows("status") /\ progress.transactionId # NULL /\ page.shown # NULL

\* What lets returnToProduct forget the checkout.  (The faulty variant always does.)
AlwaysForgets == TRUE
Forgets == page.shown = "SETTLED"

\* returnToProduct, and retryPayment for a failure that was released.
ReturnToProduct ==
    /\ \/ ShowsTransaction
       \/ Mounted /\ page.error
    /\ progress' = IF Forgets THEN Cleared ELSE progress
    /\ Unmount
    /\ UNCHANGED <<serverVars, faults>>

-----------------------------------------------------------------------------
BuyerNext ==
    /\ ~AdoptDue /\ ~TokenDue
    /\ \/ Open \/ Leave \/ Reload
       \/ Tokenized \/ AcceptTerms \/ Back \/ RefreshQuote \/ StartSave
       \/ \E p \in Posts : StartPayment(p)
       \/ StartWithoutToken \/ ConsultSession \/ ReturnToProduct

PageNext ==
    \/ CreateAnswered \/ Fetch \/ AdoptActive \/ RequireToken \/ TokenExpires
    \/ SavePut \/ SaveRecover \/ SaveFinal \/ PollTransaction
    \/ \E p \in Posts : \/ PostAccepted(p) \/ PostRefused(p) \/ PostLost(p)
                        \/ PostRefetch(p) \/ PostRecover(p)

ServerNext ==
    \/ \E p \in Posts : HandlePost(p)
    \/ \E p \in Payments : DecidePayment(p)
    \/ \E c \in Checkouts : Expire(c) \/ Lapse(c)
    \/ \E c \in Checkouts, part \in {"customer", "deliveryDetails"} : OtherTabEdits(c, part)
    \/ \E c \in Checkouts, o \in OtherPosts : OtherTabPays(c, o)

Next == (BuyerNext \/ PageNext \/ ServerNext) /\ UNCHANGED upsets

Spec == Init /\ [][Next]_<<vars, upsets>>

SubmissionStep(p) == PostAccepted(p) \/ PostRefused(p) \/ PostRefetch(p) \/ PostRecover(p)

(***************************************************************************)
(* The API answers a POST that reached it, and the browser runs what waits *)
(* for an answer.  A buyer who left a checkout comes back to it again and  *)
(* again, and now and then stays until it has been read.                   *)
(***************************************************************************)
Fairness ==
    /\ \A p \in Posts : WF_vars(HandlePost(p)) /\ WF_vars(SubmissionStep(p))
    /\ SF_vars(Open) /\ WF_vars(Leave)
    /\ SF_vars(Fetch) /\ SF_vars(AdoptActive)

FairSpec == Spec /\ Fairness

-----------------------------------------------------------------------------
(***************************************************************************)
(* Type invariant.                                                         *)
(***************************************************************************)
Progress == [checkoutId : Checkouts \cup {NULL}, transactionId : Payments \cup {NULL},
             key : Keys \cup {NULL}, step : Steps]

Saving == [at : {"idle", "put", "recover", "final"}, part : {"customer", "deliveryDetails"},
           version : 0..(MaxVersion + 1), attempt : {1, 2}, retry : BOOLEAN,
           own : BOOLEAN, checkoutId : Checkouts \cup {NULL}]

Page == [route : {"product", "capture", "status"}, view : View \cup {NULL},
         shown : (PaymentState \ {"NONE"}) \cup {NULL}, token : {"none", "fresh", "sent"},
         selection : BOOLEAN, uncertain : BOOLEAN, error : BOOLEAN, fetching : BOOLEAN,
         creating : BOOLEAN, lateCreate : BOOLEAN]

Submission ==
    [at : {"unsent", "awaiting", "refetch", "reconfigure", "recover", "done"}, own : BOOLEAN,
     checkoutId : Checkouts \cup {NULL}, quote : Checkouts \cup {NULL},
     version : 0..(MaxVersion + 1), key : Keys \cup {NULL}, token : {"none", "fresh", "sent"},
     seen : (PartState \X PartState) \cup {NULL}, net : BOOLEAN,
     reply : Posts \cup Codes \cup {NULL}]

\* Every variable has its shape: a save is tried at most twice, a shown payment
\* is one that exists.
TypeOK ==
    /\ draft \in [Checkouts -> Draft \cup {NULL}]
    /\ payment \in [Payments -> PaymentState]
    /\ progress \in Progress
    /\ page \in Page
    /\ save \in Saving
    /\ post \in [Posts -> Submission]
    /\ faults \in 0..MaxFaults

(***************************************************************************)
(* Safety.                                                                 *)
(***************************************************************************)
\* A card token is posted at most once, whatever was answered (startPayment
\* clears it on every path, and only a new capture sets another).
TokenSentOnce == \A p \in Posts : post[p].token # "sent"

\* What is paid is what the buyer had on screen when confirming, and it stays
\* so, although other tabs edit the same draft and saves are retried over it:
\* the version sent with the POST is the one that was shown.
AcceptedAsReviewed ==
    \A p \in Posts :
        payment[p] # "NONE" =>
            LET d == draft[post[p].checkoutId]
            IN  d.active = p /\ Reviewed(d) = post[p].seen

\* A submission answered with the payment of an earlier one (the slice keeps its
\* key over refusals and closings) gets the payment of what it confirmed.
ReplayAsReviewed ==
    \A p \in Posts :
        post[p].reply \in Posts => post[post[p].reply].seen = post[p].seen

\* Checkouts do not expire, quotes hold, stock lasts, the API can read its table,
\* and no flow outlives the dialog that began it.  The README says what happens
\* otherwise.
NothingLeftBehind == upsets \subseteq {"render"}

\* A pending payment of this tab is never forgotten: the slice still names its
\* checkout, through lost answers, reloads and refusals of later submissions.
PaymentStaysReachable ==
    NothingLeftBehind =>
        \A p \in Posts : payment[p] = "PENDING" => progress.checkoutId = post[p].checkoutId

\* The payment the status step shows is the one of the checkout the slice names,
\* although both ids are set by different flows.
ShowsItsOwnPayment ==
    NothingLeftBehind /\ progress.transactionId # NULL /\ progress.checkoutId # NULL =>
        draft[progress.checkoutId].active = progress.transactionId

(***************************************************************************)
(* Liveness.                                                               *)
(***************************************************************************)
\* Every submission comes to its end: submittingRef is reset, without which the
\* dialog could neither be closed nor pay.
SubmissionEnds == \A p \in Posts : (post[p].at = "awaiting") ~> (post[p].at = "done")

\* A buyer who comes back to the checkout gets to see the payment accepted for
\* it, even if every answer to the submission was lost or the tab was reloaded.
PaymentIsShown ==
    \A p \in Posts :
        (payment[p] # "NONE" /\ progress.checkoutId = post[p].checkoutId)
            ~> (progress.transactionId = p)

(***************************************************************************)
(* What the design documents say, and the code does not do: see README.    *)
(***************************************************************************)
\* While the payment is pending the dialog shows its status, and no step that
\* leads to paying.
ActivePaymentShowsStatus ==
    Mounted /\ ~page.error /\ progress.transactionId # NULL =>
        (payment[progress.transactionId] = "PENDING" => progress.step = "status")

\* A new checkout is created only when no payment of this tab is pending.
NewCheckoutOnlyWithoutActivePayment ==
    [][\A c \in Checkouts :
          draft[c] = NULL /\ draft'[c] # NULL => \A p \in Posts : payment[p] # "PENDING"]_vars
=============================================================================
