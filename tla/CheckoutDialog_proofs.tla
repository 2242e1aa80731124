----------------------- MODULE CheckoutDialog_proofs -----------------------
(***************************************************************************)
(* Theorems about CheckoutDialog, for any number of checkouts, submissions *)
(* and payments of other tabs, and for every set of upsets.                *)
(***************************************************************************)
EXTENDS CheckoutDialog, FiniteSetTheorems, TLAPS

-----------------------------------------------------------------------------
(***************************************************************************)
(* The inductive invariant.                                                *)
(***************************************************************************)
Started(p) == post[p].at # "unsent"
Waits(p) == post[p].at = "awaiting"

\* What is named exists: a checkout that the slice, the page or a flow names has
\* a row, and a payment that is named was accepted.
NamesInv ==
    /\ progress.checkoutId # NULL => Exists(progress.checkoutId)
    /\ progress.transactionId # NULL => payment[progress.transactionId] # "NONE"
    /\ page.view # NULL =>
          /\ Exists(page.view.checkoutId)
          /\ page.view.active # NULL => payment[page.view.active] # "NONE"
    /\ \A c \in Checkouts :
          Exists(c) => /\ draft[c].active # NULL => payment[draft[c].active] # "NONE"
                       /\ draft[c].active = NULL => draft[c].version <= MaxVersion
    /\ save.at # "idle" => save.checkoutId # NULL /\ Exists(save.checkoutId)
    /\ \A p \in Posts :
          /\ Started(p) => /\ post[p].checkoutId # NULL /\ Exists(post[p].checkoutId)
                           /\ post[p].quote # NULL /\ Exists(post[p].quote)
          /\ ~Started(p) => payment[p] = "NONE" /\ ~post[p].net /\ post[p].reply = NULL
          /\ post[p].net => payment[p] = "NONE"

\* A flow of the dialog on screen has that dialog, and a checkout shown in it.
FlowInv ==
    /\ save.own => Mounted /\ page.view # NULL /\ save.at # "idle"
    /\ \A p \in Posts :
          post[p].own => Mounted /\ page.view # NULL /\ post[p].at \notin {"unsent", "done"}
    /\ \A p, q \in Posts : post[p].own /\ post[q].own => p = q

\* A card that was sent is held only while its submission is awaited.
TokenInv ==
    /\ ~Mounted => page.token = "none"
    /\ page.token = "sent" => \E p \in Posts : post[p].own /\ Waits(p)
    /\ TokenSentOnce

\* One version of a checkout has one content, wherever it was seen: in the row,
\* on the page, or by a submission.
ContentInv ==
    /\ page.view # NULL =>
          /\ page.view.version <= draft[page.view.checkoutId].version
          /\ page.view.version = draft[page.view.checkoutId].version =>
                Reviewed(page.view) = Reviewed(draft[page.view.checkoutId])
    /\ \A p \in Posts : Started(p) =>
          /\ post[p].version <= draft[post[p].quote].version
          /\ post[p].version = draft[post[p].quote].version =>
                post[p].seen = Reviewed(draft[post[p].quote])
          /\ page.view # NULL /\ page.view.checkoutId = post[p].quote
                /\ page.view.version = post[p].version => post[p].seen = Reviewed(page.view)
    /\ \A p, q \in Posts :
          Started(p) /\ Started(q) /\ SameCommand(p, q) => post[p].seen = post[q].seen

\* What an answer names was accepted for the same checkout and the same content.
ReplyInv ==
    \A p \in Posts : post[p].reply \in Posts =>
        /\ payment[post[p].reply] # "NONE"
        /\ post[post[p].reply].checkoutId = post[p].checkoutId
        /\ post[post[p].reply].seen = post[p].seen

Inv == TypeOK /\ NamesInv /\ FlowInv /\ TokenInv /\ ContentInv /\ AcceptedAsReviewed /\ ReplyInv

(***************************************************************************)
(* The invariant where nothing is left behind.                             *)
(***************************************************************************)
\* The API refuses nothing for reasons of its own, and answers no create late.
CalmInv ==
    /\ \A c \in Checkouts : Exists(c) => ~draft[c].expired /\ ~draft[c].lapsed
    /\ ~page.lateCreate
    /\ \A p \in Posts : post[p].reply \notin {"410", "QUOTE_STALE", "OUT_OF_STOCK"}

\* The page is about the checkout of the slice, and submits that one.
PageInv ==
    /\ Mounted /\ page.view # NULL => page.view.checkoutId = progress.checkoutId
    /\ page.creating => Mounted /\ progress.checkoutId = NULL
    /\ progress.checkoutId = NULL => progress.step = "payment" /\ progress.transactionId = NULL
    /\ Mounted /\ progress.step \in {"acceptances", "review"} => save.at = "idle" /\ ~page.fetching
    /\ \A p \in Posts : Started(p) => post[p].quote = post[p].checkoutId

\* While a submission is awaited its dialog stays at the review.
WaitingInv ==
    \A p \in Posts : Waits(p) =>
        /\ post[p].own /\ progress.checkoutId = post[p].checkoutId
        /\ progress.step = "review" /\ page.token = "sent"
        /\ ~page.error /\ ~AdoptDue

\* Wherever the payment of a checkout is named, it is the one its row names.
ActiveInv ==
    /\ page.view # NULL /\ page.view.active # NULL =>
          page.view.active = draft[page.view.checkoutId].active
    /\ progress.transactionId # NULL => progress.transactionId = draft[progress.checkoutId].active
    /\ page.shown # NULL => progress.transactionId # NULL
    /\ page.shown = "SETTLED" => payment[progress.transactionId] = "SETTLED"

\* The slice names every checkout that a payment is, or may still be, pending for.
ReachInv ==
    \A p \in Posts :
        payment[p] = "PENDING" \/ (post[p].net /\ draft[post[p].checkoutId].active = NULL) =>
            progress.checkoutId = post[p].checkoutId

Kept == CalmInv /\ PageInv /\ WaitingInv /\ ActiveInv /\ ReachInv

-----------------------------------------------------------------------------
(***************************************************************************)
(* The operators.                                                          *)
(***************************************************************************)
\* There are more keys than submissions, so a new one can be drawn.
LEMMA NewKeyIsKey ==
    ASSUME TypeOK
    PROVE  NewKey \in Keys
<1> DEFINE sent == {k \in Keys : \E p \in Posts : post[p].key = k}
           n == Cardinality(Posts)
<1>1. IsFiniteSet(Posts) /\ n \in Nat
  BY PostsAssumption, FS_CardinalityType
<1>2. IsFiniteSet(Keys) /\ Cardinality(Keys) = n + 1
  BY <1>1, FS_Interval DEF Keys
<1>3. SUFFICES ASSUME \A k \in Keys : \E p \in Posts : post[p].key = k
               PROVE  FALSE
  BY DEF NewKey
<1> DEFINE by == [k \in Keys |-> CHOOSE p \in Posts : post[p].key = k]
<1>4. \A k \in Keys : by[k] \in Posts /\ post[by[k]].key = k
  BY <1>3
<1>5. by \in [Keys -> Posts]
  BY <1>4
<1> HIDE DEF by
<1>6. PICK k \in Keys, l \in Keys : k # l /\ by[k] = by[l]
  BY <1>1, <1>2, <1>5, FS_PigeonHole
<1> QED
  BY <1>4, <1>6

\* A checkout is read as its row has it.
LEMMA SnapshotFacts ==
    ASSUME TypeOK, NEW c \in Checkouts, Exists(c)
    PROVE  /\ draft[c] \in Draft
           /\ Snapshot(c) \in View
           /\ Snapshot(c).checkoutId = c
           /\ Snapshot(c).version = draft[c].version
           /\ Snapshot(c).active = draft[c].active
           /\ Reviewed(Snapshot(c)) = Reviewed(draft[c])
<1>1. draft[c] \in Draft
  BY DEF TypeOK, Exists
<1> QED
  BY <1>1 DEF Snapshot, View, Draft, Reviewed

\* A checkout that is recovered keeps its ids and starts at the card, or shows
\* its payment.
LEMMA RecoveredFacts ==
    ASSUME TypeOK, NEW s \in Progress
    PROVE  /\ CheckoutRecovered(s) \in Progress
           /\ CheckoutRecovered(s).checkoutId = s.checkoutId
           /\ CheckoutRecovered(s).transactionId = s.transactionId
           /\ CheckoutRecovered(s).step \in {"payment", "status"}
<1>1. NewKey \in Keys
  BY NewKeyIsKey
<1> DEFINE k == IF s.key = NULL THEN NewKey ELSE s.key
<1>2. k \in Keys
  BY <1>1 DEF Progress
<1>3. CASE s.transactionId = NULL
  <2>1. CheckoutRecovered(s) = [AtStep(s, "payment") EXCEPT !.key = k]
    BY <1>3 DEF CheckoutRecovered
  <2> HIDE DEF k
  <2> QED
    BY <1>2, <2>1 DEF AtStep, Progress, Steps
<1>4. CASE s.transactionId # NULL
  BY <1>4 DEF CheckoutRecovered, AtStep, Progress, Steps
<1> QED
  BY <1>3, <1>4

\* The steps of the slice.
LEMMA SliceFacts ==
    ASSUME TypeOK, NEW s \in Progress
    PROVE  /\ Cleared \in Progress
           /\ ReadProgress(s) \in Progress
           /\ ReadProgress(s).checkoutId = s.checkoutId
           /\ ReadProgress(s).transactionId \in {s.transactionId, NULL}
           /\ \A step \in Steps :
                 /\ AtStep(s, step) \in Progress
                 /\ AtStep(s, step).checkoutId = s.checkoutId
                 /\ AtStep(s, step).transactionId = s.transactionId
                 /\ AtStep(s, step).step = step
           /\ \A t \in Payments :
                 /\ TransactionAccepted(s, t) \in Progress
                 /\ TransactionAccepted(s, t).checkoutId = s.checkoutId
                 /\ TransactionAccepted(s, t).transactionId = t
                 /\ TransactionAccepted(s, t).step = "status"
  BY DEF Cleared, ReadProgress, AtStep, TransactionAccepted, Progress, Steps

\* No save is a save that is idle and nobody's.
LEMMA NoSaveFacts ==
    /\ NoSave \in Saving /\ NoSave.at = "idle" /\ ~NoSave.own
<1>1. MaxVersion \in Nat
  BY BoundsAssumption
<1>2. 0 \in 0..(MaxVersion + 1)
  BY <1>1
<1> QED
  BY <1>2 DEF NoSave, Saving

\* A fresh page is a page without a card.
LEMMA FreshPageFacts ==
    ASSUME TypeOK, NEW route \in {"product", "capture", "status"}
    PROVE  /\ FreshPage(route) \in Page
           /\ FreshPage(route).route = route /\ FreshPage(route).token = "none"
           /\ FreshPage(route).view = NULL /\ FreshPage(route).shown = NULL
           /\ ~FreshPage(route).creating
  BY DEF FreshPage, TypeOK, Page

-----------------------------------------------------------------------------

\* What a GET of the slice's checkout leaves: the view that was there, or a new
\* one; the slice, or an empty one.
LEMMA GetFacts ==
    ASSUME TypeOK, NamesInv, progress.checkoutId # NULL,
           NEW r \in [view : {page.view, Snapshot(progress.checkoutId)}, gone : BOOLEAN],
           Get(r)
    PROVE  /\ r.view = page.view \/ r.view = Snapshot(progress.checkoutId)
           /\ r.view \in View \cup {NULL}
           /\ page.view # NULL => r.view # NULL
           /\ PageAfter(r) \in Page /\ PageAfter(r).view = r.view
           /\ PageAfter(r) = [page EXCEPT !.view = r.view, !.fetching = FALSE,
                                          !.error = page.error \/ r.gone]
           /\ ProgressAfter(r) = progress \/ ProgressAfter(r) = Cleared
           /\ ProgressAfter(r) \in Progress
           /\ faults' \in 0..MaxFaults
           /\ r.gone /\ NothingLeftBehind => ~Readable(progress.checkoutId)
<1>1. progress.checkoutId \in Checkouts /\ Exists(progress.checkoutId)
  BY DEF TypeOK, Progress, NamesInv
<1>2. Snapshot(progress.checkoutId) \in View
  BY <1>1, SnapshotFacts
<1>3. r.view = page.view \/ r.view = Snapshot(progress.checkoutId)
  OBVIOUS
<1>4. r.view \in View \cup {NULL}
  BY <1>2, <1>3 DEF TypeOK, Page
<1>5. page.view # NULL => r.view # NULL
  BY <1>2, <1>3, NullAssumption
<1>6. r.gone \in BOOLEAN
  OBVIOUS
<1>7. PageAfter(r) = [page EXCEPT !.view = r.view, !.fetching = FALSE,
                                  !.error = page.error \/ r.gone]
  BY DEF PageAfter
<1>8. PageAfter(r) \in Page /\ PageAfter(r).view = r.view
  <2> DEFINE v == r.view
             e == page.error \/ r.gone
  <2>1. v \in View \cup {NULL} /\ e \in BOOLEAN
    BY <1>4, <1>6 DEF TypeOK, Page
  <2>2. PageAfter(r) = [page EXCEPT !.view = v, !.fetching = FALSE, !.error = e]
    BY <1>7
  <2>3. page \in Page
    BY DEF TypeOK
  <2> HIDE DEF v, e
  <2>4. PageAfter(r) \in Page /\ PageAfter(r).view = v
    BY <2>1, <2>2, <2>3 DEF Page
  <2> QED
    BY <2>4 DEF v
<1>9. ProgressAfter(r) \in Progress /\ (ProgressAfter(r) = progress \/ ProgressAfter(r) = Cleared)
  BY SliceFacts DEF ProgressAfter, TypeOK
<1>10. faults' \in 0..MaxFaults
  <2>1. NoFault \/ Fault
    BY DEF Get
  <2>2. faults \in 0..MaxFaults /\ MaxFaults \in Nat
    BY BoundsAssumption DEF TypeOK
  <2> QED
    BY <2>1, <2>2 DEF Fault, NoFault
<1>11. r.gone /\ NothingLeftBehind => ~Readable(progress.checkoutId)
  <2> SUFFICES ASSUME r.gone, NothingLeftBehind
               PROVE  ~Readable(progress.checkoutId)
    OBVIOUS
  <2>1. "read" \notin upsets
    BY DEF NothingLeftBehind
  <2>2. CASE Fault /\ \E gone \in {FALSE} \cup {x \in {TRUE} : "read" \in upsets} :
                        r = [view |-> page.view, gone |-> gone]
    BY <2>1, <2>2
  <2>3. CASE Readable(progress.checkoutId) /\ NoFault
             /\ r = [view |-> Snapshot(progress.checkoutId), gone |-> FALSE]
    BY <2>3
  <2> QED
    BY <2>2, <2>3 DEF Get
<1> QED
  BY <1>3, <1>4, <1>5, <1>7, <1>8, <1>9, <1>10, <1>11

\* A dialog that is opened holds no card, and shows the cached view or none.
LEMMA MountFacts ==
    ASSUME TypeOK, NEW route \in {"capture", "status"}, NEW s \in Progress, Mount(route, s)
    PROVE  /\ page' \in Page /\ progress' \in Progress
           /\ page'.route = route /\ page'.token = "none" /\ page'.shown = NULL
           /\ page'.view = Cached(s.checkoutId) /\ page'.creating \in BOOLEAN
           /\ page'.creating => s.checkoutId = NULL
           /\ page'.lateCreate = FreshPage(route).lateCreate
           /\ progress'.checkoutId = s.checkoutId
           /\ progress'.transactionId = s.transactionId
           /\ progress' = s \/ progress'.step \in {"payment", "status"}
           /\ s.checkoutId # NULL => progress'.step \in {"payment", "status"}
           /\ s.checkoutId = NULL => progress' = s /\ ~page'.fetching
<1>1. FreshPage(route) \in Page /\ FreshPage(route).token = "none"
      /\ FreshPage(route).route = route /\ FreshPage(route).shown = NULL
  BY FreshPageFacts
<1>2. Cached(s.checkoutId) \in View \cup {NULL}
  BY DEF Cached, TypeOK, Page
<1> DEFINE v == Cached(s.checkoutId)
           f == s.checkoutId # NULL
           k == s.checkoutId = NULL /\ route = "capture"
           e == s.checkoutId = NULL /\ route = "status"
<1>3. page' = [FreshPage(route) EXCEPT !.view = v, !.fetching = f, !.creating = k, !.error = e]
  BY DEF Mount
<1>4. v \in View \cup {NULL} /\ f \in BOOLEAN /\ k \in BOOLEAN /\ e \in BOOLEAN
  BY <1>2
<1>5. k => s.checkoutId = NULL
  OBVIOUS
<1>6. s.checkoutId = NULL => ~f
  OBVIOUS
<1> HIDE DEF v, f, k, e
<1>7. /\ page' \in Page
      /\ page'.route = route /\ page'.token = "none" /\ page'.shown = NULL
      /\ page'.view = v /\ page'.creating = k /\ page'.fetching = f
      /\ page'.lateCreate = FreshPage(route).lateCreate
  BY <1>1, <1>3, <1>4 DEF Page
<1>8. CASE s.checkoutId = NULL
  <2>1. progress' = s
    BY <1>8 DEF Mount
  <2> QED
    BY <1>4, <1>5, <1>6, <1>7, <1>8, <2>1 DEF v
<1>9. CASE s.checkoutId # NULL
  <2>1. progress' = CheckoutRecovered(s)
    BY <1>9 DEF Mount
  <2> QED
    BY <1>4, <1>5, <1>7, <1>9, <2>1, RecoveredFacts DEF v
<1> QED
  BY <1>8, <1>9

-----------------------------------------------------------------------------

(***************************************************************************)
(* Steps that leave the API's rows alone.  A view comes from the page, from *)
(* a row, or is dropped; a submission that is on its way stays as it is.   *)
(***************************************************************************)
ViewFrom(v) == v = NULL \/ v = page.view \/ \E c \in Checkouts : Exists(c) /\ v = Snapshot(c)

SameSubmission(p) ==
    /\ Started(p)' <=> Started(p)
    /\ post'[p].checkoutId = post[p].checkoutId /\ post'[p].quote = post[p].quote
    /\ post'[p].version = post[p].version /\ post'[p].seen = post[p].seen
    /\ post'[p].token = post[p].token /\ post'[p].net = post[p].net
    /\ post'[p].reply = post[p].reply \/ post'[p].reply = NULL

ClientStep ==
    /\ UNCHANGED serverVars
    /\ page' \in Page /\ progress' \in Progress /\ save' \in Saving
    /\ post' \in [Posts -> Submission] /\ faults' \in 0..MaxFaults
    /\ \A p \in Posts : SameSubmission(p)
    /\ progress'.checkoutId \in {progress.checkoutId, NULL}
    /\ progress'.transactionId # NULL =>
          \/ progress'.transactionId = progress.transactionId
          \/ payment[progress'.transactionId] # "NONE"
    /\ ViewFrom(page'.view)
    /\ save'.at # "idle" => save'.checkoutId # NULL /\ Exists(save'.checkoutId)

\* What is on the page is consistent with the rows, whatever it came from.
LEMMA ViewFromFacts ==
    ASSUME TypeOK, NamesInv, ContentInv, NEW v, ViewFrom(v), v # NULL
    PROVE  /\ v \in View /\ Exists(v.checkoutId)
           /\ v.active # NULL => payment[v.active] # "NONE"
           /\ v.version <= draft[v.checkoutId].version
           /\ v.version = draft[v.checkoutId].version => Reviewed(v) = Reviewed(draft[v.checkoutId])
           /\ \A p \in Posts :
                 Started(p) /\ v.checkoutId = post[p].quote /\ v.version = post[p].version =>
                     post[p].seen = Reviewed(v)
<1>1. CASE v = page.view
  BY <1>1 DEF NamesInv, ContentInv, TypeOK, Page
<1>2. CASE \E c \in Checkouts : Exists(c) /\ v = Snapshot(c)
  <2>1. PICK c \in Checkouts : Exists(c) /\ v = Snapshot(c)
    BY <1>2
  <2>2. /\ v \in View /\ v.checkoutId = c /\ v.version = draft[c].version
        /\ v.active = draft[c].active /\ Reviewed(v) = Reviewed(draft[c])
        /\ draft[c] \in Draft
    BY <2>1, SnapshotFacts
  <2>3. draft[c].version <= draft[c].version
    BY <2>2 DEF Draft
  <2>4. v.active # NULL => payment[v.active] # "NONE"
    BY <2>1, <2>2 DEF NamesInv
  <2>5. ASSUME NEW p \in Posts, Started(p), c = post[p].quote, draft[c].version = post[p].version
        PROVE  post[p].seen = Reviewed(v)
    BY <2>2, <2>5 DEF ContentInv
  <2> QED
    BY <2>1, <2>2, <2>3, <2>4, <2>5
<1> QED
  BY <1>1, <1>2 DEF ViewFrom

\* Such a step keeps everything but what is said of flows and of the card.
LEMMA ClientKeeps ==
    ASSUME Inv, ClientStep
    PROVE  TypeOK' /\ NamesInv' /\ ContentInv' /\ AcceptedAsReviewed' /\ ReplyInv'
           /\ TokenSentOnce'
<1> USE DEF Inv
<1>1. draft' = draft /\ payment' = payment
  BY DEF ClientStep, serverVars
<1>2. TypeOK'
  BY <1>1 DEF TypeOK, ClientStep
<1>3. \A p \in Posts : SameSubmission(p)
  BY DEF ClientStep
<1>4. page'.view # NULL =>
        /\ page'.view \in View /\ Exists(page'.view.checkoutId)
        /\ page'.view.active # NULL => payment[page'.view.active] # "NONE"
        /\ page'.view.version <= draft[page'.view.checkoutId].version
        /\ page'.view.version = draft[page'.view.checkoutId].version =>
              Reviewed(page'.view) = Reviewed(draft[page'.view.checkoutId])
        /\ \A p \in Posts :
              Started(p) /\ page'.view.checkoutId = post[p].quote
                /\ page'.view.version = post[p].version => post[p].seen = Reviewed(page'.view)
  BY ViewFromFacts DEF ClientStep
<1>5. NamesInv'
  <2>1. progress'.checkoutId # NULL => Exists(progress'.checkoutId)
    BY DEF ClientStep, NamesInv
  <2>2. progress'.transactionId # NULL => payment[progress'.transactionId] # "NONE"
    BY DEF ClientStep, NamesInv
  <2>3. save'.at # "idle" => save'.checkoutId # NULL /\ Exists(save'.checkoutId)
    BY DEF ClientStep
  <2>4. ASSUME NEW p \in Posts
        PROVE  /\ Started(p)' => /\ post'[p].checkoutId # NULL /\ Exists(post'[p].checkoutId)
                                 /\ post'[p].quote # NULL /\ Exists(post'[p].quote)
               /\ ~Started(p)' => payment[p] = "NONE" /\ ~post'[p].net /\ post'[p].reply = NULL
               /\ post'[p].net => payment[p] = "NONE"
    BY <1>3 DEF SameSubmission, NamesInv
  <2>5. \A c \in Checkouts :
          Exists(c) => /\ draft[c].active # NULL => payment[draft[c].active] # "NONE"
                       /\ draft[c].active = NULL => draft[c].version <= MaxVersion
    BY DEF NamesInv
  <2> QED
    BY <1>1, <1>4, <2>1, <2>2, <2>3, <2>4, <2>5 DEF NamesInv, Exists
<1>6. ContentInv'
  <2>1. ASSUME NEW p \in Posts, Started(p)'
        PROVE  /\ post'[p].version <= draft[post'[p].quote].version
               /\ post'[p].version = draft[post'[p].quote].version =>
                     post'[p].seen = Reviewed(draft[post'[p].quote])
               /\ page'.view # NULL /\ page'.view.checkoutId = post'[p].quote
                     /\ page'.view.version = post'[p].version =>
                        post'[p].seen = Reviewed(page'.view)
    <3>1. Started(p) /\ post'[p].quote = post[p].quote /\ post'[p].version = post[p].version
          /\ post'[p].seen = post[p].seen
      BY <1>3, <2>1 DEF SameSubmission
    <3>2. /\ post[p].version <= draft[post[p].quote].version
          /\ post[p].version = draft[post[p].quote].version =>
                post[p].seen = Reviewed(draft[post[p].quote])
      BY <3>1 DEF ContentInv
    <3> QED
      BY <1>4, <3>1, <3>2
  <2>2. ASSUME NEW p \in Posts, NEW q \in Posts, Started(p)', Started(q)', SameCommand(p, q)'
        PROVE  post'[p].seen = post'[q].seen
    BY <1>3, <2>2 DEF SameSubmission, SameCommand, ContentInv
  <2> QED
    BY <1>1, <1>4, <2>1, <2>2 DEF ContentInv, Reviewed
<1>7. AcceptedAsReviewed'
  BY <1>1, <1>3 DEF AcceptedAsReviewed, SameSubmission, Reviewed
<1>8. ReplyInv'
  <2> SUFFICES ASSUME NEW p \in Posts, post'[p].reply \in Posts
               PROVE  /\ payment'[post'[p].reply] # "NONE"
                      /\ post'[post'[p].reply].checkoutId = post'[p].checkoutId
                      /\ post'[post'[p].reply].seen = post'[p].seen
    BY DEF ReplyInv
  <2>1. NULL \notin Posts
    BY NullAssumption DEF Payments
  <2>2. post'[p].reply = post[p].reply
    BY <1>3, <2>1 DEF SameSubmission
  <2>3. PICK q \in Posts : q = post[p].reply
    BY <2>2
  <2> QED
    BY <1>1, <1>3, <2>2, <2>3 DEF SameSubmission, ReplyInv
<1>9. TokenSentOnce'
  BY <1>3 DEF TokenInv, TokenSentOnce, SameSubmission
<1> QED
  BY <1>2, <1>5, <1>6, <1>7, <1>8, <1>9

-----------------------------------------------------------------------------

\* The dialog stays, or nothing of it does.
Stays ==
    /\ Mounted => Mounted' /\ (page.view # NULL => page'.view # NULL)
    /\ save'.own => (save.own \/ (Mounted /\ page.view # NULL)) /\ save'.at # "idle"
    /\ \A p \in Posts :
          post'[p].own => post[p].own /\ post'[p].at \notin {"unsent", "done"}

NothingOwn == ~save'.own /\ \A p \in Posts : ~post'[p].own

\* A card that was sent goes, or its submission is awaited as before.
CardGoes ==
    /\ ~Mounted' => page'.token = "none"
    /\ page'.token # "sent" \/
          /\ page'.token = page.token
          /\ \A p \in Posts : post[p].own /\ Waits(p) => post'[p].own /\ Waits(p)'

\* A step of the client keeps the invariant.
LEMMA ClientKeepsInv ==
    ASSUME Inv, ClientStep, Stays \/ NothingOwn, CardGoes
    PROVE  Inv'
<1> USE DEF Inv
<1>1. TypeOK' /\ NamesInv' /\ ContentInv' /\ AcceptedAsReviewed' /\ ReplyInv' /\ TokenSentOnce'
  BY ClientKeeps
<1>2. FlowInv'
  <2>1. CASE NothingOwn
    BY <2>1 DEF NothingOwn, FlowInv
  <2>2. CASE Stays
    <3>1. save'.own => Mounted' /\ page'.view # NULL /\ save'.at # "idle"
      BY <2>2 DEF Stays, FlowInv
    <3>2. \A p \in Posts :
            post'[p].own => Mounted' /\ page'.view # NULL /\ post'[p].at \notin {"unsent", "done"}
      BY <2>2 DEF Stays, FlowInv
    <3>3. \A p, q \in Posts : post'[p].own /\ post'[q].own => p = q
      BY <2>2 DEF Stays, FlowInv
    <3> QED
      BY <3>1, <3>2, <3>3 DEF FlowInv
  <2> QED
    BY <2>1, <2>2
<1>3. TokenInv'
  <2>1. page'.token = "sent" => \E p \in Posts : post'[p].own /\ Waits(p)'
    BY DEF CardGoes, TokenInv
  <2> QED
    BY <1>1, <2>1 DEF CardGoes, TokenInv
<1> QED
  BY <1>1, <1>2, <1>3

\* A step that touches only the slice and the page.
LEMMA LocalKeepsInv ==
    ASSUME Inv, UNCHANGED <<serverVars, save, post>>,
           page' \in Page, progress' \in Progress, faults' \in 0..MaxFaults,
           progress'.checkoutId \in {progress.checkoutId, NULL},
           progress'.transactionId # NULL =>
              \/ progress'.transactionId = progress.transactionId
              \/ payment[progress'.transactionId] # "NONE",
           ViewFrom(page'.view),
           Mounted => Mounted' /\ (page.view # NULL => page'.view # NULL),
           ~Mounted' => page'.token = "none",
           page'.token # "sent" \/ page'.token = page.token
    PROVE  Inv'
<1> USE DEF Inv
<1>1. draft' = draft /\ payment' = payment /\ save' = save /\ post' = post
  BY DEF serverVars
<1>2. \A p \in Posts : SameSubmission(p)
  BY <1>1 DEF SameSubmission, Started
<1>3. save'.at # "idle" => save'.checkoutId # NULL /\ Exists(save'.checkoutId)
  BY <1>1 DEF NamesInv
<1>4. ClientStep
  BY <1>1, <1>2, <1>3 DEF ClientStep, serverVars, TypeOK
<1>5. Stays
  BY <1>1 DEF Stays, FlowInv
<1>6. CardGoes
  BY <1>1 DEF CardGoes, Waits
<1> QED
  BY <1>4, <1>5, <1>6, ClientKeepsInv

\* A cached view is the page's.
LEMMA CachedIsFrom ==
    ASSUME NEW c
    PROVE  ViewFrom(Cached(c)) /\ (Cached(c) # NULL => Cached(c).checkoutId = c)
  BY DEF Cached, ViewFrom

\* The dialog is opened.
LEMMA OpenKeeps ==
    ASSUME Inv, Open
    PROVE  Inv'
<1> USE DEF Inv
<1> DEFINE route == IF progress.transactionId = NULL THEN "capture" ELSE "status"
<1>1. progress \in Progress /\ faults \in 0..MaxFaults
  BY DEF TypeOK
<1>2. route \in {"capture", "status"} /\ Mount(route, progress) /\ Local /\ ~Mounted
  BY DEF Open
<1> HIDE DEF route
<1>3. /\ page' \in Page /\ progress' \in Progress
      /\ page'.route = route /\ page'.token = "none"
      /\ page'.view = Cached(progress.checkoutId)
      /\ progress'.checkoutId = progress.checkoutId
      /\ progress'.transactionId = progress.transactionId
  BY <1>1, <1>2, MountFacts
<1>4. UNCHANGED <<serverVars, save, post>> /\ faults' = faults
  BY <1>2 DEF Local
<1>5. ViewFrom(page'.view)
  BY <1>3, CachedIsFrom
<1>6. Mounted'
  BY <1>2, <1>3 DEF Mounted
<1> QED
  BY <1>1, <1>2, <1>3, <1>4, <1>5, <1>6, LocalKeepsInv

\* The steps of the buyer that write no more than a step of the slice, a card or
\* a selection; the timers and effects that do.
LEMMA StepsKeep ==
    ASSUME Inv, Tokenized \/ AcceptTerms \/ Back \/ StartWithoutToken \/ RequireToken
                \/ TokenExpires
    PROVE  Inv'
<1> USE DEF Inv
<1>1. page \in Page /\ progress \in Progress /\ faults \in 0..MaxFaults
  BY DEF TypeOK
<1>2. PICK step \in Steps : progress' = AtStep(progress, step)
  BY DEF Tokenized, AcceptTerms, Back, StartWithoutToken, RequireToken, TokenExpires, Steps
<1>3. /\ progress' \in Progress /\ progress'.checkoutId = progress.checkoutId
      /\ progress'.transactionId = progress.transactionId
  BY <1>1, <1>2, SliceFacts
<1>4. Mounted
  BY DEF Tokenized, AcceptTerms, Back, StartWithoutToken, RequireToken, TokenExpires,
         Shows, ShowsReview, TokenDue
<1>5. \/ page' = page
      \/ page' = [page EXCEPT !.token = "fresh"]
      \/ page' = [page EXCEPT !.token = "none", !.selection = FALSE]
      \/ page' = [page EXCEPT !.selection = TRUE]
      \/ page' = [page EXCEPT !.selection = FALSE]
  BY DEF Tokenized, AcceptTerms, Back, StartWithoutToken, RequireToken, TokenExpires,
         WithoutSecrets
<1>6. /\ page' \in Page /\ page'.route = page.route /\ page'.view = page.view
      /\ page'.token # "sent" \/ page'.token = page.token
  BY <1>1, <1>5 DEF Page
<1>7. Mounted'
  BY <1>4, <1>6 DEF Mounted
<1>8. ViewFrom(page'.view)
  BY <1>6 DEF ViewFrom
<1>9. Local
  BY DEF Tokenized, AcceptTerms, Back, StartWithoutToken, RequireToken, TokenExpires
<1>10. UNCHANGED <<serverVars, save, post>> /\ faults' = faults
  BY <1>9 DEF Local
<1> QED
  BY <1>1, <1>3, <1>4, <1>6, <1>7, <1>8, <1>10, LocalKeepsInv

\* The status is polled.
LEMMA PollKeeps ==
    ASSUME Inv, PollTransaction
    PROVE  Inv'
<1> USE DEF Inv
<1>1. page \in Page /\ progress \in Progress /\ faults \in 0..MaxFaults
  BY DEF TypeOK
<1> DEFINE s == payment[progress.transactionId]
<1>2. s \in PaymentState \ {"NONE"}
  <2>1. progress.transactionId \in Payments
    BY <1>1 DEF PollTransaction, Progress
  <2> QED
    BY <2>1 DEF PollTransaction, TypeOK, NamesInv
<1>3. page' = [page EXCEPT !.shown = s]
  BY DEF PollTransaction
<1> HIDE DEF s
<1>4. /\ page' \in Page /\ page'.route = page.route /\ page'.view = page.view
      /\ page'.token = page.token
  BY <1>1, <1>2, <1>3 DEF Page
<1>5. Mounted /\ Mounted'
  BY <1>4 DEF PollTransaction, Mounted
<1>6. ViewFrom(page'.view)
  BY <1>4 DEF ViewFrom
<1>7. UNCHANGED <<serverVars, save, post>> /\ faults' = faults /\ progress' = progress
  BY DEF PollTransaction, Local
<1> QED
  BY <1>1, <1>4, <1>5, <1>6, <1>7, LocalKeepsInv

\* The page's effect adopts the active payment of the view.
LEMMA AdoptKeeps ==
    ASSUME Inv, AdoptActive
    PROVE  Inv'
<1> USE DEF Inv
<1>1. page \in Page /\ progress \in Progress /\ faults \in 0..MaxFaults
  BY DEF TypeOK
<1>2. Mounted /\ page.view # NULL /\ page.view.active # NULL
  BY DEF AdoptActive, AdoptDue
<1>3. page.view.active \in Payments /\ payment[page.view.active] # "NONE"
  BY <1>1, <1>2 DEF Page, View, NamesInv
<1>4. progress' = progress \/ progress' = TransactionAccepted(progress, page.view.active)
  BY DEF AdoptActive
<1>5. /\ progress' \in Progress /\ progress'.checkoutId = progress.checkoutId
      /\ progress'.transactionId \in {progress.transactionId, page.view.active}
  BY <1>1, <1>3, <1>4, SliceFacts
<1>6. page' = [page EXCEPT !.route = "status"]
  BY DEF AdoptActive
<1>7. /\ page' \in Page /\ page'.route = "status" /\ page'.view = page.view
      /\ page'.token = page.token
  BY <1>1, <1>6 DEF Page
<1>8. Mounted'
  BY <1>7 DEF Mounted
<1>9. ViewFrom(page'.view)
  BY <1>7 DEF ViewFrom
<1>10. UNCHANGED <<serverVars, save, post>> /\ faults' = faults
  BY DEF AdoptActive, Local
<1> QED
  BY <1>1, <1>3, <1>5, <1>7, <1>8, <1>9, <1>10, LocalKeepsInv

\* The hook reads the checkout, or the buyer asks for it once more.
LEMMA ReadsKeep ==
    ASSUME Inv, Fetch \/ ConsultSession
    PROVE  Inv'
<1> USE DEF Inv
<1>1. page \in Page /\ progress \in Progress /\ faults \in 0..MaxFaults
  BY DEF TypeOK
<1>2. Mounted /\ progress.checkoutId # NULL
  BY DEF Fetch, ConsultSession, Shows
<1>3. UNCHANGED <<serverVars, save, post>>
  BY DEF Fetch, ConsultSession
<1>4. PICK r \in [view : {page.view, Snapshot(progress.checkoutId)}, gone : BOOLEAN] :
        /\ Get(r)
        /\ \/ page' = PageAfter(r) /\ progress' = ProgressAfter(r)
           \/ page.view # NULL /\ r.view.active # NULL /\ Adopts(r)
  BY DEF Fetch, ConsultSession, Shows
<1>5. /\ r.view = page.view \/ r.view = Snapshot(progress.checkoutId)
      /\ r.view \in View \cup {NULL} /\ (page.view # NULL => r.view # NULL)
      /\ PageAfter(r) \in Page /\ PageAfter(r).view = r.view
      /\ PageAfter(r).route = page.route /\ PageAfter(r).token = page.token
      /\ ProgressAfter(r) = progress \/ ProgressAfter(r) = Cleared
      /\ ProgressAfter(r) \in Progress
      /\ faults' \in 0..MaxFaults
  <2>1. PageAfter(r) = [page EXCEPT !.view = r.view, !.fetching = FALSE,
                                    !.error = page.error \/ r.gone]
    BY <1>2, <1>4, GetFacts
  <2>2. PageAfter(r).route = page.route /\ PageAfter(r).token = page.token
    BY <1>1, <2>1 DEF Page
  <2> QED
    BY <1>2, <1>4, <2>2, GetFacts
<1>6. ViewFrom(r.view)
  BY <1>1, <1>2, <1>5 DEF ViewFrom, NamesInv, Progress
<1>7. /\ page' \in Page /\ page'.view = r.view /\ page'.token = page.token
      /\ page'.route # "product"
      /\ progress' \in Progress /\ progress'.checkoutId \in {progress.checkoutId, NULL}
      /\ progress'.transactionId # NULL =>
            \/ progress'.transactionId = progress.transactionId
            \/ payment[progress'.transactionId] # "NONE"
  <2>1. CASE page' = PageAfter(r) /\ progress' = ProgressAfter(r)
    BY <1>2, <1>5, <2>1 DEF Cleared, Mounted
  <2>2. CASE page.view # NULL /\ r.view.active # NULL /\ Adopts(r)
    <3>1. r.view.active \in Payments /\ payment[r.view.active] # "NONE"
      BY <1>5, <1>6, <2>2, ViewFromFacts DEF View
    <3>2. progress' = TransactionAccepted(ProgressAfter(r), r.view.active)
          /\ page' = [PageAfter(r) EXCEPT !.route = "status"]
      BY <2>2 DEF Adopts
    <3>3. /\ progress' \in Progress /\ progress'.checkoutId = ProgressAfter(r).checkoutId
          /\ progress'.transactionId = r.view.active
      BY <1>5, <3>1, <3>2, SliceFacts
    <3>4. /\ page' \in Page /\ page'.view = r.view /\ page'.token = page.token
          /\ page'.route = "status"
      BY <1>5, <3>2 DEF Page
    <3> QED
      BY <1>5, <3>1, <3>3, <3>4 DEF Cleared
  <2> QED
    BY <1>4, <2>1, <2>2
<1>8. Mounted'
  BY <1>7 DEF Mounted
<1> QED
  BY <1>3, <1>5, <1>6, <1>7, <1>8, LocalKeepsInv

\* The dialog leaves the screen.
LEMMA UnmountKeeps ==
    ASSUME Inv, Unmount, UNCHANGED <<serverVars, faults>>,
           progress' = progress \/ progress' = Cleared
    PROVE  Inv'
<1> USE DEF Inv
<1>1. page \in Page /\ progress \in Progress /\ faults \in 0..MaxFaults /\ save \in Saving
      /\ post \in [Posts -> Submission]
  BY DEF TypeOK
<1>2. FreshPage("product") \in Page /\ FreshPage("product").token = "none"
      /\ FreshPage("product").route = "product"
  BY FreshPageFacts
<1>3. /\ page' \in Page /\ page'.view = page.view /\ page'.token = "none"
  BY <1>1, <1>2 DEF Unmount, Page
<1>4. save' \in Saving /\ ~save'.own /\ save'.at = save.at /\ save'.checkoutId = save.checkoutId
  BY <1>1 DEF Unmount, Saving
<1>5. post' = [p \in Posts |-> [post[p] EXCEPT !.own = FALSE]]
  BY DEF Unmount, Orphaned
<1>6. post' \in [Posts -> Submission] /\ \A p \in Posts : ~post'[p].own /\ SameSubmission(p)
  <2>1. ASSUME NEW p \in Posts
        PROVE  post'[p] \in Submission /\ ~post'[p].own /\ SameSubmission(p)
    <3>1. post[p] \in Submission /\ post'[p] = [post[p] EXCEPT !.own = FALSE]
      BY <1>1, <1>5
    <3>2. post'[p] \in Submission /\ ~post'[p].own
      BY <3>1 DEF Submission
    <3> QED
      BY <3>1, <3>2 DEF Submission, SameSubmission, Started
  <2> QED
    BY <1>5, <2>1
<1>7. progress' \in Progress /\ progress'.checkoutId \in {progress.checkoutId, NULL}
      /\ progress'.transactionId \in {progress.transactionId, NULL}
  BY <1>1, SliceFacts DEF Cleared
<1>8. ViewFrom(page'.view)
  BY <1>3 DEF ViewFrom
<1>9. save'.at # "idle" => save'.checkoutId # NULL /\ Exists(save'.checkoutId)
  BY <1>4 DEF NamesInv
<1>10. ClientStep
  BY <1>1, <1>3, <1>4, <1>6, <1>7, <1>8, <1>9 DEF ClientStep
<1>11. NothingOwn /\ CardGoes
  BY <1>3, <1>4, <1>6 DEF NothingOwn, CardGoes
<1> QED
  BY <1>10, <1>11, ClientKeepsInv

\* The buyer leaves, asks for a new quote, or returns to the product.
LEMMA LeavingKeeps ==
    ASSUME Inv, Leave \/ RefreshQuote \/ ReturnToProduct
    PROVE  Inv'
  BY UnmountKeeps DEF Leave, RefreshQuote, ReturnToProduct

\* The page is loaded again.
LEMMA ReloadKeeps ==
    ASSUME Inv, Reload
    PROVE  Inv'
<1> USE DEF Inv
<1>1. page \in Page /\ progress \in Progress /\ faults \in 0..MaxFaults
      /\ post \in [Posts -> Submission]
  BY DEF TypeOK
<1>2. save' = NoSave
  BY DEF Reload
<1>3. post' = [p \in Posts |->
                IF post[p].at = "unsent" THEN post[p]
                ELSE [post[p] EXCEPT !.at = "done", !.own = FALSE, !.reply = NULL]]
  BY DEF Reload
<1>4. post' \in [Posts -> Submission] /\ \A p \in Posts : ~post'[p].own /\ SameSubmission(p)
  <2>1. ASSUME NEW p \in Posts
        PROVE  post'[p] \in Submission /\ ~post'[p].own /\ SameSubmission(p)
    <3>1. post[p] \in Submission
      BY <1>1
    <3>2. CASE post[p].at = "unsent"
      <4>1. post'[p] = post[p]
        BY <1>3, <3>2
      <4> QED
        BY <3>1, <3>2, <4>1 DEF SameSubmission, Started, FlowInv
    <3>3. CASE post[p].at # "unsent"
      <4>1. post'[p] = [post[p] EXCEPT !.at = "done", !.own = FALSE, !.reply = NULL]
        BY <1>3, <3>3
      <4>2. post'[p] \in Submission /\ ~post'[p].own
        BY <3>1, <4>1 DEF Submission
      <4> QED
        BY <3>1, <3>3, <4>1, <4>2 DEF Submission, SameSubmission, Started
    <3> QED
      BY <3>2, <3>3
  <2> QED
    BY <1>3, <2>1
<1> DEFINE s == ReadProgress(progress)
<1>5. s \in Progress /\ s.checkoutId = progress.checkoutId
      /\ s.transactionId \in {progress.transactionId, NULL}
  BY <1>1, SliceFacts
<1> HIDE DEF s
<1>6. /\ progress' \in Progress /\ progress'.checkoutId = progress.checkoutId
      /\ progress'.transactionId \in {progress.transactionId, NULL}
  <2>1. progress' = s \/ progress' = CheckoutRecovered(s)
    BY DEF Reload, s
  <2> QED
    BY <1>5, <2>1, RecoveredFacts
<1>7. page' \in Page /\ page'.view = NULL /\ page'.token = "none"
  <2>1. CASE Mounted
    <3>1. page.route \in {"product", "capture", "status"}
      BY <1>1 DEF Page
    <3> DEFINE f == s.checkoutId # NULL
               k == s.checkoutId = NULL /\ page.route = "capture"
               e == s.checkoutId = NULL /\ page.route = "status"
    <3>2. f \in BOOLEAN /\ k \in BOOLEAN /\ e \in BOOLEAN
      OBVIOUS
    <3>3. page' = [FreshPage(page.route) EXCEPT !.fetching = f, !.creating = k, !.error = e,
                                                !.lateCreate = FALSE]
      BY <2>1 DEF Reload, s
    <3>4. FreshPage(page.route) \in Page /\ FreshPage(page.route).view = NULL
          /\ FreshPage(page.route).token = "none"
      BY <3>1, FreshPageFacts
    <3> HIDE DEF f, k, e
    <3> QED
      BY <3>2, <3>3, <3>4 DEF Page
  <2>2. CASE ~Mounted
    <3>1. page' = [FreshPage("product") EXCEPT !.lateCreate = FALSE]
      BY <2>2 DEF Reload
    <3>2. FreshPage("product") \in Page /\ FreshPage("product").view = NULL
          /\ FreshPage("product").token = "none"
      BY FreshPageFacts
    <3> QED
      BY <3>1, <3>2 DEF Page
  <2> QED
    BY <2>1, <2>2
<1>8. UNCHANGED serverVars /\ faults' = faults
  BY DEF Reload
<1>9. ClientStep
  BY <1>1, <1>2, <1>4, <1>6, <1>7, <1>8, NoSaveFacts DEF ClientStep, ViewFrom
<1>10. NothingOwn /\ CardGoes
  BY <1>2, <1>4, <1>7, NoSaveFacts DEF NothingOwn, CardGoes
<1> QED
  BY <1>9, <1>10, ClientKeepsInv

\* What a refetch leaves of the page and of the slice.
LEMMA RefetchFacts ==
    ASSUME Inv, progress.checkoutId # NULL,
           NEW r \in [view : {page.view, Snapshot(progress.checkoutId)}, gone : BOOLEAN],
           Get(r)
    PROVE  /\ PageAfter(r) \in Page /\ PageAfter(r).view = r.view
           /\ PageAfter(r).route = page.route /\ PageAfter(r).token = page.token
           /\ ViewFrom(r.view) /\ (page.view # NULL => r.view \in View /\ r.view # NULL)
           /\ ProgressAfter(r) \in Progress
           /\ ProgressAfter(r).checkoutId \in {progress.checkoutId, NULL}
           /\ ProgressAfter(r).transactionId \in {progress.transactionId, NULL}
           /\ faults' \in 0..MaxFaults
<1> USE DEF Inv
<1>1. page \in Page /\ progress \in Progress
  BY DEF TypeOK
<1>2. PageAfter(r) = [page EXCEPT !.view = r.view, !.fetching = FALSE,
                                  !.error = page.error \/ r.gone]
  BY GetFacts
<1>3. PageAfter(r).route = page.route /\ PageAfter(r).token = page.token
  BY <1>1, <1>2 DEF Page
<1>4. r.view = page.view \/ r.view = Snapshot(progress.checkoutId)
  BY GetFacts
<1>5. ViewFrom(r.view)
  BY <1>1, <1>4 DEF ViewFrom, NamesInv, Progress
<1>6. page.view # NULL => r.view \in View /\ r.view # NULL
  BY GetFacts
<1>7. ProgressAfter(r) \in Progress /\ (ProgressAfter(r) = progress \/ ProgressAfter(r) = Cleared)
  BY GetFacts
<1>8. PageAfter(r) \in Page /\ PageAfter(r).view = r.view /\ faults' \in 0..MaxFaults
  BY GetFacts
<1> QED
  BY <1>3, <1>5, <1>6, <1>7, <1>8 DEF Cleared

-----------------------------------------------------------------------------
(***************************************************************************)
(* The save.                                                               *)
(***************************************************************************)
\* A step of the save touches no submission.
LEMMA SaveKeepsInv ==
    ASSUME Inv, UNCHANGED <<serverVars, post>>,
           page' \in Page, progress' \in Progress, save' \in Saving, faults' \in 0..MaxFaults,
           progress'.checkoutId \in {progress.checkoutId, NULL},
           progress'.transactionId \in {progress.transactionId, NULL},
           ViewFrom(page'.view), page'.route = page.route, page'.token = page.token,
           page.view # NULL => page'.view # NULL,
           save'.at # "idle" => save'.checkoutId # NULL /\ Exists(save'.checkoutId),
           save'.own => (save.own \/ (Mounted /\ page.view # NULL)) /\ save'.at # "idle"
    PROVE  Inv'
<1> USE DEF Inv
<1>1. draft' = draft /\ payment' = payment /\ post' = post
  BY DEF serverVars
<1>2. \A p \in Posts : SameSubmission(p)
  BY <1>1 DEF SameSubmission, Started
<1>3. ClientStep
  BY <1>1, <1>2 DEF ClientStep, serverVars, TypeOK
<1>4. Mounted' <=> Mounted
  BY DEF Mounted
<1>5. Stays
  BY <1>1, <1>4 DEF Stays, FlowInv
<1>6. CardGoes
  BY <1>1, <1>4 DEF CardGoes, Waits, TokenInv
<1> QED
  BY <1>3, <1>5, <1>6, ClientKeepsInv

\* The buyer confirms the customer step.
LEMMA StartSaveKeeps ==
    ASSUME Inv, StartSave
    PROVE  Inv'
<1> USE DEF Inv
<1>1. page \in Page /\ progress \in Progress /\ faults \in 0..MaxFaults
  BY DEF TypeOK
<1>2. Mounted /\ page.view # NULL /\ progress.checkoutId # NULL
  BY DEF StartSave, Shows
<1> DEFINE v == page.view.version
           c == progress.checkoutId
<1>3. v \in 0..(MaxVersion + 1) /\ c \in Checkouts /\ Exists(c)
  BY <1>1, <1>2 DEF Page, View, Progress, NamesInv
<1>4. save' = [NoSave EXCEPT !.at = "put", !.version = v, !.own = TRUE, !.checkoutId = c]
  BY DEF StartSave
<1>5. save' \in Saving /\ save'.checkoutId = c /\ save'.at = "put"
  BY <1>3, <1>4, NoSaveFacts DEF Saving
<1>6. c # NULL
  BY <1>2
<1>7. UNCHANGED <<serverVars, progress, page, post, faults>>
  BY DEF StartSave
<1> QED
  BY <1>1, <1>2, <1>3, <1>5, <1>6, <1>7, SaveKeepsInv DEF ViewFrom

\* What is decided of a save stays a save, for the same checkout and dialog.
LEMMA SavingFacts ==
    ASSUME TypeOK, NEW version \in 0..(MaxVersion + 1)
    PROVE  /\ Saved(version) \in Saving /\ Saved(version).at # "idle"
           /\ Saved(version).own = save.own /\ Saved(version).checkoutId = save.checkoutId
           /\ \A retry \in BOOLEAN :
                 /\ Recover(retry) \in Saving /\ Recover(retry).at = "recover"
                 /\ Recover(retry).own = save.own /\ Recover(retry).checkoutId = save.checkoutId
<1>1. save \in Saving
  BY DEF TypeOK
<1>2. /\ Saved(version) \in Saving /\ Saved(version).at # "idle"
      /\ Saved(version).own = save.own /\ Saved(version).checkoutId = save.checkoutId
  <2>1. CASE save.part = "customer"
    <3>1. Saved(version) = [NoSave EXCEPT !.at = "put", !.part = "deliveryDetails",
                              !.version = version, !.own = save.own, !.checkoutId = save.checkoutId]
      BY <2>1 DEF Saved
    <3> QED
      BY <1>1, <3>1, NoSaveFacts DEF Saving
  <2>2. CASE save.part # "customer"
    <3>1. Saved(version) = [save EXCEPT !.at = "final"]
      BY <2>2 DEF Saved
    <3> QED
      BY <1>1, <3>1 DEF Saving
  <2> QED
    BY <2>1, <2>2
<1> QED
  BY <1>1, <1>2 DEF Recover, Saving

\* So does what is decided after a recovery, if the save goes on.
LEMMA AfterRecoveryFacts ==
    ASSUME TypeOK, NEW view \in View
    PROVE  /\ AfterRecovery(view) \in Saving
           /\ \/ AfterRecovery(view) = NoSave
              \/ /\ AfterRecovery(view).at # "idle" /\ AfterRecovery(view).own = save.own
                 /\ AfterRecovery(view).checkoutId = save.checkoutId
<1>1. save \in Saving
  BY DEF TypeOK
<1>2. view.version \in 0..(MaxVersion + 1)
  BY DEF View
<1>3. CASE IsApplied(view)
  <2>1. AfterRecovery(view) = Saved(view.version)
    BY <1>3 DEF AfterRecovery
  <2> QED
    BY <1>2, <2>1, SavingFacts
<1>4. CASE ~IsApplied(view) /\ (save.attempt = 2 \/ ~save.retry)
  <2>1. AfterRecovery(view) = NoSave
    BY <1>4 DEF AfterRecovery
  <2> QED
    BY <2>1, NoSaveFacts
<1>5. CASE ~IsApplied(view) /\ ~(save.attempt = 2 \/ ~save.retry)
  <2>1. AfterRecovery(view) = [save EXCEPT !.at = "put", !.attempt = save.attempt + 1,
                                           !.version = view.version]
    BY <1>5 DEF AfterRecovery
  <2>2. save.attempt + 1 \in {1, 2}
    BY <1>1, <1>5 DEF Saving
  <2> QED
    BY <1>1, <1>2, <2>1, <2>2 DEF Saving
<1> QED
  BY <1>3, <1>4, <1>5

\* A save reads back what was applied.
LEMMA SaveRecoverKeeps ==
    ASSUME Inv, SaveRecover
    PROVE  Inv'
<1> USE DEF Inv
<1>1. page \in Page /\ progress \in Progress /\ faults \in 0..MaxFaults
  BY DEF TypeOK
<1>2. save.at = "recover" /\ UNCHANGED <<serverVars, post>>
  BY DEF SaveRecover
<1>3. save.checkoutId # NULL /\ Exists(save.checkoutId)
  BY <1>2 DEF NamesInv
<1>4. CASE /\ CanRefetch(save)
           /\ \E r \in [view : {page.view, Snapshot(progress.checkoutId)}, gone : BOOLEAN] :
                 /\ Get(r)
                 /\ save' = AfterRecovery(r.view)
                 /\ page' = PageAfter(r)
                 /\ progress' = ProgressAfter(r)
  <2>1. save.own /\ progress.checkoutId # NULL
    BY <1>4 DEF CanRefetch
  <2>2. Mounted /\ page.view # NULL
    BY <2>1 DEF FlowInv
  <2>3. PICK r \in [view : {page.view, Snapshot(progress.checkoutId)}, gone : BOOLEAN] :
          /\ Get(r)
          /\ save' = AfterRecovery(r.view)
          /\ page' = PageAfter(r)
          /\ progress' = ProgressAfter(r)
    BY <1>4, <2>1
  <2>4. /\ PageAfter(r) \in Page /\ PageAfter(r).view = r.view
        /\ PageAfter(r).route = page.route /\ PageAfter(r).token = page.token
        /\ ViewFrom(r.view) /\ r.view \in View /\ r.view # NULL
        /\ ProgressAfter(r) \in Progress
        /\ ProgressAfter(r).checkoutId \in {progress.checkoutId, NULL}
        /\ ProgressAfter(r).transactionId \in {progress.transactionId, NULL}
        /\ faults' \in 0..MaxFaults
    BY <2>1, <2>2, <2>3, RefetchFacts
  <2>5. /\ save' \in Saving
        /\ save'.at # "idle" => save'.checkoutId # NULL /\ Exists(save'.checkoutId)
        /\ save'.own => save.own /\ save'.at # "idle"
    BY <1>3, <2>3, <2>4, AfterRecoveryFacts, NoSaveFacts
  <2>6. /\ page' \in Page /\ progress' \in Progress
        /\ page'.route = page.route /\ page'.token = page.token
        /\ ViewFrom(page'.view) /\ page'.view # NULL
        /\ progress'.checkoutId \in {progress.checkoutId, NULL}
        /\ progress'.transactionId \in {progress.transactionId, NULL}
        /\ faults' \in 0..MaxFaults
    BY <2>3, <2>4
  <2>7. save'.own => (save.own \/ (Mounted /\ page.view # NULL)) /\ save'.at # "idle"
    BY <2>5
  <2> QED
    BY <1>2, <2>5, <2>6, <2>7, SaveKeepsInv
<1>5. CASE /\ ~CanRefetch(save)
           /\ save' = NoSave
           /\ UNCHANGED <<page, progress, faults>>
  BY <1>1, <1>2, <1>5, NoSaveFacts, SaveKeepsInv DEF ViewFrom
<1> QED
  BY <1>4, <1>5 DEF SaveRecover

\* The last read of a save, which goes on to the acceptances.
LEMMA SaveFinalKeeps ==
    ASSUME Inv, SaveFinal
    PROVE  Inv'
<1> USE DEF Inv
<1>1. page \in Page /\ progress \in Progress /\ faults \in 0..MaxFaults
  BY DEF TypeOK
<1>2. save.at = "final" /\ save' = NoSave /\ UNCHANGED <<serverVars, post>>
  BY DEF SaveFinal
<1>3. CASE /\ CanRefetch(save)
           /\ \E r \in [view : {page.view, Snapshot(progress.checkoutId)}, gone : BOOLEAN] :
                 /\ Get(r)
                 /\ page' = PageAfter(r)
                 /\ progress' = AtStep(ProgressAfter(r), "acceptances")
  <2>1. progress.checkoutId # NULL
    BY <1>3 DEF CanRefetch
  <2>2. PICK r \in [view : {page.view, Snapshot(progress.checkoutId)}, gone : BOOLEAN] :
          /\ Get(r)
          /\ page' = PageAfter(r)
          /\ progress' = AtStep(ProgressAfter(r), "acceptances")
    BY <1>3, <2>1
  <2>3. /\ PageAfter(r) \in Page /\ PageAfter(r).view = r.view
        /\ PageAfter(r).route = page.route /\ PageAfter(r).token = page.token
        /\ ViewFrom(r.view) /\ (page.view # NULL => r.view # NULL)
        /\ ProgressAfter(r) \in Progress
        /\ ProgressAfter(r).checkoutId \in {progress.checkoutId, NULL}
        /\ ProgressAfter(r).transactionId \in {progress.transactionId, NULL}
        /\ faults' \in 0..MaxFaults
    BY <2>1, <2>2, RefetchFacts
  <2>4. /\ progress' \in Progress
        /\ progress'.checkoutId \in {progress.checkoutId, NULL}
        /\ progress'.transactionId \in {progress.transactionId, NULL}
    BY <2>2, <2>3, SliceFacts DEF Steps
  <2> QED
    BY <1>2, <2>2, <2>3, <2>4, NoSaveFacts, SaveKeepsInv
<1>4. CASE ~CanRefetch(save) /\ UNCHANGED <<page, progress, faults>>
  BY <1>1, <1>2, <1>4, NoSaveFacts, SaveKeepsInv DEF ViewFrom
<1> QED
  BY <1>3, <1>4 DEF SaveFinal

-----------------------------------------------------------------------------
(***************************************************************************)
(* The submissions.                                                        *)
(***************************************************************************)
\* Handling an answer changes where the submission is and whose, no more.
Handled(p, at) ==
    /\ post' \in [Posts -> Submission]
    /\ \A q \in Posts : SameSubmission(q)
    /\ \A q \in Posts \ {p} : post'[q] = post[q]
    /\ post'[p].at = at
    /\ post'[p].own => post[p].own /\ at # "done"

\* Reply handles an answer.
LEMMA ReplyFacts ==
    ASSUME TypeOK, NEW p \in Posts, Started(p),
           NEW at \in {"refetch", "reconfigure", "recover", "done"},
           post' = Reply(p, at)
    PROVE  Handled(p, at)
<1> DEFINE own == post[p].own /\ at # "done"
           s == [post[p] EXCEPT !.at = at, !.reply = NULL, !.own = own]
<1>1. post \in [Posts -> Submission] /\ post[p] \in Submission
  BY DEF TypeOK
<1>2. own \in BOOLEAN /\ (own => post[p].own /\ at # "done")
  OBVIOUS
<1>3. post' = [post EXCEPT ![p] = s]
  BY <1>1 DEF Reply
<1> HIDE DEF own
<1>4. s \in Submission /\ s.at = at /\ s.own = own /\ s.reply = NULL
  BY <1>1, <1>2 DEF Submission
<1>5. /\ s.checkoutId = post[p].checkoutId /\ s.quote = post[p].quote
      /\ s.version = post[p].version /\ s.seen = post[p].seen
      /\ s.token = post[p].token /\ s.net = post[p].net
  BY <1>1 DEF Submission
<1> HIDE DEF s
<1>6. post' \in [Posts -> Submission] /\ post'[p] = s /\ \A q \in Posts \ {p} : post'[q] = post[q]
  BY <1>1, <1>3, <1>4
<1>7. \A q \in Posts : SameSubmission(q)
  <2> SUFFICES ASSUME NEW q \in Posts
               PROVE  SameSubmission(q)
    OBVIOUS
  <2>1. CASE q = p
    BY <1>4, <1>5, <1>6, <2>1 DEF SameSubmission, Started
  <2>2. CASE q # p
    BY <1>6, <2>2 DEF SameSubmission, Started
  <2> QED
    BY <2>1, <2>2
<1> QED
  BY <1>2, <1>4, <1>6, <1>7 DEF Handled

\* A step that handles an answer, or its absence, keeps the invariant.
LEMMA HandledKeepsInv ==
    ASSUME Inv, NEW p \in Posts, NEW at \in {"refetch", "reconfigure", "recover", "done"},
           Handled(p, at), UNCHANGED serverVars,
           page' \in Page, progress' \in Progress, save' = save, faults' \in 0..MaxFaults,
           progress'.checkoutId \in {progress.checkoutId, NULL},
           progress'.transactionId # NULL =>
              \/ progress'.transactionId = progress.transactionId
              \/ payment[progress'.transactionId] # "NONE",
           ViewFrom(page'.view),
           Mounted => Mounted' /\ (page.view # NULL => page'.view # NULL),
           ~Mounted' => page'.token = "none",
           page'.token # "sent" \/ (page'.token = page.token /\ ~(post[p].own /\ Waits(p)))
    PROVE  Inv'
<1> USE DEF Inv
<1>1. save'.at # "idle" => save'.checkoutId # NULL /\ Exists(save'.checkoutId)
  BY DEF NamesInv
<1>2. ClientStep
  BY <1>1 DEF ClientStep, Handled, TypeOK
<1>3. Stays
  <2>1. ASSUME NEW q \in Posts, post'[q].own
        PROVE  post[q].own /\ post'[q].at \notin {"unsent", "done"}
    <3>1. CASE q = p
      BY <2>1, <3>1 DEF Handled
    <3>2. CASE q # p
      BY <2>1, <3>2 DEF Handled, FlowInv
    <3> QED
      BY <3>1, <3>2
  <2> QED
    BY <2>1 DEF Stays, FlowInv
<1>4. CardGoes
  BY DEF CardGoes, Handled, Waits
<1> QED
  BY <1>2, <1>3, <1>4, ClientKeepsInv

\* The card of a dialog whose submission was answered is gone.
LEMMA AfterAnswerFacts ==
    ASSUME TypeOK, NEW p \in Posts
    PROVE  /\ AfterAnswer(p) \in Page
           /\ AfterAnswer(p).route = page.route /\ AfterAnswer(p).view = page.view
           /\ AfterAnswer(p).shown = page.shown /\ AfterAnswer(p).error = page.error
           /\ AfterAnswer(p).creating = page.creating /\ AfterAnswer(p).fetching = page.fetching
           /\ AfterAnswer(p).lateCreate = page.lateCreate
           /\ AfterAnswer(p).token # "sent"
                 \/ (AfterAnswer(p).token = page.token /\ ~post[p].own)
<1>1. page \in Page
  BY DEF TypeOK
<1>2. CASE post[p].own
  BY <1>1, <1>2 DEF AfterAnswer, WithoutSecrets, Page
<1>3. CASE ~post[p].own
  BY <1>1, <1>3 DEF AfterAnswer
<1> QED
  BY <1>2, <1>3

\* The submission was accepted, or answered with the payment accepted before.
LEMMA PostAcceptedKeeps ==
    ASSUME Inv, NEW p \in Posts, PostAccepted(p)
    PROVE  Inv'
<1> USE DEF Inv
<1>1. page \in Page /\ progress \in Progress /\ faults \in 0..MaxFaults
  BY DEF TypeOK
<1> DEFINE t == post[p].reply
<1>2. t \in Posts /\ t \in Payments /\ payment[t] # "NONE" /\ Started(p)
  BY DEF PostAccepted, ReplyInv, Payments, Started
<1>3. UNCHANGED <<serverVars, save, faults>> /\ post' = Reply(p, "done")
  BY DEF PostAccepted
<1>4. Handled(p, "done")
  BY <1>2, <1>3, ReplyFacts
<1> DEFINE s == TransactionAccepted(progress, t)
<1>5. s \in Progress /\ s.checkoutId = progress.checkoutId /\ s.transactionId = t
  BY <1>1, <1>2, SliceFacts
<1>6. ShowAccepted(p, t)
  BY DEF PostAccepted
<1> HIDE DEF t
<1>7. CASE Mounted
  <2>1. progress' = s /\ page' = [AfterAnswer(p) EXCEPT !.route = "status"]
    BY <1>6, <1>7 DEF ShowAccepted
  <2>2. /\ page' \in Page /\ page'.view = page.view /\ page'.route = "status"
        /\ page'.token # "sent" \/ (page'.token = page.token /\ ~post[p].own)
    BY <2>1, AfterAnswerFacts DEF Page
  <2>3. Mounted'
    BY <2>2 DEF Mounted
  <2>4. ViewFrom(page'.view)
    BY <2>2 DEF ViewFrom
  <2>5. /\ progress' \in Progress /\ progress'.checkoutId = progress.checkoutId
        /\ payment[progress'.transactionId] # "NONE"
    BY <1>2, <1>5, <2>1
  <2> HIDE DEF s
  <2> QED
    BY <1>1, <1>3, <1>4, <1>7, <2>2, <2>3, <2>4, <2>5, HandledKeepsInv
<1>8. CASE ~Mounted
  <2>1. Mount("status", s)
    BY <1>6, <1>8 DEF ShowAccepted
  <2>2. /\ page' \in Page /\ progress' \in Progress
        /\ page'.route = "status" /\ page'.token = "none"
        /\ page'.view = Cached(s.checkoutId)
        /\ progress'.checkoutId = s.checkoutId
        /\ progress'.transactionId = s.transactionId
    BY <1>5, <2>1, MountFacts
  <2>3. Mounted' /\ ViewFrom(page'.view)
    BY <2>2, CachedIsFrom DEF Mounted
  <2>4. progress'.checkoutId = progress.checkoutId /\ payment[progress'.transactionId] # "NONE"
    BY <1>2, <1>5, <2>2
  <2> HIDE DEF s
  <2> QED
    BY <1>1, <1>3, <1>4, <1>8, <2>2, <2>3, <2>4, HandledKeepsInv
<1> QED
  BY <1>7, <1>8

\* The submission was refused.
LEMMA PostRefusedKeeps ==
    ASSUME Inv, NEW p \in Posts, PostRefused(p)
    PROVE  Inv'
<1> USE DEF Inv
<1>1. page \in Page /\ progress \in Progress /\ faults \in 0..MaxFaults
      /\ post \in [Posts -> Submission]
  BY DEF TypeOK
<1>2. Started(p) /\ UNCHANGED <<serverVars, faults>>
  BY DEF PostRefused, Started
<1>3. CASE /\ progress' = Cleared
           /\ page' = [AfterAnswer(p) EXCEPT !.error = @ \/ post[p].own]
           /\ post' = Reply(p, "done")
           /\ UNCHANGED save
  <2> DEFINE e == AfterAnswer(p).error \/ post[p].own
  <2>1. page' = [AfterAnswer(p) EXCEPT !.error = e] /\ e \in BOOLEAN
    BY <1>3
  <2> HIDE DEF e
  <2>2. /\ page' \in Page /\ page'.view = page.view /\ page'.route = page.route
        /\ page'.token # "sent" \/ (page'.token = page.token /\ ~post[p].own)
    BY <2>1, AfterAnswerFacts DEF Page
  <2>3. (Mounted' <=> Mounted) /\ ViewFrom(page'.view)
    BY <2>2 DEF Mounted, ViewFrom
  <2>4. Handled(p, "done")
    BY <1>2, <1>3, ReplyFacts
  <2>5. progress' \in Progress /\ progress'.checkoutId = NULL /\ progress'.transactionId = NULL
    BY <1>1, <1>3, SliceFacts DEF Cleared
  <2>6. ~Mounted' => page'.token = "none"
    <3>1. CASE post[p].own
      BY <2>3, <3>1 DEF FlowInv
    <3>2. CASE ~post[p].own
      <4>1. AfterAnswer(p) = page
        BY <3>2 DEF AfterAnswer
      <4>2. page'.token = page.token
        BY <1>1, <2>1, <4>1 DEF Page
      <4> QED
        BY <2>3, <4>2 DEF TokenInv
    <3> QED
      BY <3>1, <3>2
  <2> QED
    BY <1>1, <1>2, <1>3, <2>2, <2>3, <2>4, <2>5, <2>6, HandledKeepsInv
<1>4. CASE /\ progress' = Cleared /\ Mounted
           /\ page' = [FreshPage("product") EXCEPT !.view = page.view]
           /\ save' = [save EXCEPT !.own = FALSE]
           /\ post' = [Orphaned EXCEPT ![p].at = "done", ![p].reply = NULL]
  <2>1. FreshPage("product") \in Page /\ FreshPage("product").token = "none"
    BY FreshPageFacts
  <2>2. page' \in Page /\ page'.view = page.view /\ page'.token = "none"
    BY <1>1, <1>4, <2>1 DEF Page
  <2>3. save' \in Saving /\ ~save'.own /\ save'.at = save.at /\ save'.checkoutId = save.checkoutId
    BY <1>4 DEF TypeOK, Saving
  <2> DEFINE o == [post[p] EXCEPT !.own = FALSE]
             s == [o EXCEPT !.at = "done", !.reply = NULL]
  <2>4. post[p] \in Submission /\ o \in Submission
    <3>1. post[p] \in Submission
      BY <1>1
    <3> QED
      BY <3>1 DEF Submission
  <2>5. post' = [q \in Posts |-> IF q = p THEN s ELSE [post[q] EXCEPT !.own = FALSE]]
    BY <1>4 DEF Orphaned
  <2>6. s \in Submission /\ ~s.own /\ s.at = "done" /\ s.reply = NULL
    BY <2>4 DEF Submission
  <2>7. /\ s.checkoutId = post[p].checkoutId /\ s.quote = post[p].quote
        /\ s.version = post[p].version /\ s.seen = post[p].seen
        /\ s.token = post[p].token /\ s.net = post[p].net
    BY <2>4 DEF Submission
  <2> HIDE DEF s
  <2>8. ASSUME NEW q \in Posts
        PROVE  post'[q] \in Submission /\ ~post'[q].own /\ SameSubmission(q)
    <3>1. CASE q = p
      <4>1. post'[q] = s
        BY <2>5, <3>1
      <4> QED
        BY <1>2, <2>6, <2>7, <3>1, <4>1 DEF SameSubmission, Started
    <3>2. CASE q # p
      <4>1. post'[q] = [post[q] EXCEPT !.own = FALSE] /\ post[q] \in Submission
        BY <1>1, <2>5, <3>2
      <4> QED
        BY <4>1 DEF Submission, SameSubmission, Started
    <3> QED
      BY <3>1, <3>2
  <2>9. post' \in [Posts -> Submission]
    BY <2>5, <2>8
  <2>10. progress' \in Progress /\ progress'.checkoutId = NULL /\ progress'.transactionId = NULL
    BY <1>1, <1>4, SliceFacts DEF Cleared
  <2>11. ViewFrom(page'.view)
    BY <2>2 DEF ViewFrom
  <2>12. save'.at # "idle" => save'.checkoutId # NULL /\ Exists(save'.checkoutId)
    BY <2>3 DEF NamesInv
  <2>13. ClientStep
    BY <1>1, <1>2, <2>2, <2>3, <2>8, <2>9, <2>10, <2>11, <2>12 DEF ClientStep
  <2>14. NothingOwn /\ CardGoes
    BY <2>2, <2>3, <2>8 DEF NothingOwn, CardGoes
  <2> QED
    BY <2>13, <2>14, ClientKeepsInv
<1>5. CASE /\ progress' = Cleared /\ ~Mounted
           /\ post' = Reply(p, "done") /\ UNCHANGED <<page, save>>
  <2>1. Handled(p, "done")
    BY <1>2, <1>5, ReplyFacts
  <2>2. progress' \in Progress /\ progress'.checkoutId = NULL /\ progress'.transactionId = NULL
    BY <1>1, <1>5, SliceFacts DEF Cleared
  <2>3. page.token = "none" /\ ViewFrom(page.view)
    BY <1>5 DEF TokenInv, ViewFrom
  <2> QED
    BY <1>1, <1>2, <1>5, <2>1, <2>2, <2>3, HandledKeepsInv
<1>6. CASE /\ page' = AfterAnswer(p)
           /\ \E at \in {"refetch", "reconfigure", "recover"} : post' = Reply(p, at)
           /\ UNCHANGED <<progress, save>>
  <2>1. PICK at \in {"refetch", "reconfigure", "recover"} : post' = Reply(p, at)
    BY <1>6
  <2>2. Handled(p, at)
    BY <1>2, <2>1, ReplyFacts
  <2>3. /\ page' \in Page /\ page'.view = page.view /\ page'.route = page.route
        /\ page'.token # "sent" \/ (page'.token = page.token /\ ~post[p].own)
    BY <1>6, AfterAnswerFacts
  <2>4. (Mounted' <=> Mounted) /\ ViewFrom(page'.view)
    BY <2>3 DEF Mounted, ViewFrom
  <2>5. ~Mounted' => page'.token = "none"
    BY <1>6, <2>4 DEF AfterAnswer, FlowInv, TokenInv
  <2> QED
    BY <1>1, <1>2, <1>6, <2>2, <2>3, <2>4, <2>5, HandledKeepsInv
<1> QED
  BY <1>3, <1>4, <1>5, <1>6 DEF PostRefused

\* A submission whose answer is lost goes on to recover.
LEMMA LostFacts ==
    ASSUME TypeOK, NEW p \in Posts, Waits(p), post' = [post EXCEPT ![p].at = "recover"]
    PROVE  Handled(p, "recover")
<1> DEFINE s == [post[p] EXCEPT !.at = "recover"]
<1>1. post \in [Posts -> Submission] /\ post[p] \in Submission
  BY DEF TypeOK
<1>2. s \in Submission /\ s.at = "recover"
  BY <1>1 DEF Submission
<1>3. post' = [post EXCEPT ![p] = s]
  BY <1>1
<1>4. post' \in [Posts -> Submission] /\ post'[p] = s /\ \A q \in Posts \ {p} : post'[q] = post[q]
  BY <1>1, <1>2, <1>3
<1>5. SameSubmission(p) /\ (post'[p].own => post[p].own)
  BY <1>1, <1>4 DEF SameSubmission, Started, Waits, Submission
<1>6. \A q \in Posts \ {p} : SameSubmission(q)
  BY <1>4 DEF SameSubmission, Started
<1> QED
  BY <1>2, <1>4, <1>5, <1>6 DEF Handled

\* No answer came.
LEMMA PostLostKeeps ==
    ASSUME Inv, NEW p \in Posts, PostLost(p)
    PROVE  Inv'
<1> USE DEF Inv
<1>1. page \in Page /\ progress \in Progress /\ faults \in 0..MaxFaults
      /\ post \in [Posts -> Submission]
  BY DEF TypeOK
<1>2. Started(p) /\ UNCHANGED <<serverVars, progress, save>> /\ page' = AfterAnswer(p)
      /\ post' = [post EXCEPT ![p].at = "recover"]
  BY DEF PostLost, Started
<1>3. faults' \in 0..MaxFaults
  BY <1>1, BoundsAssumption DEF PostLost, Fault
<1>4. Handled(p, "recover")
  BY <1>2, LostFacts DEF PostLost, Waits
<1>5. /\ page' \in Page /\ page'.view = page.view /\ page'.route = page.route
      /\ page'.token # "sent" \/ (page'.token = page.token /\ ~post[p].own)
  BY <1>2, AfterAnswerFacts
<1>6. (Mounted' <=> Mounted) /\ ViewFrom(page'.view)
  BY <1>5 DEF Mounted, ViewFrom
<1>7. ~Mounted' => page'.token = "none"
  BY <1>2, <1>6 DEF AfterAnswer, FlowInv, TokenInv
<1> QED
  BY <1>1, <1>2, <1>3, <1>4, <1>5, <1>6, <1>7, HandledKeepsInv

\* The 412 branch reads the checkout again, and goes back to the card.
LEMMA PostRefetchKeeps ==
    ASSUME Inv, NEW p \in Posts, PostRefetch(p)
    PROVE  Inv'
<1> USE DEF Inv
<1>1. page \in Page /\ progress \in Progress /\ faults \in 0..MaxFaults
  BY DEF TypeOK
<1>2. /\ Started(p) /\ ~Waits(p) /\ UNCHANGED <<serverVars, save>>
      /\ post' = Reply(p, "done")
  BY DEF PostRefetch, Started, Waits
<1>3. Handled(p, "done")
  BY <1>2, ReplyFacts
<1>4. CASE /\ post[p].at = "refetch" /\ CanRefetch(post[p])
           /\ \E r \in [view : {page.view, Snapshot(progress.checkoutId)}, gone : BOOLEAN] :
                 /\ Get(r)
                 /\ page' = PageAfter(r)
                 /\ progress' = AtStep(ProgressAfter(r), "payment")
  <2>1. post[p].own /\ progress.checkoutId # NULL
    BY <1>4 DEF CanRefetch
  <2>2. PICK r \in [view : {page.view, Snapshot(progress.checkoutId)}, gone : BOOLEAN] :
          /\ Get(r)
          /\ page' = PageAfter(r)
          /\ progress' = AtStep(ProgressAfter(r), "payment")
    BY <1>4, <2>1
  <2>3. /\ PageAfter(r) \in Page /\ PageAfter(r).view = r.view
        /\ PageAfter(r).route = page.route /\ PageAfter(r).token = page.token
        /\ ViewFrom(r.view) /\ (page.view # NULL => r.view # NULL)
        /\ ProgressAfter(r) \in Progress
        /\ ProgressAfter(r).checkoutId \in {progress.checkoutId, NULL}
        /\ ProgressAfter(r).transactionId \in {progress.transactionId, NULL}
        /\ faults' \in 0..MaxFaults
    BY <2>1, <2>2, RefetchFacts
  <2>4. /\ progress' \in Progress
        /\ progress'.checkoutId \in {progress.checkoutId, NULL}
        /\ progress'.transactionId \in {progress.transactionId, NULL}
    BY <2>2, <2>3, SliceFacts DEF Steps
  <2>5. Mounted /\ Mounted'
    BY <2>1, <2>2, <2>3 DEF FlowInv, Mounted
  <2> QED
    BY <1>2, <1>3, <2>2, <2>3, <2>4, <2>5, HandledKeepsInv
<1>5. CASE /\ post[p].at = "reconfigure" /\ post[p].own
           /\ progress' = AtStep(progress, "payment")
           /\ UNCHANGED <<page, faults>>
  <2>1. /\ progress' \in Progress /\ progress'.checkoutId = progress.checkoutId
        /\ progress'.transactionId = progress.transactionId
    BY <1>1, <1>5, SliceFacts DEF Steps
  <2>2. ViewFrom(page'.view) /\ Mounted' = Mounted /\ (~Mounted' => page'.token = "none")
    BY <1>5 DEF ViewFrom, Mounted, TokenInv
  <2> QED
    BY <1>1, <1>2, <1>3, <1>5, <2>1, <2>2, HandledKeepsInv
<1>6. CASE UNCHANGED <<page, progress, faults>>
  <2>1. ViewFrom(page'.view) /\ Mounted' = Mounted /\ (~Mounted' => page'.token = "none")
    BY <1>6 DEF ViewFrom, Mounted, TokenInv
  <2> QED
    BY <1>1, <1>2, <1>3, <1>6, <2>1, HandledKeepsInv
<1> QED
  BY <1>4, <1>5, <1>6 DEF PostRefetch

\* Without an answer, what the checkout names is adopted.
LEMMA PostRecoverKeeps ==
    ASSUME Inv, NEW p \in Posts, PostRecover(p)
    PROVE  Inv'
<1> USE DEF Inv
<1>1. page \in Page /\ progress \in Progress /\ faults \in 0..MaxFaults
  BY DEF TypeOK
<1>2. /\ Started(p) /\ ~Waits(p) /\ UNCHANGED <<serverVars, save>>
      /\ post' = Reply(p, "done")
  BY DEF PostRecover, Started, Waits
<1>3. Handled(p, "done")
  BY <1>2, ReplyFacts
<1>4. CASE /\ CanRefetch(post[p])
           /\ \E r \in [view : {page.view, Snapshot(progress.checkoutId)}, gone : BOOLEAN] :
                 /\ Get(r)
                 /\ \/ r.view.active # NULL /\ Adopts(r)
                    \/ /\ r.view.active = NULL
                       /\ progress' = AtStep(ProgressAfter(r), "status")
                       /\ page' = [PageAfter(r) EXCEPT !.uncertain = TRUE]
  <2>1. post[p].own /\ progress.checkoutId # NULL
    BY <1>4 DEF CanRefetch
  <2>2. PICK r \in [view : {page.view, Snapshot(progress.checkoutId)}, gone : BOOLEAN] :
          /\ Get(r)
          /\ \/ r.view.active # NULL /\ Adopts(r)
             \/ /\ r.view.active = NULL
                /\ progress' = AtStep(ProgressAfter(r), "status")
                /\ page' = [PageAfter(r) EXCEPT !.uncertain = TRUE]
    BY <1>4, <2>1
  <2>3. Mounted /\ page.view # NULL
    BY <2>1 DEF FlowInv
  <2>4. /\ PageAfter(r) \in Page /\ PageAfter(r).view = r.view
        /\ PageAfter(r).route = page.route /\ PageAfter(r).token = page.token
        /\ ViewFrom(r.view) /\ r.view \in View /\ r.view # NULL
        /\ ProgressAfter(r) \in Progress
        /\ ProgressAfter(r).checkoutId \in {progress.checkoutId, NULL}
        /\ ProgressAfter(r).transactionId \in {progress.transactionId, NULL}
        /\ faults' \in 0..MaxFaults
    BY <2>1, <2>2, <2>3, RefetchFacts
  <2>5. /\ page' \in Page /\ page'.view = r.view /\ page'.token = page.token
        /\ page'.route # "product"
        /\ progress' \in Progress /\ progress'.checkoutId \in {progress.checkoutId, NULL}
        /\ progress'.transactionId # NULL =>
              \/ progress'.transactionId = progress.transactionId
              \/ payment[progress'.transactionId] # "NONE"
    <3>1. CASE r.view.active # NULL /\ Adopts(r)
      <4>1. r.view.active \in Payments /\ payment[r.view.active] # "NONE"
        BY <2>4, <3>1, ViewFromFacts DEF View
      <4>2. progress' = TransactionAccepted(ProgressAfter(r), r.view.active)
            /\ page' = [PageAfter(r) EXCEPT !.route = "status"]
        BY <3>1 DEF Adopts
      <4>3. /\ progress' \in Progress /\ progress'.checkoutId = ProgressAfter(r).checkoutId
            /\ progress'.transactionId = r.view.active
        BY <2>4, <4>1, <4>2, SliceFacts
      <4>4. /\ page' \in Page /\ page'.view = r.view /\ page'.token = page.token
            /\ page'.route = "status"
        BY <2>4, <4>2 DEF Page
      <4> QED
        BY <2>4, <4>1, <4>3, <4>4
    <3>2. CASE /\ progress' = AtStep(ProgressAfter(r), "status")
               /\ page' = [PageAfter(r) EXCEPT !.uncertain = TRUE]
      <4>1. /\ progress' \in Progress /\ progress'.checkoutId = ProgressAfter(r).checkoutId
            /\ progress'.transactionId = ProgressAfter(r).transactionId
        BY <2>4, <3>2, SliceFacts DEF Steps
      <4>2. /\ page' \in Page /\ page'.view = r.view /\ page'.token = page.token
            /\ page'.route = page.route
        BY <2>4, <3>2 DEF Page
      <4> QED
        BY <2>3, <2>4, <4>1, <4>2 DEF Mounted
    <3> QED
      BY <2>2, <3>1, <3>2
  <2>6. Mounted'
    BY <2>5 DEF Mounted
  <2> QED
    BY <1>2, <1>3, <2>4, <2>5, <2>6, HandledKeepsInv
<1>5. CASE UNCHANGED <<page, progress, faults>>
  <2>1. ViewFrom(page'.view) /\ Mounted' = Mounted /\ (~Mounted' => page'.token = "none")
    BY <1>5 DEF ViewFrom, Mounted, TokenInv
  <2> QED
    BY <1>1, <1>2, <1>3, <1>5, <2>1, HandledKeepsInv
<1> QED
  BY <1>4, <1>5 DEF PostRecover

\* The buyer pays: what is shown is what is sent, with the card held.
LEMMA StartPaymentKeeps ==
    ASSUME Inv, NEW p \in Posts, StartPayment(p)
    PROVE  Inv'
<1> USE DEF Inv
<1>1. page \in Page /\ progress \in Progress /\ faults \in 0..MaxFaults /\ save \in Saving
      /\ post \in [Posts -> Submission] /\ draft \in [Checkouts -> Draft \cup {NULL}]
      /\ payment \in [Payments -> PaymentState]
  BY DEF TypeOK
<1> DEFINE v == page.view
           sent == Reviewed(v)
           k == progress.key
           c == progress.checkoutId
           t == page.token
           s == [NoPost EXCEPT !.at = "awaiting", !.own = TRUE, !.net = TRUE,
                               !.checkoutId = c, !.key = k, !.quote = v.checkoutId,
                               !.version = v.version, !.token = t, !.seen = sent]
<1>2. /\ Mounted /\ v # NULL /\ c # NULL /\ k # NULL /\ t # "none"
      /\ ~Started(p) /\ ~Submitting
      /\ draft' = draft /\ payment' = payment /\ progress' = progress /\ save' = save
      /\ faults' = faults
  BY DEF StartPayment, ShowsReview, Shows, HasPrerequisites, Started, serverVars
<1>3. /\ v \in View /\ v.checkoutId \in Checkouts /\ v.version \in 0..(MaxVersion + 1)
      /\ sent \in PartState \X PartState /\ c \in Checkouts /\ k \in Keys /\ t \in {"none", "fresh", "sent"}
  BY <1>1, <1>2 DEF Page, View, Reviewed, Progress
<1>4. t # "sent"
  <2> SUFFICES ASSUME t = "sent" PROVE FALSE
    OBVIOUS
  <2>1. PICK q \in Posts : post[q].own /\ Waits(q)
    BY DEF TokenInv
  <2> QED
    BY <1>2, <2>1 DEF Submitting, Waits
<1>5. post' = [post EXCEPT ![p] = s]
  BY DEF StartPayment
<1>6. page' = [page EXCEPT !.token = "sent", !.uncertain = FALSE]
  BY DEF StartPayment
<1>7. NoPost \in Submission /\ NoPost.reply = NULL
  <2>1. 0 \in 0..(MaxVersion + 1)
    BY BoundsAssumption
  <2> QED
    BY <2>1 DEF NoPost, Submission
<1>8. /\ Exists(c) /\ Exists(v.checkoutId)
      /\ v.version <= draft[v.checkoutId].version
      /\ v.version = draft[v.checkoutId].version => sent = Reviewed(draft[v.checkoutId])
      /\ \A q \in Posts : Started(q) /\ post[q].quote = v.checkoutId /\ post[q].version = v.version
            => post[q].seen = sent
  BY <1>2 DEF NamesInv, ContentInv
<1> HIDE DEF v, sent, k, c, t
<1>9. /\ s \in Submission /\ s.at = "awaiting" /\ s.own /\ s.net /\ s.checkoutId = c
      /\ s.quote = v.checkoutId /\ s.version = v.version /\ s.token = t /\ s.seen = sent
      /\ s.reply = NULL
  BY <1>3, <1>7 DEF Submission
<1> HIDE DEF s
<1>10. /\ post' \in [Posts -> Submission] /\ post'[p] = s
       /\ \A q \in Posts \ {p} : post'[q] = post[q]
  BY <1>1, <1>5, <1>9
<1>11. /\ page' \in Page /\ page'.view = v /\ page'.token = "sent"
       /\ page'.route = page.route
  BY <1>1, <1>6 DEF Page, v
<1>12. Mounted'
  BY <1>2, <1>11 DEF Mounted
<1>13. TypeOK'
  BY <1>1, <1>2, <1>10, <1>11 DEF TypeOK
<1>14. payment[p] = "NONE" /\ Started(p)' /\ \A q \in Posts \ {p} : Started(q)' = Started(q)
  BY <1>2, <1>9, <1>10 DEF NamesInv, Started
<1>15. NamesInv'
  <2>1. ASSUME NEW q \in Posts
        PROVE  /\ Started(q)' => /\ post'[q].checkoutId # NULL /\ Exists(post'[q].checkoutId)
                                 /\ post'[q].quote # NULL /\ Exists(post'[q].quote)
               /\ ~Started(q)' => payment[q] = "NONE" /\ ~post'[q].net /\ post'[q].reply = NULL
               /\ post'[q].net => payment[q] = "NONE"
    <3>1. CASE q = p
      BY <1>2, <1>3, <1>8, <1>9, <1>10, <1>14, <3>1, NullAssumption
    <3>2. CASE q # p
      BY <1>10, <1>14, <3>2 DEF NamesInv
    <3> QED
      BY <3>1, <3>2
  <2> QED
    BY <1>2, <1>11, <2>1 DEF NamesInv, Exists, v
<1>16. FlowInv'
  <2>1. \A q \in Posts : ~post[q].own
    BY <1>2 DEF Submitting, FlowInv
  <2>2. \A q \in Posts : post'[q].own => q = p
    BY <1>10, <2>1
  <2> QED
    BY <1>2, <1>9, <1>10, <1>11, <1>12, <2>2 DEF FlowInv
<1>17. TokenInv'
  BY <1>4, <1>9, <1>10, <1>12 DEF TokenInv, TokenSentOnce, Waits
<1>18. ContentInv'
  <2>1. ASSUME NEW q \in Posts, Started(q)'
        PROVE  /\ post'[q].version <= draft[post'[q].quote].version
               /\ post'[q].version = draft[post'[q].quote].version =>
                     post'[q].seen = Reviewed(draft[post'[q].quote])
               /\ v.checkoutId = post'[q].quote /\ v.version = post'[q].version =>
                     post'[q].seen = sent
    <3>1. CASE q = p
      BY <1>8, <1>9, <1>10, <3>1
    <3>2. CASE q # p
      <4>1. post'[q] = post[q] /\ Started(q)
        BY <1>10, <1>14, <2>1, <3>2
      <4> QED
        BY <1>8, <4>1 DEF ContentInv
    <3> QED
      BY <3>1, <3>2
  <2>2. ASSUME NEW q \in Posts, NEW u \in Posts, Started(q)', Started(u)', SameCommand(q, u)'
        PROVE  post'[q].seen = post'[u].seen
    <3>1. post'[u].quote = post'[q].quote /\ post'[u].version = post'[q].version
      BY <2>2 DEF SameCommand
    <3>2. CASE q = p /\ u = p
      BY <3>2
    <3>3. CASE q = p /\ u # p
      BY <1>8, <1>9, <1>10, <1>14, <2>2, <3>1, <3>3
    <3>4. CASE q # p /\ u = p
      BY <1>8, <1>9, <1>10, <1>14, <2>2, <3>1, <3>4
    <3>5. CASE q # p /\ u # p
      BY <1>10, <1>14, <2>2, <3>1, <3>5 DEF ContentInv, SameCommand
    <3> QED
      BY <3>2, <3>3, <3>4, <3>5
  <2> QED
    BY <1>2, <1>8, <1>11, <2>1, <2>2 DEF ContentInv, Reviewed, sent
<1>19. AcceptedAsReviewed'
  <2>1. \A q \in Posts : payment[q] # "NONE" => post'[q] = post[q]
    BY <1>10, <1>14
  <2> QED
    BY <1>2, <2>1 DEF AcceptedAsReviewed, Reviewed
<1>20. ReplyInv'
  <2> SUFFICES ASSUME NEW q \in Posts, post'[q].reply \in Posts
               PROVE  /\ payment'[post'[q].reply] # "NONE"
                      /\ post'[post'[q].reply].checkoutId = post'[q].checkoutId
                      /\ post'[post'[q].reply].seen = post'[q].seen
    BY DEF ReplyInv
  <2>1. NULL \notin Posts
    BY NullAssumption DEF Payments
  <2>2. q # p /\ post'[q] = post[q]
    BY <1>9, <1>10, <2>1
  <2>3. PICK u \in Posts : u = post[q].reply
    BY <2>2
  <2>4. payment[u] # "NONE" /\ u # p
    BY <1>14, <2>2, <2>3 DEF ReplyInv
  <2> QED
    BY <1>2, <1>10, <2>2, <2>3, <2>4 DEF ReplyInv
<1> QED
  BY <1>13, <1>15, <1>16, <1>17, <1>18, <1>19, <1>20

-----------------------------------------------------------------------------
(***************************************************************************)
(* Steps that write the API's rows.  A row is never removed, its version   *)
(* never falls, one version keeps its content, and so does the row that a  *)
(* payment was accepted for.                                               *)
(***************************************************************************)
RowsGrow ==
    /\ draft' \in [Checkouts -> Draft \cup {NULL}]
    /\ \A c \in Checkouts : Exists(c) =>
          /\ Exists(c)'
          /\ draft[c].version <= draft'[c].version
          /\ draft'[c].version = draft[c].version \/ draft[c].active # NULL =>
                Reviewed(draft'[c]) = Reviewed(draft[c])
          /\ draft[c].active # NULL => draft'[c].active = draft[c].active

\* What is accepted stays accepted; a row names nothing else, and may be edited
\* below the bound.
PaymentsGrow ==
    /\ payment' \in [Payments -> PaymentState]
    /\ \A p \in Payments : payment[p] # "NONE" => payment'[p] # "NONE"
    /\ \A c \in Checkouts : Exists(c)' =>
          /\ draft'[c].active # NULL => payment'[draft'[c].active] # "NONE"
          /\ draft'[c].active = NULL => draft'[c].version <= MaxVersion
    /\ \A p \in Posts : payment'[p] # "NONE" /\ payment[p] = "NONE" =>
          /\ Started(p)
          /\ draft'[post[p].checkoutId].active = p
          /\ Reviewed(draft'[post[p].checkoutId]) = post[p].seen

\* Of the submissions only what the API answers changes.
PostsAnswered ==
    /\ post' \in [Posts -> Submission]
    /\ \A p \in Posts :
          /\ post'[p].at = post[p].at /\ post'[p].own = post[p].own
          /\ post'[p].checkoutId = post[p].checkoutId /\ post'[p].quote = post[p].quote
          /\ post'[p].version = post[p].version /\ post'[p].seen = post[p].seen
          /\ post'[p].token = post[p].token
          /\ post'[p].net => post[p].net /\ payment'[p] = "NONE"
          /\ post'[p].reply # post[p].reply => Started(p)
          /\ post'[p].reply # post[p].reply /\ post'[p].reply \in Posts =>
                /\ payment'[post'[p].reply] # "NONE"
                /\ post[post'[p].reply].checkoutId = post[p].checkoutId
                /\ post[post'[p].reply].seen = post[p].seen

\* The client may learn of it as it happens.
ClientLearns ==
    /\ page' \in Page /\ page'.view = page.view /\ page'.route = page.route
    /\ page'.token = page.token
    /\ progress' \in Progress
    /\ progress'.checkoutId # NULL => draft'[progress'.checkoutId] # NULL
    /\ progress'.transactionId \in {progress.transactionId, NULL}
    /\ save' \in Saving
    /\ save'.at # "idle" => save'.checkoutId # NULL /\ draft'[save'.checkoutId] # NULL
    /\ save'.own => save.own /\ save'.at # "idle"
    /\ faults' \in 0..MaxFaults

\* Such a step keeps the invariant.
LEMMA GrowthKeepsInv ==
    ASSUME Inv, RowsGrow, PaymentsGrow, PostsAnswered, ClientLearns
    PROVE  Inv'
<1> USE DEF Inv
<1>1. TypeOK'
  BY DEF TypeOK, RowsGrow, PaymentsGrow, PostsAnswered, ClientLearns
<1>2. \A p \in Posts : (Started(p)' <=> Started(p)) /\ (Waits(p)' <=> Waits(p))
  BY DEF PostsAnswered, Started, Waits
<1>3. Mounted' <=> Mounted
  BY DEF ClientLearns, Mounted
<1>4. page.view # NULL =>
        page.view \in View /\ page.view.checkoutId \in Checkouts /\ page.view.version \in Nat
        /\ (page.view.active # NULL => page.view.active \in Payments)
  BY BoundsAssumption DEF TypeOK, Page, View
<1>5. \A p \in Posts : Started(p) =>
        post[p].checkoutId \in Checkouts /\ post[p].quote \in Checkouts /\ post[p].version \in Nat
  BY BoundsAssumption DEF TypeOK, Submission, NamesInv
<1>6. \A c \in Checkouts : Exists(c) => draft[c].version \in Nat /\ draft'[c].version \in Nat
  <2> SUFFICES ASSUME NEW c \in Checkouts, Exists(c)
               PROVE  draft[c].version \in Nat /\ draft'[c].version \in Nat
    OBVIOUS
  <2>1. draft[c] \in Draft /\ draft'[c] \in Draft
    BY DEF TypeOK, RowsGrow, Exists
  <2> QED
    BY <2>1, BoundsAssumption DEF Draft
<1>7. NamesInv'
  <2>1. progress'.checkoutId # NULL => draft'[progress'.checkoutId] # NULL
    BY DEF ClientLearns
  <2>2. progress'.transactionId # NULL => payment'[progress'.transactionId] # "NONE"
    BY DEF ClientLearns, NamesInv, PaymentsGrow, TypeOK, Progress
  <2>3. page'.view # NULL =>
          /\ draft'[page'.view.checkoutId] # NULL
          /\ page'.view.active # NULL => payment'[page'.view.active] # "NONE"
    BY <1>4 DEF ClientLearns, NamesInv, RowsGrow, PaymentsGrow, Exists
  <2>4. \A c \in Checkouts :
          Exists(c)' => /\ draft'[c].active # NULL => payment'[draft'[c].active] # "NONE"
                        /\ draft'[c].active = NULL => draft'[c].version <= MaxVersion
    BY DEF PaymentsGrow
  <2>5. save'.at # "idle" => save'.checkoutId # NULL /\ draft'[save'.checkoutId] # NULL
    BY DEF ClientLearns
  <2>6. ASSUME NEW p \in Posts
        PROVE  /\ Started(p)' => /\ post'[p].checkoutId # NULL /\ draft'[post'[p].checkoutId] # NULL
                                 /\ post'[p].quote # NULL /\ draft'[post'[p].quote] # NULL
               /\ ~Started(p)' => payment'[p] = "NONE" /\ ~post'[p].net /\ post'[p].reply = NULL
               /\ post'[p].net => payment'[p] = "NONE"
    <3>1. CASE Started(p)
      <4>1. post'[p].checkoutId = post[p].checkoutId /\ post'[p].quote = post[p].quote
        BY DEF PostsAnswered
      <4>2. draft'[post[p].checkoutId] # NULL /\ draft'[post[p].quote] # NULL
        BY <1>5, <3>1 DEF NamesInv, RowsGrow, Exists
      <4>3. post'[p].net => payment'[p] = "NONE"
        BY DEF PostsAnswered
      <4> QED
        BY <1>2, <3>1, <4>1, <4>2, <4>3 DEF NamesInv, Exists
    <3>2. CASE ~Started(p)
      <4>1. payment[p] = "NONE" /\ ~post[p].net /\ post[p].reply = NULL
        BY <3>2 DEF NamesInv
      <4>2. payment'[p] = "NONE"
        BY <3>2, <4>1 DEF PaymentsGrow
      <4>3. ~post'[p].net /\ post'[p].reply = NULL
        BY <3>2, <4>1 DEF PostsAnswered
      <4> QED
        BY <1>2, <3>2, <4>2, <4>3
    <3> QED
      BY <3>1, <3>2
  <2> QED
    BY <2>1, <2>2, <2>3, <2>4, <2>5, <2>6 DEF NamesInv, Exists
<1>8. FlowInv'
  <2>1. save'.own => Mounted' /\ page'.view # NULL /\ save'.at # "idle"
    BY <1>3 DEF ClientLearns, FlowInv
  <2> QED
    BY <1>3, <2>1 DEF ClientLearns, PostsAnswered, FlowInv
<1>9. TokenInv'
  BY <1>2, <1>3 DEF ClientLearns, PostsAnswered, TokenInv, TokenSentOnce
<1>10. ContentInv'
  <2>1. ASSUME page.view # NULL
        PROVE  /\ page.view.version <= draft'[page.view.checkoutId].version
               /\ page.view.version = draft'[page.view.checkoutId].version =>
                     Reviewed(page.view) = Reviewed(draft'[page.view.checkoutId])
    <3> DEFINE c == page.view.checkoutId
               n == page.view.version
    <3>1. c \in Checkouts /\ Exists(c) /\ n \in Nat
      BY <1>4, <2>1 DEF NamesInv
    <3>2. n <= draft[c].version /\ (n = draft[c].version => Reviewed(page.view) = Reviewed(draft[c]))
      BY <2>1 DEF ContentInv
    <3>3. draft[c].version <= draft'[c].version
          /\ (draft'[c].version = draft[c].version => Reviewed(draft'[c]) = Reviewed(draft[c]))
      BY <3>1 DEF RowsGrow
    <3>4. draft[c].version \in Nat /\ draft'[c].version \in Nat
      BY <1>6, <3>1
    <3> HIDE DEF c, n
    <3>5. n <= draft'[c].version /\ (n = draft'[c].version => draft'[c].version = draft[c].version)
      BY <3>1, <3>2, <3>3, <3>4
    <3>6. n <= draft'[c].version
          /\ (n = draft'[c].version => Reviewed(page.view) = Reviewed(draft'[c]))
      BY <3>2, <3>3, <3>5
    <3> QED
      BY <3>6 DEF c, n
  <2>2. ASSUME NEW p \in Posts, Started(p)
        PROVE  /\ post[p].version <= draft'[post[p].quote].version
               /\ post[p].version = draft'[post[p].quote].version =>
                     post[p].seen = Reviewed(draft'[post[p].quote])
    <3> DEFINE c == post[p].quote
               n == post[p].version
    <3>1. c \in Checkouts /\ Exists(c) /\ n \in Nat
      BY <1>5, <2>2 DEF NamesInv
    <3>2. n <= draft[c].version /\ (n = draft[c].version => post[p].seen = Reviewed(draft[c]))
      BY <2>2 DEF ContentInv
    <3>3. draft[c].version <= draft'[c].version
          /\ (draft'[c].version = draft[c].version => Reviewed(draft'[c]) = Reviewed(draft[c]))
      BY <3>1 DEF RowsGrow
    <3>4. draft[c].version \in Nat /\ draft'[c].version \in Nat
      BY <1>6, <3>1
    <3> HIDE DEF c, n
    <3>5. n <= draft'[c].version /\ (n = draft'[c].version => draft'[c].version = draft[c].version)
      BY <3>1, <3>2, <3>3, <3>4
    <3>6. n <= draft'[c].version
          /\ (n = draft'[c].version => post[p].seen = Reviewed(draft'[c]))
      BY <3>2, <3>3, <3>5
    <3> QED
      BY <3>6 DEF c, n
  <2>3. ASSUME NEW p \in Posts, Started(p)'
        PROVE  /\ post'[p].version <= draft'[post'[p].quote].version
               /\ post'[p].version = draft'[post'[p].quote].version =>
                     post'[p].seen = Reviewed(draft'[post'[p].quote])
               /\ page'.view # NULL /\ page'.view.checkoutId = post'[p].quote
                     /\ page'.view.version = post'[p].version => post'[p].seen = Reviewed(page'.view)
    <3>1. Started(p) /\ post'[p].quote = post[p].quote /\ post'[p].version = post[p].version
          /\ post'[p].seen = post[p].seen /\ page'.view = page.view
      BY <1>2, <2>3 DEF PostsAnswered, ClientLearns
    <3> QED
      BY <2>2, <3>1 DEF ContentInv
  <2>4. ASSUME NEW p \in Posts, NEW q \in Posts, Started(p)', Started(q)', SameCommand(p, q)'
        PROVE  post'[p].seen = post'[q].seen
    BY <1>2, <2>4 DEF PostsAnswered, SameCommand, ContentInv
  <2>5. page'.view = page.view
    BY DEF ClientLearns
  <2> QED
    BY <2>1, <2>3, <2>4, <2>5 DEF ContentInv, Reviewed
<1>11. AcceptedAsReviewed'
  <2>1. ASSUME NEW p \in Posts, payment'[p] # "NONE"
        PROVE  /\ draft'[post'[p].checkoutId].active = p
               /\ Reviewed(draft'[post'[p].checkoutId]) = post'[p].seen
    <3>1. post'[p].checkoutId = post[p].checkoutId /\ post'[p].seen = post[p].seen
      BY DEF PostsAnswered
    <3>2. CASE payment[p] = "NONE"
      BY <2>1, <3>1, <3>2 DEF PaymentsGrow
    <3>3. CASE payment[p] # "NONE"
      <4> DEFINE c == post[p].checkoutId
      <4>1. Started(p) /\ c \in Checkouts /\ Exists(c)
        BY <1>5, <3>3 DEF NamesInv
      <4>2. draft[c].active = p /\ Reviewed(draft[c]) = post[p].seen
        BY <3>3 DEF AcceptedAsReviewed
      <4>3. p # NULL
        BY NullAssumption DEF Payments
      <4>4. draft'[c].active = p /\ Reviewed(draft'[c]) = Reviewed(draft[c])
        BY <4>1, <4>2, <4>3 DEF RowsGrow
      <4> QED
        BY <3>1, <4>2, <4>4
    <3> QED
      BY <3>2, <3>3
  <2> QED
    BY <2>1 DEF AcceptedAsReviewed, Reviewed
<1>12. ReplyInv'
  <2> SUFFICES ASSUME NEW p \in Posts, post'[p].reply \in Posts
               PROVE  /\ payment'[post'[p].reply] # "NONE"
                      /\ post'[post'[p].reply].checkoutId = post'[p].checkoutId
                      /\ post'[post'[p].reply].seen = post'[p].seen
    BY DEF ReplyInv
  <2>1. PICK u \in Posts : u = post'[p].reply
    OBVIOUS
  <2>2. payment'[u] # "NONE" /\ post[u].checkoutId = post[p].checkoutId /\ post[u].seen = post[p].seen
    <3>1. CASE post'[p].reply = post[p].reply
      <4>1. payment[u] # "NONE" /\ post[u].checkoutId = post[p].checkoutId
            /\ post[u].seen = post[p].seen
        BY <2>1, <3>1 DEF ReplyInv
      <4> QED
        BY <4>1 DEF PaymentsGrow, Payments
    <3>2. CASE post'[p].reply # post[p].reply
      BY <2>1, <3>2 DEF PostsAnswered
    <3> QED
      BY <3>1, <3>2
  <2> QED
    BY <2>1, <2>2 DEF PostsAnswered
<1> QED
  BY <1>1, <1>7, <1>8, <1>9, <1>10, <1>11, <1>12

\* A row is written that grows.
LEMMA RowWritten ==
    ASSUME Inv, NEW c \in Checkouts, NEW d \in Draft, draft' = [draft EXCEPT ![c] = d],
           Exists(c) => /\ draft[c].version <= d.version
                        /\ d.version = draft[c].version \/ draft[c].active # NULL =>
                              Reviewed(d) = Reviewed(draft[c])
                        /\ draft[c].active # NULL => d.active = draft[c].active
    PROVE  /\ RowsGrow /\ draft'[c] = d
           /\ \A k \in Checkouts \ {c} : draft'[k] = draft[k]
<1>1. draft \in [Checkouts -> Draft \cup {NULL}]
  BY DEF Inv, TypeOK
<1>2. draft'[c] = d /\ \A k \in Checkouts \ {c} : draft'[k] = draft[k]
  BY <1>1
<1>3. draft' \in [Checkouts -> Draft \cup {NULL}]
  BY <1>1
<1>4. ASSUME NEW k \in Checkouts, Exists(k)
      PROVE  /\ Exists(k)'
             /\ draft[k].version <= draft'[k].version
             /\ draft'[k].version = draft[k].version \/ draft[k].active # NULL =>
                   Reviewed(draft'[k]) = Reviewed(draft[k])
             /\ draft[k].active # NULL => draft'[k].active = draft[k].active
  <2>1. CASE k = c
    BY <1>2, <1>4, <2>1, NullAssumption DEF Exists
  <2>2. CASE k # c
    <3>1. draft'[k] = draft[k] /\ draft[k] \in Draft
      BY <1>1, <1>2, <1>4, <2>2 DEF Exists
    <3>2. draft[k].version <= draft[k].version
      BY <3>1, BoundsAssumption DEF Draft
    <3> QED
      BY <1>4, <3>1, <3>2 DEF Exists
  <2> QED
    BY <2>1, <2>2
<1> QED
  BY <1>2, <1>3, <1>4 DEF RowsGrow

\* No row is written.
LEMMA RowsStay ==
    ASSUME Inv, UNCHANGED draft
    PROVE  RowsGrow
<1>1. draft \in [Checkouts -> Draft \cup {NULL}]
  BY DEF Inv, TypeOK
<1>2. \A c \in Checkouts : Exists(c) => draft[c].version <= draft[c].version
  BY <1>1, BoundsAssumption DEF Exists, Draft
<1> QED
  BY <1>1, <1>2 DEF RowsGrow, Exists

\* Nothing of the client happens with it.
LEMMA ClientStays ==
    ASSUME Inv, RowsGrow, UNCHANGED <<progress, page, save, faults>>
    PROVE  ClientLearns
<1>1. \A c \in Checkouts : Exists(c) => draft'[c] # NULL
  BY DEF RowsGrow, Exists
<1> QED
  BY <1>1 DEF Inv, TypeOK, NamesInv, FlowInv, Progress, Saving, ClientLearns

\* No submission is answered.
LEMMA PostsStay ==
    ASSUME Inv, UNCHANGED post, \A p \in Posts : payment[p] = "NONE" => payment'[p] = "NONE"
    PROVE  PostsAnswered
  BY DEF Inv, TypeOK, NamesInv, PostsAnswered

\* Payments stay as they are, and rows name no new one.
LEMMA PaymentsStay ==
    ASSUME Inv, RowsGrow, UNCHANGED payment,
           \A c \in Checkouts : Exists(c)' =>
              /\ draft'[c].active # NULL => Exists(c) /\ draft'[c].active = draft[c].active
              /\ draft'[c].active = NULL => draft'[c].version <= MaxVersion
    PROVE  PaymentsGrow
  BY DEF Inv, TypeOK, NamesInv, PaymentsGrow, RowsGrow

\* An edit raises the version and touches one part.
LEMMA EditedFacts ==
    ASSUME Inv, NEW c \in Checkouts, Exists(c), NEW version, Puts(c, version),
           NEW part \in {"customer", "deliveryDetails"}, NEW value \in {"mine", "theirs"},
           draft' = Edited(c, part, value)
    PROVE  /\ RowsGrow
           /\ \A k \in Checkouts : Exists(k)' =>
                /\ draft'[k].active # NULL => Exists(k) /\ draft'[k].active = draft[k].active
                /\ draft'[k].active = NULL => draft'[k].version <= MaxVersion
<1>1. draft[c] \in Draft
  BY DEF Inv, TypeOK, Exists
<1>2. /\ draft[c].version \in 1..(MaxVersion + 1) /\ draft[c].version < MaxVersion
      /\ draft[c].active = NULL /\ MaxVersion \in Nat
  BY <1>1, BoundsAssumption DEF Puts, Draft
<1> DEFINE n == draft[c].version + 1
           d == [draft[c] EXCEPT ![part] = value, !.version = n]
<1>3. n \in 1..(MaxVersion + 1) /\ draft[c].version < n /\ n <= MaxVersion
  BY <1>2
<1>4. draft' = [draft EXCEPT ![c] = d]
  BY DEF Edited
<1> HIDE DEF n
<1>5. value \in PartState
  BY DEF PartState
<1>6. d \in Draft /\ d.version = n /\ d.active = NULL
  <2>1. CASE part = "customer"
    BY <1>1, <1>2, <1>3, <1>5, <2>1 DEF Draft
  <2>2. CASE part = "deliveryDetails"
    BY <1>1, <1>2, <1>3, <1>5, <2>2 DEF Draft
  <2> QED
    BY <2>1, <2>2
<1> HIDE DEF d
<1>7. draft[c].version <= d.version /\ d.version # draft[c].version
  BY <1>2, <1>3, <1>6
<1>8. /\ RowsGrow /\ draft'[c] = d
      /\ \A k \in Checkouts \ {c} : draft'[k] = draft[k]
  BY <1>2, <1>4, <1>6, <1>7, RowWritten
<1>9. ASSUME NEW k \in Checkouts, Exists(k)'
      PROVE  /\ draft'[k].active # NULL => Exists(k) /\ draft'[k].active = draft[k].active
             /\ draft'[k].active = NULL => draft'[k].version <= MaxVersion
  <2>1. CASE k = c
    BY <1>3, <1>6, <1>8, <2>1
  <2>2. CASE k # c
    BY <1>8, <1>9, <2>2 DEF Inv, NamesInv, Exists
  <2> QED
    BY <2>1, <2>2
<1> QED
  BY <1>8, <1>9

\* Another tab saves a part of the checkout.
LEMMA OtherTabEditsKeeps ==
    ASSUME Inv, NEW c \in Checkouts, NEW part \in {"customer", "deliveryDetails"},
           OtherTabEdits(c, part)
    PROVE  Inv'
<1>1. /\ Exists(c) /\ Puts(c, draft[c].version) /\ draft' = Edited(c, part, "theirs")
      /\ UNCHANGED <<payment, progress, page, save, post, faults>>
  BY DEF OtherTabEdits
<1>2. /\ RowsGrow
      /\ \A k \in Checkouts : Exists(k)' =>
            /\ draft'[k].active # NULL => Exists(k) /\ draft'[k].active = draft[k].active
            /\ draft'[k].active = NULL => draft'[k].version <= MaxVersion
  BY <1>1, EditedFacts
<1>3. PaymentsGrow /\ PostsAnswered /\ ClientLearns
  BY <1>1, <1>2, PaymentsStay, PostsStay, ClientStays
<1> QED
  BY <1>2, <1>3, GrowthKeepsInv

\* A checkout expires, or its quote lapses.
LEMMA EndsKeep ==
    ASSUME Inv, NEW c \in Checkouts, Expire(c) \/ Lapse(c)
    PROVE  Inv'
<1>1. /\ Exists(c) /\ UNCHANGED <<payment, progress, page, save, post, faults>>
      /\ \/ draft' = [draft EXCEPT ![c].expired = TRUE]
         \/ draft' = [draft EXCEPT ![c].lapsed = TRUE]
  BY DEF Expire, Lapse
<1>2. draft[c] \in Draft /\ draft \in [Checkouts -> Draft \cup {NULL}]
  BY <1>1 DEF Inv, TypeOK, Exists
<1>3. PICK d : /\ draft' = [draft EXCEPT ![c] = d]
               /\ d = [draft[c] EXCEPT !.expired = TRUE] \/ d = [draft[c] EXCEPT !.lapsed = TRUE]
  BY <1>1
<1>4. /\ d \in Draft /\ d.version = draft[c].version /\ d.active = draft[c].active
      /\ Reviewed(d) = Reviewed(draft[c]) /\ draft[c].version <= d.version
  <2>1. /\ d \in Draft /\ d.version = draft[c].version /\ d.active = draft[c].active
        /\ Reviewed(d) = Reviewed(draft[c])
    BY <1>2, <1>3 DEF Draft, Reviewed
  <2> QED
    BY <1>2, <2>1, BoundsAssumption DEF Draft
<1>5. /\ RowsGrow /\ draft'[c] = d
      /\ \A k \in Checkouts \ {c} : draft'[k] = draft[k]
  BY <1>3, <1>4, RowWritten
<1>6. ASSUME NEW k \in Checkouts, Exists(k)'
      PROVE  /\ draft'[k].active # NULL => Exists(k) /\ draft'[k].active = draft[k].active
             /\ draft'[k].active = NULL => draft'[k].version <= MaxVersion
  <2>1. CASE k = c
    BY <1>1, <1>4, <1>5, <2>1 DEF Inv, NamesInv
  <2>2. CASE k # c
    BY <1>5, <1>6, <2>2 DEF Inv, NamesInv, Exists
  <2> QED
    BY <2>1, <2>2
<1>7. PaymentsGrow /\ PostsAnswered /\ ClientLearns
  BY <1>1, <1>5, <1>6, PaymentsStay, PostsStay, ClientStays
<1> QED
  BY <1>5, <1>7, GrowthKeepsInv

\* The provider decides a payment.
LEMMA DecidePaymentKeeps ==
    ASSUME Inv, NEW p \in Payments, DecidePayment(p)
    PROVE  Inv'
<1>1. /\ payment[p] = "PENDING" /\ UNCHANGED <<draft, progress, page, save, post, faults>>
      /\ \E outcome \in {"SETTLED", "CONFLICT"} : payment' = [payment EXCEPT ![p] = outcome]
  BY DEF DecidePayment
<1>2. payment \in [Payments -> PaymentState]
  BY DEF Inv, TypeOK
<1>3. PICK outcome \in {"SETTLED", "CONFLICT"} : payment' = [payment EXCEPT ![p] = outcome]
  BY <1>1
<1>4. /\ payment' \in [Payments -> PaymentState]
      /\ \A q \in Payments : payment[q] # "NONE" <=> payment'[q] # "NONE"
  BY <1>1, <1>2, <1>3 DEF PaymentState
<1>5. RowsGrow
  BY <1>1, RowsStay
<1>6. \A c \in Checkouts : draft[c] # NULL /\ draft[c].active # NULL => draft[c].active \in Payments
  BY DEF Inv, TypeOK, Draft
<1>7. \A c \in Checkouts : Exists(c) =>
        /\ draft[c].active # NULL => payment[draft[c].active] # "NONE"
        /\ draft[c].active = NULL => draft[c].version <= MaxVersion
  BY DEF Inv, NamesInv
<1>8. PaymentsGrow
  BY <1>1, <1>4, <1>6, <1>7 DEF PaymentsGrow, Payments, Exists
<1>9. PostsAnswered
  BY <1>1, <1>4, PostsStay DEF Payments
<1> QED
  BY <1>1, <1>5, <1>8, <1>9, ClientStays, GrowthKeepsInv

\* The row of a checkout for which a payment is accepted.
LEMMA PayingFacts ==
    ASSUME Inv, NEW c \in Checkouts, Exists(c), NEW p \in Payments, draft[c].active = NULL,
           payment[p] = "NONE",
           draft' = [draft EXCEPT ![c] = Paying(draft[c], p)],
           payment' = [payment EXCEPT ![p] = "PENDING"],
           p \in Posts =>
              Started(p) /\ post[p].checkoutId = c /\ Reviewed(draft[c]) = post[p].seen
    PROVE  /\ RowsGrow /\ PaymentsGrow
           /\ payment'[p] = "PENDING"
           /\ \A q \in Payments \ {p} : payment'[q] = payment[q]
<1>1. draft[c] \in Draft
  BY DEF Inv, TypeOK, Exists
<1>2. /\ draft[c].version \in 1..(MaxVersion + 1) /\ draft[c].version <= MaxVersion
      /\ MaxVersion \in Nat
  BY <1>1, BoundsAssumption DEF Inv, NamesInv, Draft
<1> DEFINE n == draft[c].version + 1
           d == [draft[c] EXCEPT !.active = p, !.version = n]
<1>3. n \in 1..(MaxVersion + 1) /\ draft[c].version < n
  BY <1>2
<1>4. draft' = [draft EXCEPT ![c] = d]
  BY DEF Paying
<1> HIDE DEF n
<1>5. d \in Draft /\ d.version = n /\ d.active = p /\ Reviewed(d) = Reviewed(draft[c])
  BY <1>1, <1>3 DEF Draft, Reviewed
<1> HIDE DEF d
<1>6. draft[c].version <= d.version
  BY <1>2, <1>3, <1>5
<1>7. /\ RowsGrow /\ draft'[c] = d
      /\ \A k \in Checkouts \ {c} : draft'[k] = draft[k]
  BY <1>4, <1>5, <1>6, RowWritten
<1>8. payment \in [Payments -> PaymentState] /\ "PENDING" \in PaymentState
  BY DEF Inv, TypeOK, PaymentState
<1>9. /\ payment' \in [Payments -> PaymentState] /\ payment'[p] = "PENDING"
      /\ \A q \in Payments \ {p} : payment'[q] = payment[q]
  BY <1>8
<1>10. p # NULL
  BY NullAssumption
<1>11. ASSUME NEW k \in Checkouts, Exists(k)'
       PROVE  /\ draft'[k].active # NULL => payment'[draft'[k].active] # "NONE"
              /\ draft'[k].active = NULL => draft'[k].version <= MaxVersion
  <2>1. CASE k = c
    BY <1>5, <1>7, <1>9, <1>10, <2>1
  <2>2. CASE k # c
    <3>1. draft'[k] = draft[k] /\ Exists(k)
      BY <1>7, <1>11, <2>2 DEF Exists
    <3>2. draft[k].active # NULL => draft[k].active \in Payments /\ payment[draft[k].active] # "NONE"
      BY <3>1 DEF Inv, TypeOK, NamesInv, Exists, Draft
    <3>3. draft[k].active = NULL => draft[k].version <= MaxVersion
      BY <3>1 DEF Inv, NamesInv
    <3>4. ASSUME draft[k].active # NULL
          PROVE  payment'[draft[k].active] # "NONE"
      BY <1>9, <3>2, <3>4
    <3> QED
      BY <3>1, <3>3, <3>4
  <2> QED
    BY <2>1, <2>2
<1>12. \A q \in Posts : payment'[q] # "NONE" /\ payment[q] = "NONE" =>
          /\ Started(q)
          /\ draft'[post[q].checkoutId].active = q
          /\ Reviewed(draft'[post[q].checkoutId]) = post[q].seen
  <2> SUFFICES ASSUME NEW q \in Posts, payment'[q] # "NONE", payment[q] = "NONE"
               PROVE  /\ Started(q)
                      /\ draft'[post[q].checkoutId].active = q
                      /\ Reviewed(draft'[post[q].checkoutId]) = post[q].seen
    OBVIOUS
  <2>1. q = p
    BY <1>9 DEF Payments
  <2> QED
    BY <1>5, <1>7, <2>1
<1> QED
  BY <1>7, <1>9, <1>11, <1>12 DEF PaymentsGrow

\* Another tab pays.
LEMMA OtherTabPaysKeeps ==
    ASSUME Inv, NEW c \in Checkouts, NEW o \in OtherPosts, OtherTabPays(c, o)
    PROVE  Inv'
<1>1. /\ Exists(c) /\ payment[o] = "NONE" /\ draft[c].active = NULL
      /\ draft' = [draft EXCEPT ![c] = Paying(draft[c], o)]
      /\ payment' = [payment EXCEPT ![o] = "PENDING"]
      /\ UNCHANGED <<progress, page, save, post, faults>>
  BY DEF OtherTabPays
<1>2. o \in Payments /\ o \notin Posts
  BY PostsAssumption DEF Payments
<1>3. /\ RowsGrow /\ PaymentsGrow
      /\ \A q \in Payments \ {o} : payment'[q] = payment[q]
  BY <1>1, <1>2, PayingFacts
<1>4. PostsAnswered
  BY <1>1, <1>2, <1>3, PostsStay DEF Payments
<1> QED
  BY <1>1, <1>3, <1>4, ClientStays, GrowthKeepsInv

\* The API answers a submission.
LEMMA AnswerFacts ==
    ASSUME Inv, NEW p \in Posts, post[p].net, NEW said \in Posts \cup Codes,
           post' = [post EXCEPT ![p].net = FALSE, ![p].reply = Answer(p, said)],
           said \in Posts =>
              /\ payment'[said] # "NONE"
              /\ post[said].checkoutId = post[p].checkoutId
              /\ post[said].seen = post[p].seen,
           \A q \in Posts \ {p} : payment[q] = "NONE" => payment'[q] = "NONE"
    PROVE  PostsAnswered
<1> USE DEF Inv
<1> DEFINE reply == Answer(p, said)
           s == [post[p] EXCEPT !.net = FALSE, !.reply = reply]
<1>1. post \in [Posts -> Submission] /\ post[p] \in Submission /\ Started(p)
  BY DEF TypeOK, NamesInv
<1>2. reply \in Posts \cup Codes \cup {NULL} /\ reply \in {said, NULL}
  BY DEF Answer
<1>3. post' = [post EXCEPT ![p] = s]
  BY <1>1
<1> HIDE DEF reply
<1>4. s \in Submission /\ s.reply = reply /\ ~s.net
  BY <1>1, <1>2 DEF Submission
<1>5. /\ s.at = post[p].at /\ s.own = post[p].own
      /\ s.checkoutId = post[p].checkoutId /\ s.quote = post[p].quote
      /\ s.version = post[p].version /\ s.seen = post[p].seen /\ s.token = post[p].token
  BY <1>1 DEF Submission
<1> HIDE DEF s
<1>6. post' \in [Posts -> Submission] /\ post'[p] = s /\ \A q \in Posts \ {p} : post'[q] = post[q]
  BY <1>1, <1>3, <1>4
<1>7. NULL \notin Posts
  BY NullAssumption DEF Payments
<1>8. ASSUME NEW q \in Posts
      PROVE  /\ post'[q].at = post[q].at /\ post'[q].own = post[q].own
             /\ post'[q].checkoutId = post[q].checkoutId /\ post'[q].quote = post[q].quote
             /\ post'[q].version = post[q].version /\ post'[q].seen = post[q].seen
             /\ post'[q].token = post[q].token
             /\ post'[q].net => post[q].net /\ payment'[q] = "NONE"
             /\ post'[q].reply # post[q].reply => Started(q)
             /\ post'[q].reply # post[q].reply /\ post'[q].reply \in Posts =>
                   /\ payment'[post'[q].reply] # "NONE"
                   /\ post[post'[q].reply].checkoutId = post[q].checkoutId
                   /\ post[post'[q].reply].seen = post[q].seen
  <2>1. CASE q = p
    BY <1>1, <1>2, <1>4, <1>5, <1>6, <1>7, <2>1
  <2>2. CASE q # p
    BY <1>6, <2>2 DEF NamesInv
  <2> QED
    BY <2>1, <2>2
<1> QED
  BY <1>6, <1>8 DEF PostsAnswered

\* The API handles a submission: accepts it, repeats an answer or refuses it.
LEMMA HandlePostKeeps ==
    ASSUME Inv, NEW p \in Posts, HandlePost(p)
    PROVE  Inv'
<1>1. post[p].net /\ UNCHANGED <<progress, page, save, faults>>
  BY DEF HandlePost
<1> DEFINE c == post[p].checkoutId
<1>2. /\ payment[p] = "NONE" /\ Started(p) /\ c \in Checkouts /\ Exists(c) /\ p \in Payments
  BY <1>1 DEF Inv, TypeOK, NamesInv, Submission, Payments
<1>3. CASE /\ Accepts(p)
           /\ draft' = [draft EXCEPT ![c] = Paying(draft[c], p)]
           /\ payment' = [payment EXCEPT ![p] = "PENDING"]
           /\ post' = [post EXCEPT ![p].net = FALSE, ![p].reply = Answer(p, p)]
  <2>1. draft[c].active = NULL /\ post[p].quote = c /\ draft[c].version = post[p].version
    BY <1>3 DEF Accepts
  <2>2. Reviewed(draft[c]) = post[p].seen
    BY <1>2, <2>1 DEF Inv, ContentInv
  <2>3. /\ RowsGrow /\ PaymentsGrow /\ payment'[p] = "PENDING"
        /\ \A q \in Payments \ {p} : payment'[q] = payment[q]
    BY <1>2, <1>3, <2>1, <2>2, PayingFacts
  <2>4. PostsAnswered
    BY <1>1, <1>3, <2>3, AnswerFacts DEF Payments
  <2> QED
    BY <1>1, <2>3, <2>4, ClientStays, GrowthKeepsInv
<1>4. CASE /\ \E q \in Replayed(p) :
                 /\ Readable(c)
                 /\ SameCommand(p, q)
                 /\ post' = [post EXCEPT ![p].net = FALSE, ![p].reply = Answer(p, q)]
           /\ UNCHANGED serverVars
  <2>1. PICK q \in Replayed(p) :
          /\ SameCommand(p, q)
          /\ post' = [post EXCEPT ![p].net = FALSE, ![p].reply = Answer(p, q)]
    BY <1>4
  <2>2. q \in Posts /\ payment[q] # "NONE" /\ post[q].checkoutId = c
    BY DEF Replayed
  <2>3. post[q].seen = post[p].seen
    BY <1>2, <2>1, <2>2 DEF Inv, NamesInv, ContentInv
  <2>4. draft' = draft /\ payment' = payment
    BY <1>4 DEF serverVars
  <2>5. RowsGrow
    BY <2>4, RowsStay
  <2>6. PaymentsGrow
    BY <2>4, <2>5, PaymentsStay DEF Inv, NamesInv, Exists
  <2>7. PostsAnswered
    BY <1>1, <2>1, <2>2, <2>3, <2>4, AnswerFacts
  <2> QED
    BY <1>1, <2>5, <2>6, <2>7, ClientStays, GrowthKeepsInv
<1>5. CASE /\ \E code \in Codes :
                 /\ Refusal(p, code)
                 /\ post' = [post EXCEPT ![p].net = FALSE, ![p].reply = Answer(p, code)]
           /\ UNCHANGED serverVars
  <2>1. PICK code \in Codes :
          post' = [post EXCEPT ![p].net = FALSE, ![p].reply = Answer(p, code)]
    BY <1>5
  <2>2. code \notin Posts
    BY NullAssumption
  <2>3. draft' = draft /\ payment' = payment
    BY <1>5 DEF serverVars
  <2>4. RowsGrow
    BY <2>3, RowsStay
  <2>5. PaymentsGrow
    BY <2>3, <2>4, PaymentsStay DEF Inv, NamesInv, Exists
  <2>6. PostsAnswered
    BY <1>1, <2>1, <2>2, <2>3, AnswerFacts
  <2> QED
    BY <1>1, <2>4, <2>5, <2>6, ClientStays, GrowthKeepsInv
<1> QED
  BY <1>3, <1>4, <1>5 DEF HandlePost

\* The tab saves a part, or fails to.
LEMMA SavePutKeeps ==
    ASSUME Inv, SavePut
    PROVE  Inv'
<1> DEFINE c == save.checkoutId
<1>1. /\ save.at = "put" /\ UNCHANGED <<payment, progress, post>>
      /\ page' = [page EXCEPT !.fetching = page.fetching
                                \/ (Mounted /\ progress.checkoutId = save.checkoutId)]
  BY DEF SavePut
<1>2. page \in Page /\ progress \in Progress /\ save \in Saving /\ faults \in 0..MaxFaults
  BY DEF Inv, TypeOK
<1>3. c \in Checkouts /\ c # NULL /\ Exists(c) /\ save.part \in {"customer", "deliveryDetails"}
  BY <1>1, <1>2 DEF Inv, NamesInv, Saving
<1>4. draft[c] \in Draft
  BY <1>3 DEF Inv, TypeOK, Exists
<1>5. /\ page' \in Page /\ page'.view = page.view /\ page'.route = page.route
      /\ page'.token = page.token
  <2> DEFINE f == page.fetching \/ (Mounted /\ progress.checkoutId = save.checkoutId)
  <2>1. f \in BOOLEAN
    BY <1>2 DEF Page
  <2>2. page' = [page EXCEPT !.fetching = f]
    BY <1>1
  <2> HIDE DEF f
  <2> QED
    BY <1>2, <2>1, <2>2 DEF Page
<1>6. \/ Puts(c, save.version) /\ draft' = Edited(c, save.part, "mine")
      \/ UNCHANGED draft
  BY DEF SavePut
<1>7. RowsGrow /\ PaymentsGrow
  <2>1. CASE Puts(c, save.version) /\ draft' = Edited(c, save.part, "mine")
    <3>1. /\ RowsGrow
          /\ \A k \in Checkouts : Exists(k)' =>
                /\ draft'[k].active # NULL => Exists(k) /\ draft'[k].active = draft[k].active
                /\ draft'[k].active = NULL => draft'[k].version <= MaxVersion
      BY <1>3, <2>1, EditedFacts
    <3> QED
      BY <1>1, <3>1, PaymentsStay
  <2>2. CASE UNCHANGED draft
    <3>1. RowsGrow
      BY <2>2, RowsStay
    <3> QED
      BY <1>1, <2>2, <3>1, PaymentsStay DEF Inv, NamesInv, Exists
  <2> QED
    BY <1>6, <2>1, <2>2
<1>8. PostsAnswered
  BY <1>1, PostsStay
<1>9. faults' \in 0..MaxFaults
  <2>1. NoFault \/ Fault
    BY DEF SavePut
  <2> QED
    BY <1>2, <2>1, BoundsAssumption DEF Fault, NoFault
<1>10. /\ save' \in Saving /\ save'.at # "idle" /\ save'.own = save.own
       /\ save'.checkoutId = save.checkoutId
  <2>1. \/ Puts(c, save.version) /\ save' = Saved(save.version + 1)
        \/ \E retry \in BOOLEAN : save' = Recover(retry)
    <3> DEFINE retry == Readable(c) /\ draft[c].version # save.version
    <3>1. retry \in BOOLEAN
      BY <1>4 DEF Readable, Draft
    <3>2. \/ Puts(c, save.version) /\ save' = Saved(save.version + 1)
          \/ save' = Recover(TRUE)
          \/ save' = Recover(retry)
      BY DEF SavePut
    <3> HIDE DEF retry
    <3> QED
      BY <3>1, <3>2
  <2>2. CASE Puts(c, save.version) /\ save' = Saved(save.version + 1)
    <3>1. save.version + 1 \in 0..(MaxVersion + 1)
      BY <1>2, <2>2, BoundsAssumption DEF Puts, Saving
    <3> QED
      BY <2>2, <3>1, SavingFacts DEF Inv
  <2>3. CASE \E retry \in BOOLEAN : save' = Recover(retry)
    <3>1. PICK retry \in BOOLEAN : save' = Recover(retry)
      BY <2>3
    <3>2. 0 \in 0..(MaxVersion + 1)
      BY BoundsAssumption
    <3> QED
      BY <3>1, <3>2, SavingFacts DEF Inv
  <2> QED
    BY <2>1, <2>2, <2>3
<1>11. \A k \in Checkouts : Exists(k) => draft'[k] # NULL
  BY <1>7 DEF RowsGrow, Exists
<1>12. ClientLearns
  <2>1. progress.checkoutId # NULL => draft'[progress.checkoutId] # NULL
    BY <1>2, <1>11 DEF Inv, NamesInv, Progress
  <2>2. draft'[c] # NULL
    BY <1>3, <1>11
  <2> QED
    BY <1>1, <1>2, <1>3, <1>5, <1>9, <1>10, <2>1, <2>2 DEF ClientLearns
<1> QED
  BY <1>7, <1>8, <1>12, GrowthKeepsInv

\* A checkout is created, or the request fails.
LEMMA CreateAnsweredKeeps ==
    ASSUME Inv, CreateAnswered
    PROVE  Inv'
<1>1. page \in Page /\ progress \in Progress /\ save \in Saving /\ faults \in 0..MaxFaults
  BY DEF Inv, TypeOK
<1>2. UNCHANGED <<payment, save, post>>
  BY DEF CreateAnswered
<1>3. faults' \in 0..MaxFaults
  <2>1. NoFault \/ Fault
    BY DEF CreateAnswered
  <2> QED
    BY <1>1, <2>1, BoundsAssumption DEF Fault, NoFault
<1>4. /\ page' \in Page /\ page'.view = page.view /\ page'.route = page.route
      /\ page'.token = page.token
  <2> DEFINE m == Mounted
  <2>1. m \in BOOLEAN
    BY DEF Mounted
  <2>2. \/ page' = [page EXCEPT !.lateCreate = FALSE, !.fetching = m]
        \/ page' = [page EXCEPT !.creating = FALSE, !.fetching = TRUE]
        \/ page' = [page EXCEPT !.creating = FALSE, !.error = TRUE]
    BY DEF CreateAnswered
  <2> HIDE DEF m
  <2> QED
    BY <1>1, <2>1, <2>2 DEF Page
<1>5. CASE UNCHANGED <<draft, progress>>
  <2>1. RowsGrow
    BY <1>5, RowsStay
  <2>2. PaymentsGrow
    BY <1>2, <1>5, <2>1, PaymentsStay DEF Inv, NamesInv, Exists
  <2>3. PostsAnswered
    BY <1>2, PostsStay
  <2>4. ClientLearns
    BY <1>1, <1>2, <1>3, <1>4, <1>5 DEF ClientLearns, Inv, NamesInv, FlowInv, Exists
  <2> QED
    BY <2>1, <2>2, <2>3, <2>4, GrowthKeepsInv
<1>6. CASE \E c \in Checkouts :
             /\ ~Exists(c)
             /\ draft' = [draft EXCEPT ![c] =
                            [version |-> 1, customer |-> NULL, deliveryDetails |-> NULL,
                             active |-> NULL, expired |-> FALSE, lapsed |-> FALSE]]
             /\ progress' = CheckoutCreated(c, NewKey)
  <2> DEFINE d == [version |-> 1, customer |-> NULL, deliveryDetails |-> NULL,
                   active |-> NULL, expired |-> FALSE, lapsed |-> FALSE]
  <2>1. PICK c \in Checkouts :
          ~Exists(c) /\ draft' = [draft EXCEPT ![c] = d] /\ progress' = CheckoutCreated(c, NewKey)
    BY <1>6
  <2>2. 1 \in 1..(MaxVersion + 1) /\ 1 <= MaxVersion
    BY BoundsAssumption
  <2>3. d \in Draft /\ d.active = NULL /\ d.version <= MaxVersion
    BY <2>2 DEF Draft, PartState
  <2> HIDE DEF d
  <2>4. /\ RowsGrow /\ draft'[c] = d
        /\ \A k \in Checkouts \ {c} : draft'[k] = draft[k]
    BY <2>1, <2>3, RowWritten
  <2>5. ASSUME NEW k \in Checkouts, Exists(k)'
        PROVE  /\ draft'[k].active # NULL => Exists(k) /\ draft'[k].active = draft[k].active
               /\ draft'[k].active = NULL => draft'[k].version <= MaxVersion
    <3>1. CASE k = c
      BY <2>3, <2>4, <3>1
    <3>2. CASE k # c
      BY <2>4, <2>5, <3>2 DEF Inv, NamesInv, Exists
    <3> QED
      BY <3>1, <3>2
  <2>6. PaymentsGrow
    BY <1>2, <2>4, <2>5, PaymentsStay
  <2>7. PostsAnswered
    BY <1>2, PostsStay
  <2>8. NewKey \in Keys
    BY NewKeyIsKey DEF Inv
  <2>9. progress' \in Progress /\ progress'.checkoutId = c /\ progress'.transactionId = NULL
    BY <2>1, <2>8 DEF CheckoutCreated, Progress, Steps
  <2>10. draft'[c] # NULL
    BY <2>3, <2>4, NullAssumption
  <2>11. save.at # "idle" => save.checkoutId # NULL /\ draft'[save.checkoutId] # NULL
    BY <1>1, <2>4 DEF Inv, NamesInv, RowsGrow, Exists, Saving
  <2>12. ClientLearns
    BY <1>1, <1>2, <1>3, <1>4, <2>9, <2>10, <2>11 DEF ClientLearns, Inv, FlowInv
  <2> QED
    BY <2>4, <2>6, <2>7, <2>12, GrowthKeepsInv
<1> QED
  BY <1>5, <1>6 DEF CreateAnswered

-----------------------------------------------------------------------------
(***************************************************************************)
(* The invariant, and what it gives.                                       *)
(***************************************************************************)
\* Nothing has been shown, saved or sent at first.
LEMMA InitInv ==
    ASSUME Init
    PROVE  Inv
<1>1. 0 \in 0..(MaxVersion + 1) /\ 0 \in 0..MaxFaults
  BY BoundsAssumption
<1>2. NoPost \in Submission /\ NoPost.at = "unsent" /\ ~NoPost.own /\ ~NoPost.net
      /\ NoPost.reply = NULL /\ NoPost.token = "none"
  BY <1>1 DEF NoPost, Submission
<1>3. progress \in Progress /\ progress.checkoutId = NULL /\ progress.transactionId = NULL
  BY DEF Init, Cleared, Progress, Steps
<1>4. page \in Page /\ page.view = NULL /\ page.route = "product" /\ page.token = "none"
  BY DEF Init, Page
<1>5. \A p \in Posts : post[p] = NoPost
  BY DEF Init
<1>6. \A p \in Posts : p \in Payments /\ payment[p] = "NONE"
  BY DEF Init, Payments
<1>7. \A c \in Checkouts : ~Exists(c)
  BY DEF Init, Exists
<1>8. TypeOK
  BY <1>1, <1>2, <1>3, <1>4, NoSaveFacts DEF Init, TypeOK, PaymentState
<1>9. save = NoSave
  BY DEF Init
<1>10. NamesInv /\ FlowInv /\ TokenInv
  BY <1>2, <1>3, <1>4, <1>5, <1>6, <1>7, <1>9, NoSaveFacts
     DEF NamesInv, FlowInv, TokenInv, TokenSentOnce, Started, Mounted
<1>11. ContentInv /\ AcceptedAsReviewed
  BY <1>2, <1>4, <1>5, <1>6 DEF ContentInv, AcceptedAsReviewed, Started
<1>12. ReplyInv
  BY <1>2, <1>5, NullAssumption DEF ReplyInv, Payments
<1> QED
  BY <1>8, <1>10, <1>11, <1>12 DEF Inv

\* A step that changes nothing of it keeps the invariant.
LEMMA StutterKeeps ==
    ASSUME Inv, UNCHANGED vars
    PROVE  Inv'
<1>1. RowsGrow
  BY RowsStay DEF vars, serverVars
<1>2. PaymentsGrow
  BY <1>1, PaymentsStay DEF vars, serverVars, Inv, NamesInv, Exists
<1>3. PostsAnswered
  BY PostsStay DEF vars, serverVars
<1>4. ClientLearns
  BY <1>1, ClientStays DEF vars, serverVars
<1> QED
  BY <1>1, <1>2, <1>3, <1>4, GrowthKeepsInv

\* Every step keeps the invariant.
LEMMA StepKeepsInv ==
    ASSUME Inv, [Next]_<<vars, upsets>>
    PROVE  Inv'
<1>1. CASE BuyerNext
  <2>1. CASE Open
    BY <2>1, OpenKeeps
  <2>2. CASE Leave \/ RefreshQuote \/ ReturnToProduct
    BY <2>2, LeavingKeeps
  <2>3. CASE Reload
    BY <2>3, ReloadKeeps
  <2>4. CASE Tokenized \/ AcceptTerms \/ Back \/ StartWithoutToken
    BY <2>4, StepsKeep
  <2>5. CASE StartSave
    BY <2>5, StartSaveKeeps
  <2>6. CASE \E p \in Posts : StartPayment(p)
    BY <2>6, StartPaymentKeeps
  <2>7. CASE ConsultSession
    BY <2>7, ReadsKeep
  <2> QED
    BY <1>1, <2>1, <2>2, <2>3, <2>4, <2>5, <2>6, <2>7 DEF BuyerNext
<1>2. CASE PageNext
  <2>1. CASE CreateAnswered
    BY <2>1, CreateAnsweredKeeps
  <2>2. CASE Fetch
    BY <2>2, ReadsKeep
  <2>3. CASE AdoptActive
    BY <2>3, AdoptKeeps
  <2>4. CASE RequireToken \/ TokenExpires
    BY <2>4, StepsKeep
  <2>5. CASE SavePut
    BY <2>5, SavePutKeeps
  <2>6. CASE SaveRecover
    BY <2>6, SaveRecoverKeeps
  <2>7. CASE SaveFinal
    BY <2>7, SaveFinalKeeps
  <2>8. CASE PollTransaction
    BY <2>8, PollKeeps
  <2>9. CASE \E p \in Posts : \/ PostAccepted(p) \/ PostRefused(p) \/ PostLost(p)
                              \/ PostRefetch(p) \/ PostRecover(p)
    BY <2>9, PostAcceptedKeeps, PostRefusedKeeps, PostLostKeeps, PostRefetchKeeps,
       PostRecoverKeeps
  <2> QED
    BY <1>2, <2>1, <2>2, <2>3, <2>4, <2>5, <2>6, <2>7, <2>8, <2>9 DEF PageNext
<1>3. CASE ServerNext
  <2>1. CASE \E p \in Posts : HandlePost(p)
    BY <2>1, HandlePostKeeps
  <2>2. CASE \E p \in Payments : DecidePayment(p)
    BY <2>2, DecidePaymentKeeps
  <2>3. CASE \E c \in Checkouts : Expire(c) \/ Lapse(c)
    BY <2>3, EndsKeep
  <2>4. CASE \E c \in Checkouts, part \in {"customer", "deliveryDetails"} : OtherTabEdits(c, part)
    BY <2>4, OtherTabEditsKeeps
  <2>5. CASE \E c \in Checkouts, o \in OtherPosts : OtherTabPays(c, o)
    BY <2>5, OtherTabPaysKeeps
  <2> QED
    BY <1>3, <2>1, <2>2, <2>3, <2>4, <2>5 DEF ServerNext
<1>4. CASE UNCHANGED <<vars, upsets>>
  BY <1>4, StutterKeeps
<1> QED
  BY <1>1, <1>2, <1>3, <1>4 DEF Next

\* The invariant holds in every behaviour, whatever goes wrong in it.
THEOREM DialogInvariant == Spec => []Inv
<1>1. Init => Inv
  BY InitInv
<1>2. Inv /\ [Next]_<<vars, upsets>> => Inv'
  BY StepKeepsInv
<1> QED
  BY <1>1, <1>2, PTL DEF Spec

\* Every variable of the dialog keeps its shape.
THEOREM DialogTypeCorrect == Spec => []TypeOK
<1>1. Inv => TypeOK
  BY DEF Inv
<1> QED
  BY <1>1, DialogInvariant, PTL

\* A card token is posted at most once, whatever was answered.
THEOREM TokensAreSentOnce == Spec => []TokenSentOnce
<1>1. Inv => TokenSentOnce
  BY DEF Inv, TokenInv
<1> QED
  BY <1>1, DialogInvariant, PTL

\* What is paid is what the buyer had on screen when confirming.
THEOREM AcceptanceCorrect == Spec => []AcceptedAsReviewed
<1>1. Inv => AcceptedAsReviewed
  BY DEF Inv
<1> QED
  BY <1>1, DialogInvariant, PTL

\* A submission answered with an earlier payment is told of what it confirmed.
THEOREM ReplayCorrect == Spec => []ReplayAsReviewed
<1>1. Inv => ReplayAsReviewed
  BY DEF Inv, ReplyInv, ReplayAsReviewed
<1> QED
  BY <1>1, DialogInvariant, PTL

-----------------------------------------------------------------------------
(***************************************************************************)
(* Where nothing is left behind.                                           *)
(***************************************************************************)
\* While a submission is awaited the dialog can do nothing else.
LEMMA WaitFacts ==
    ASSUME Inv, Kept, NEW p \in Posts, Waits(p)
    PROVE  /\ Mounted /\ page.view # NULL /\ Submitting /\ post[p].own
           /\ progress.checkoutId # NULL /\ progress.checkoutId = post[p].checkoutId
           /\ progress.step = "review" /\ page.token = "sent" /\ ~page.error /\ ~AdoptDue
           /\ save.at = "idle" /\ ~page.fetching /\ ~page.creating
           /\ \A q \in Posts : post[q].own => q = p
<1>1. /\ post[p].own /\ progress.checkoutId = post[p].checkoutId
      /\ progress.step = "review" /\ page.token = "sent" /\ ~page.error /\ ~AdoptDue
  BY DEF Kept, WaitingInv
<1>2. Mounted /\ page.view # NULL
  BY <1>1 DEF Inv, FlowInv
<1>3. Submitting
  BY <1>1 DEF Submitting, Waits
<1>4. progress.checkoutId # NULL
  BY <1>1 DEF Inv, NamesInv, Started, Waits
<1>5. save.at = "idle" /\ ~page.fetching /\ ~page.creating
  BY <1>1, <1>2, <1>4 DEF Kept, PageInv
<1>6. \A q \in Posts : post[q].own => q = p
  BY <1>1 DEF Inv, FlowInv
<1> QED
  BY <1>1, <1>2, <1>3, <1>4, <1>5, <1>6

\* A step of the client that keeps the checkout.
KeptStep ==
    /\ UNCHANGED <<serverVars, upsets>>
    /\ \A p \in Posts : SameSubmission(p)
    /\ ~page'.lateCreate
    /\ progress'.checkoutId = progress.checkoutId
    /\ \/ page'.view = NULL
       \/ page'.view = page.view
       \/ progress.checkoutId # NULL /\ page'.view = Snapshot(progress.checkoutId)
    /\ Mounted' /\ page'.view # NULL => page'.view.checkoutId = progress.checkoutId
    /\ page'.creating => Mounted' /\ progress.checkoutId = NULL
    /\ progress.checkoutId = NULL => progress'.step = "payment" /\ progress'.transactionId = NULL
    /\ Mounted' /\ progress'.step \in {"acceptances", "review"} =>
          save'.at = "idle" /\ ~page'.fetching
    /\ progress'.transactionId # NULL =>
          progress'.transactionId = draft[progress.checkoutId].active
    /\ page'.shown # NULL =>
          /\ progress'.transactionId # NULL
          /\ page'.shown = page.shown \/ page'.shown = payment[progress'.transactionId]
    /\ \A p \in Posts : Waits(p)' =>
          /\ Waits(p) /\ post'[p].own
          /\ progress'.step = "review" /\ page'.token = "sent" /\ ~page'.error /\ ~AdoptDue'

\* Such a step keeps what holds where nothing is left behind.
LEMMA KeptStepKeeps ==
    ASSUME Inv, Kept, KeptStep
    PROVE  Kept'
<1> USE DEF Inv, Kept
<1>1. draft' = draft /\ payment' = payment
  BY DEF KeptStep, serverVars
<1>2. \A p \in Posts : SameSubmission(p)
  BY DEF KeptStep
<1>3. CalmInv'
  <2>1. \A p \in Posts : post'[p].reply \notin {"410", "QUOTE_STALE", "OUT_OF_STOCK"}
    <3> SUFFICES ASSUME NEW p \in Posts
                 PROVE  post'[p].reply \notin {"410", "QUOTE_STALE", "OUT_OF_STOCK"}
      OBVIOUS
    <3>1. post'[p].reply = post[p].reply \/ post'[p].reply = NULL
      BY <1>2 DEF SameSubmission
    <3>2. post[p].reply \notin {"410", "QUOTE_STALE", "OUT_OF_STOCK"}
      BY DEF CalmInv
    <3>3. NULL \notin {"410", "QUOTE_STALE", "OUT_OF_STOCK"}
      BY NullAssumption DEF Codes
    <3> QED
      BY <3>1, <3>2, <3>3
  <2> QED
    BY <1>1, <2>1 DEF KeptStep, CalmInv, Exists
<1>4. PageInv'
  <2>1. \A p \in Posts : Started(p)' => post'[p].quote = post'[p].checkoutId
    BY <1>2 DEF SameSubmission, PageInv
  <2> QED
    BY <2>1 DEF KeptStep, PageInv
<1>5. WaitingInv'
  BY <1>2 DEF KeptStep, WaitingInv, SameSubmission
<1>6. ActiveInv'
  <2>1. page'.view # NULL /\ page'.view.active # NULL =>
          page'.view.active = draft[page'.view.checkoutId].active
    <3>1. CASE page'.view = page.view
      BY <3>1 DEF ActiveInv
    <3>2. CASE progress.checkoutId # NULL /\ page'.view = Snapshot(progress.checkoutId)
      <4>1. progress.checkoutId \in Checkouts /\ Exists(progress.checkoutId)
        BY <3>2 DEF TypeOK, NamesInv, Progress
      <4> QED
        BY <3>2, <4>1, SnapshotFacts
    <3> QED
      BY <3>1, <3>2 DEF KeptStep
  <2>2. page'.shown = "SETTLED" => payment[progress'.transactionId] = "SETTLED"
    <3> SUFFICES ASSUME page'.shown = "SETTLED"
                 PROVE  payment[progress'.transactionId] = "SETTLED"
      OBVIOUS
    <3>1. page'.shown # NULL
      BY NullAssumption DEF PaymentState
    <3>2. progress'.transactionId # NULL
          /\ progress'.transactionId = draft[progress.checkoutId].active
      BY <3>1 DEF KeptStep
    <3>3. CASE page'.shown = page.shown
      <4>1. progress.transactionId = draft[progress.checkoutId].active
            /\ payment[progress.transactionId] = "SETTLED"
        BY <3>1, <3>3 DEF ActiveInv
      <4> QED
        BY <3>2, <4>1
    <3>4. CASE page'.shown = payment[progress'.transactionId]
      BY <3>4
    <3> QED
      BY <3>1, <3>3, <3>4 DEF KeptStep
  <2> QED
    BY <1>1, <2>1, <2>2 DEF KeptStep, ActiveInv
<1>7. ReachInv'
  <2> SUFFICES ASSUME NEW p \in Posts,
                      payment'[p] = "PENDING"
                        \/ (post'[p].net /\ draft'[post'[p].checkoutId].active = NULL)
               PROVE  progress'.checkoutId = post'[p].checkoutId
    BY DEF ReachInv
  <2>1. post'[p].checkoutId = post[p].checkoutId /\ post'[p].net = post[p].net
    BY <1>2 DEF SameSubmission
  <2> QED
    BY <1>1, <2>1 DEF KeptStep, ReachInv
<1> QED
  BY <1>3, <1>4, <1>5, <1>6, <1>7

\* A new dialog does not wait for a create of the one before.
LEMMA FreshIsCalm ==
    ASSUME Kept, NothingLeftBehind, NEW route
    PROVE  ~FreshPage(route).lateCreate
  BY DEF Kept, CalmInv, NothingLeftBehind, FreshPage

\* A GET finds the checkout, or fails and changes nothing.
LEMMA GetIsCalm ==
    ASSUME Inv, Kept, NothingLeftBehind, progress.checkoutId # NULL,
           NEW r \in [view : {page.view, Snapshot(progress.checkoutId)}, gone : BOOLEAN],
           Get(r)
    PROVE  /\ ProgressAfter(r) = progress /\ PageAfter(r) \in Page
           /\ PageAfter(r).view = r.view /\ ~PageAfter(r).fetching
           /\ PageAfter(r).route = page.route /\ PageAfter(r).shown = page.shown
           /\ PageAfter(r).token = page.token /\ PageAfter(r).error = page.error
           /\ PageAfter(r).creating = page.creating /\ ~PageAfter(r).lateCreate
           /\ r.view = page.view \/ r.view = Snapshot(progress.checkoutId)
           /\ Mounted /\ r.view # NULL =>
                 /\ r.view.checkoutId = progress.checkoutId /\ r.view \in View
                 /\ r.view.active # NULL =>
                       r.view.active = draft[progress.checkoutId].active
<1> USE DEF Inv, Kept
<1>1. page \in Page /\ progress.checkoutId \in Checkouts /\ Exists(progress.checkoutId)
  BY DEF TypeOK, Progress, NamesInv
<1>2. /\ r.view = page.view \/ r.view = Snapshot(progress.checkoutId)
      /\ r.view \in View \cup {NULL}
      /\ PageAfter(r) \in Page
      /\ PageAfter(r) = [page EXCEPT !.view = r.view, !.fetching = FALSE,
                                     !.error = page.error \/ r.gone]
      /\ r.gone => ~Readable(progress.checkoutId)
  BY GetFacts
<1>3. ~r.gone
  BY <1>1, <1>2 DEF CalmInv, Readable
<1>4. ProgressAfter(r) = progress
  BY <1>3 DEF ProgressAfter
<1>5. /\ PageAfter(r).view = r.view /\ ~PageAfter(r).fetching
      /\ PageAfter(r).route = page.route /\ PageAfter(r).shown = page.shown
      /\ PageAfter(r).token = page.token /\ PageAfter(r).error = page.error
      /\ PageAfter(r).creating = page.creating /\ PageAfter(r).lateCreate = page.lateCreate
  BY <1>1, <1>2, <1>3 DEF Page
<1>6. ASSUME Mounted, r.view # NULL
      PROVE  /\ r.view.checkoutId = progress.checkoutId /\ r.view \in View
             /\ r.view.active # NULL => r.view.active = draft[progress.checkoutId].active
  <2>1. CASE r.view = page.view
    BY <1>2, <1>6, <2>1 DEF PageInv, ActiveInv
  <2>2. CASE r.view = Snapshot(progress.checkoutId)
    BY <1>1, <2>2, SnapshotFacts
  <2> QED
    BY <1>2, <2>1, <2>2
<1> QED
  BY <1>2, <1>4, <1>5, <1>6 DEF CalmInv

\* Submissions that are left as they are.
LEMMA SamePosts ==
    ASSUME UNCHANGED post
    PROVE  \A p \in Posts : SameSubmission(p) /\ (Waits(p)' <=> Waits(p))
  BY DEF SameSubmission, Started, Waits

\* The dialog is opened.
LEMMA OpenIsKept ==
    ASSUME Inv, Kept, NothingLeftBehind, UNCHANGED upsets, Open
    PROVE  Kept'
<1> USE DEF Inv, Kept
<1> DEFINE route == IF progress.transactionId = NULL THEN "capture" ELSE "status"
<1>1. progress \in Progress
  BY DEF TypeOK
<1>2. route \in {"capture", "status"} /\ Mount(route, progress) /\ Local /\ ~Mounted
  BY DEF Open
<1> HIDE DEF route
<1>3. /\ page' \in Page /\ progress' \in Progress
      /\ page'.route = route /\ page'.shown = NULL
      /\ page'.view = Cached(progress.checkoutId)
      /\ page'.creating => progress.checkoutId = NULL
      /\ page'.lateCreate = FreshPage(route).lateCreate
      /\ progress'.checkoutId = progress.checkoutId
      /\ progress'.transactionId = progress.transactionId
      /\ progress.checkoutId # NULL => progress'.step \in {"payment", "status"}
      /\ progress.checkoutId = NULL => progress' = progress
  BY <1>1, <1>2, MountFacts
<1>4. Mounted' /\ ~page'.lateCreate
  BY <1>2, <1>3, FreshIsCalm DEF Mounted
<1>5. page'.view = NULL \/ (page'.view = page.view /\ page'.view.checkoutId = progress.checkoutId)
  BY <1>3 DEF Cached
<1>6. \A p \in Posts : SameSubmission(p) /\ (Waits(p)' <=> Waits(p))
  BY <1>2, SamePosts DEF Local
<1>7. \A p \in Posts : ~Waits(p)
  BY <1>2, WaitFacts
<1>8. progress.checkoutId = NULL => progress'.step = "payment" /\ progress'.transactionId = NULL
  BY <1>3 DEF PageInv
<1>9. progress'.step \notin {"acceptances", "review"}
  BY <1>3, <1>8
<1>10. progress'.transactionId # NULL =>
          progress'.transactionId = draft[progress.checkoutId].active
  BY <1>3 DEF ActiveInv
<1>11. KeptStep
  BY <1>2, <1>3, <1>4, <1>5, <1>6, <1>7, <1>8, <1>9, <1>10 DEF KeptStep, Local
<1> QED
  BY <1>11, KeptStepKeeps

\* The dialog leaves the screen, and the slice keeps its checkout.
LEMMA UnmountIsKept ==
    ASSUME Inv, Kept, NothingLeftBehind, UNCHANGED <<serverVars, upsets>>,
           Unmount, progress' = progress, \A p \in Posts : ~Waits(p)
    PROVE  Kept'
<1> USE DEF Inv, Kept
<1>1. page \in Page /\ progress \in Progress /\ post \in [Posts -> Submission]
  BY DEF TypeOK
<1>2. FreshPage("product") \in Page /\ FreshPage("product").route = "product"
      /\ FreshPage("product").shown = NULL /\ ~FreshPage("product").creating
      /\ ~FreshPage("product").lateCreate
  BY FreshPageFacts, FreshIsCalm
<1>3. page' = [FreshPage("product") EXCEPT !.view = page.view]
  BY DEF Unmount
<1>4. /\ page'.view = page.view /\ page'.route = "product" /\ page'.shown = NULL
      /\ ~page'.creating /\ ~page'.lateCreate
  BY <1>1, <1>2, <1>3 DEF Page
<1>5. ~Mounted'
  BY <1>4 DEF Mounted
<1>6. \A p \in Posts : SameSubmission(p) /\ ~Waits(p)'
  <2> SUFFICES ASSUME NEW p \in Posts
               PROVE  SameSubmission(p) /\ ~Waits(p)'
    OBVIOUS
  <2>1. post[p] \in Submission /\ post'[p] = [post[p] EXCEPT !.own = FALSE]
    BY <1>1 DEF Unmount, Orphaned
  <2> QED
    BY <2>1 DEF Submission, SameSubmission, Started, Waits
<1>7. KeptStep
  BY <1>4, <1>5, <1>6 DEF KeptStep, PageInv, ActiveInv
<1> QED
  BY <1>7, KeptStepKeeps

\* The buyer leaves, with nothing awaited.
LEMMA LeaveIsKept ==
    ASSUME Inv, Kept, NothingLeftBehind, UNCHANGED upsets, Leave
    PROVE  Kept'
<1>1. "back" \notin upsets
  BY DEF NothingLeftBehind
<1>2. ~Submitting
  BY <1>1 DEF Leave
<1>3. \A p \in Posts : ~Waits(p)
  BY <1>2, WaitFacts
<1> QED
  BY <1>3, UnmountIsKept DEF Leave

\* No quote lapses, so none is asked for anew.
LEMMA RefreshNeedsALapse ==
    ASSUME Inv, Kept
    PROVE  ~RefreshQuote
<1> SUFFICES ASSUME RefreshQuote PROVE FALSE
  OBVIOUS
<1>1. page.view # NULL /\ draft[page.view.checkoutId].lapsed
  BY DEF RefreshQuote, Shows
<1>2. page.view.checkoutId \in Checkouts /\ Exists(page.view.checkoutId)
  BY <1>1 DEF Inv, TypeOK, NamesInv, Page, View
<1> QED
  BY <1>1, <1>2 DEF Kept, CalmInv

\* The buyer returns to the product: what is forgotten has been settled.
LEMMA ReturnIsKept ==
    ASSUME Inv, Kept, NothingLeftBehind, UNCHANGED upsets, ReturnToProduct
    PROVE  Kept'
<1> USE DEF Inv, Kept
<1>1. /\ Unmount /\ UNCHANGED <<serverVars, faults>>
      /\ progress' = IF Forgets THEN Cleared ELSE progress
      /\ ShowsTransaction \/ page.error
  BY DEF ReturnToProduct
<1>2. \A p \in Posts : ~Waits(p)
  BY <1>1, WaitFacts DEF ShowsTransaction, Shows
<1>3. CASE ~Forgets
  BY <1>1, <1>2, <1>3, UnmountIsKept
<1>4. CASE Forgets
  <2>1. page \in Page /\ progress \in Progress /\ post \in [Posts -> Submission]
    BY DEF TypeOK
  <2>2. /\ progress.transactionId # NULL
        /\ progress.transactionId = draft[progress.checkoutId].active
        /\ payment[progress.transactionId] = "SETTLED"
    BY <1>4, NullAssumption DEF Forgets, ActiveInv, PaymentState
  <2>3. FreshPage("product") \in Page /\ FreshPage("product").route = "product"
        /\ FreshPage("product").shown = NULL /\ ~FreshPage("product").creating
        /\ ~FreshPage("product").lateCreate
    BY FreshPageFacts, FreshIsCalm
  <2>4. page' = [FreshPage("product") EXCEPT !.view = page.view]
    BY <1>1 DEF Unmount
  <2>5. /\ page'.view = page.view /\ page'.route = "product" /\ page'.shown = NULL
        /\ ~page'.creating /\ ~page'.lateCreate
    BY <2>1, <2>3, <2>4 DEF Page
  <2>6. ~Mounted' /\ draft' = draft /\ payment' = payment
    BY <1>1, <2>5 DEF Mounted, serverVars
  <2>7. \A p \in Posts : SameSubmission(p) /\ ~Waits(p)'
    <3> SUFFICES ASSUME NEW p \in Posts
                 PROVE  SameSubmission(p) /\ ~Waits(p)'
      OBVIOUS
    <3>1. post[p] \in Submission /\ post'[p] = [post[p] EXCEPT !.own = FALSE]
      BY <1>1, <2>1 DEF Unmount, Orphaned
    <3> QED
      BY <1>2, <3>1 DEF Submission, SameSubmission, Started, Waits
  <2>8. progress'.checkoutId = NULL /\ progress'.transactionId = NULL /\ progress'.step = "payment"
    BY <1>1, <1>4 DEF Cleared
  <2>9. CalmInv'
    <3>1. \A p \in Posts : post'[p].reply \notin {"410", "QUOTE_STALE", "OUT_OF_STOCK"}
      BY <2>7, NullAssumption DEF SameSubmission, CalmInv, Codes
    <3> QED
      BY <2>5, <2>6, <3>1 DEF CalmInv, Exists
  <2>10. PageInv'
    <3>1. \A p \in Posts : Started(p)' => post'[p].quote = post'[p].checkoutId
      BY <2>7 DEF SameSubmission, PageInv
    <3> QED
      BY <2>5, <2>6, <2>8, <3>1 DEF PageInv
  <2>11. WaitingInv'
    BY <2>7 DEF WaitingInv
  <2>12. ActiveInv'
    BY <2>5, <2>6, <2>8, NullAssumption DEF ActiveInv, PaymentState
  <2>13. ReachInv'
    <3> SUFFICES ASSUME NEW p \in Posts,
                        payment[p] = "PENDING"
                          \/ (post[p].net /\ draft[post[p].checkoutId].active = NULL)
                 PROVE  FALSE
      BY <2>6, <2>7 DEF ReachInv, SameSubmission
    <3>1. progress.checkoutId = post[p].checkoutId
      BY DEF ReachInv
    <3>2. payment[p] # "NONE" => draft[post[p].checkoutId].active = p
      BY DEF AcceptedAsReviewed
    <3> QED
      BY <2>2, <3>1, <3>2
  <2> QED
    BY <2>9, <2>10, <2>11, <2>12, <2>13
<1> QED
  BY <1>3, <1>4

\* The page is loaded again.
LEMMA ReloadIsKept ==
    ASSUME Inv, Kept, NothingLeftBehind, UNCHANGED upsets, Reload
    PROVE  Kept'
<1> USE DEF Inv, Kept
<1>1. page \in Page /\ progress \in Progress /\ post \in [Posts -> Submission]
  BY DEF TypeOK
<1>2. \A p \in Posts : SameSubmission(p) /\ ~Waits(p)'
  <2> SUFFICES ASSUME NEW p \in Posts
               PROVE  SameSubmission(p) /\ ~Waits(p)'
    OBVIOUS
  <2>1. post[p] \in Submission
    BY <1>1
  <2>2. CASE post[p].at = "unsent"
    <3>1. post'[p] = post[p]
      BY <2>2 DEF Reload
    <3> QED
      BY <2>2, <3>1 DEF SameSubmission, Started, Waits
  <2>3. CASE post[p].at # "unsent"
    <3>1. post'[p] = [post[p] EXCEPT !.at = "done", !.own = FALSE, !.reply = NULL]
      BY <2>3 DEF Reload
    <3> QED
      BY <2>1, <2>3, <3>1 DEF Submission, SameSubmission, Started, Waits
  <2> QED
    BY <2>2, <2>3
<1> DEFINE s == ReadProgress(progress)
<1>3. /\ s \in Progress /\ s.checkoutId = progress.checkoutId
      /\ s.transactionId \in {progress.transactionId, NULL} /\ s.step = "payment"
      /\ s.checkoutId = NULL => s.transactionId = NULL
  <2>1. s \in Progress /\ s.checkoutId = progress.checkoutId
        /\ s.transactionId \in {progress.transactionId, NULL}
    BY <1>1, SliceFacts
  <2>2. s.step = "payment" /\ (progress.checkoutId = NULL => s.transactionId = NULL)
    BY <1>1 DEF ReadProgress, Cleared, Progress
  <2> QED
    BY <2>1, <2>2
<1> HIDE DEF s
<1>4. /\ progress'.checkoutId = progress.checkoutId
      /\ progress'.transactionId = s.transactionId
      /\ progress'.step \in {"payment", "status"}
      /\ progress.checkoutId = NULL => progress'.step = "payment"
  <2>1. progress' = s \/ (s.checkoutId # NULL /\ progress' = CheckoutRecovered(s))
    BY DEF Reload, s
  <2> QED
    BY <1>3, <2>1, RecoveredFacts
<1>5. /\ page'.view = NULL /\ page'.shown = NULL /\ ~page'.lateCreate
      /\ page'.creating => page'.route # "product" /\ progress.checkoutId = NULL
  <2>1. CASE Mounted
    <3>1. page.route \in {"product", "capture", "status"}
      BY <1>1 DEF Page
    <3> DEFINE f == s.checkoutId # NULL
               k == s.checkoutId = NULL /\ page.route = "capture"
               e == s.checkoutId = NULL /\ page.route = "status"
    <3>2. f \in BOOLEAN /\ k \in BOOLEAN /\ e \in BOOLEAN
          /\ (k => progress.checkoutId = NULL)
      BY <1>3
    <3>3. page' = [FreshPage(page.route) EXCEPT !.fetching = f, !.creating = k, !.error = e,
                                                !.lateCreate = FALSE]
      BY <2>1 DEF Reload, s
    <3>4. FreshPage(page.route) \in Page /\ FreshPage(page.route).view = NULL
          /\ FreshPage(page.route).shown = NULL /\ FreshPage(page.route).route = page.route
      BY <3>1, FreshPageFacts
    <3> HIDE DEF f, k, e
    <3>5. /\ page'.view = NULL /\ page'.shown = NULL /\ ~page'.lateCreate
          /\ page'.creating = k /\ page'.route = page.route
      BY <3>2, <3>3, <3>4 DEF Page
    <3> QED
      BY <2>1, <3>2, <3>5 DEF Mounted
  <2>2. CASE ~Mounted
    <3>1. page' = [FreshPage("product") EXCEPT !.lateCreate = FALSE]
      BY <2>2 DEF Reload
    <3>2. FreshPage("product") \in Page /\ FreshPage("product").view = NULL
          /\ FreshPage("product").shown = NULL /\ ~FreshPage("product").creating
      BY FreshPageFacts
    <3> QED
      BY <3>1, <3>2 DEF Page
  <2> QED
    BY <2>1, <2>2
<1>6. UNCHANGED serverVars
  BY DEF Reload
<1>7. progress'.transactionId # NULL =>
        progress'.transactionId = draft[progress.checkoutId].active
  BY <1>3, <1>4 DEF ActiveInv
<1>8. KeptStep
  BY <1>2, <1>3, <1>4, <1>5, <1>6, <1>7 DEF KeptStep, Mounted
<1> QED
  BY <1>8, KeptStepKeeps

\* The steps of the buyer, and the timers and effects, that write no more than a
\* step of the slice, a card or a selection: none runs while a submission waits.
LEMMA StepsAreKept ==
    ASSUME Inv, Kept, NothingLeftBehind, UNCHANGED upsets,
           Tokenized \/ AcceptTerms \/ Back \/ StartWithoutToken \/ RequireToken \/ TokenExpires
    PROVE  Kept'
<1> USE DEF Inv, Kept
<1>1. page \in Page /\ progress \in Progress
  BY DEF TypeOK
<1>2. PICK step \in Steps :
        /\ progress' = AtStep(progress, step)
        /\ \/ step = "payment"
           \/ page.view # NULL /\ step = "customer"
           \/ page.view # NULL /\ step \in {"acceptances", "review"}
                /\ progress.step \in {"acceptances", "review"}
  BY DEF Tokenized, AcceptTerms, Back, StartWithoutToken, RequireToken, TokenExpires, Steps, Shows
<1>3. /\ progress' \in Progress /\ progress'.checkoutId = progress.checkoutId
      /\ progress'.transactionId = progress.transactionId /\ progress'.step = step
  BY <1>1, <1>2, SliceFacts
<1>4. Mounted
  BY DEF Tokenized, AcceptTerms, Back, StartWithoutToken, RequireToken, TokenExpires,
         Shows, ShowsReview, TokenDue
<1>5. \/ page' = page
      \/ page' = [page EXCEPT !.token = "fresh"]
      \/ page' = [page EXCEPT !.token = "none", !.selection = FALSE]
      \/ page' = [page EXCEPT !.selection = TRUE]
      \/ page' = [page EXCEPT !.selection = FALSE]
  BY DEF Tokenized, AcceptTerms, Back, StartWithoutToken, RequireToken, TokenExpires,
         WithoutSecrets
<1>6. /\ page'.route = page.route /\ page'.view = page.view /\ page'.shown = page.shown
      /\ page'.creating = page.creating /\ page'.lateCreate = page.lateCreate
      /\ page'.fetching = page.fetching
  BY <1>1, <1>5 DEF Page
<1>7. Mounted'
  BY <1>4, <1>6 DEF Mounted
<1>8. Local
  BY DEF Tokenized, AcceptTerms, Back, StartWithoutToken, RequireToken, TokenExpires
<1>9. \A p \in Posts : SameSubmission(p) /\ (Waits(p)' <=> Waits(p))
  BY <1>8, SamePosts DEF Local
<1>10. \A p \in Posts : ~Waits(p)
  <2> SUFFICES ASSUME NEW p \in Posts, Waits(p) PROVE FALSE
    OBVIOUS
  <2>1. Submitting /\ progress.step = "review" /\ page.token = "sent"
    BY WaitFacts
  <2> QED
    BY <2>1 DEF Tokenized, AcceptTerms, Back, StartWithoutToken, RequireToken, TokenExpires,
                Shows, TokenDue, NothingLeftBehind
<1>11. progress.checkoutId = NULL => step = "payment" /\ progress.transactionId = NULL
  <2>1. page.view # NULL => progress.checkoutId # NULL
    BY <1>1, <1>4, NullAssumption DEF PageInv, Page, View
  <2> QED
    BY <1>2, <2>1 DEF PageInv
<1>12. step \in {"acceptances", "review"} => save.at = "idle" /\ ~page.fetching
  BY <1>2, <1>4 DEF PageInv
<1>13. KeptStep
  BY <1>3, <1>4, <1>6, <1>7, <1>8, <1>9, <1>10, <1>11, <1>12
     DEF KeptStep, Local, CalmInv, PageInv, ActiveInv
<1> QED
  BY <1>13, KeptStepKeeps

\* The buyer confirms the customer step, and a save begins.
LEMMA StartSaveIsKept ==
    ASSUME Inv, Kept, NothingLeftBehind, UNCHANGED upsets, StartSave
    PROVE  Kept'
<1> USE DEF Inv, Kept
<1>1. /\ UNCHANGED <<serverVars, progress, page, post>>
      /\ progress.step = "customer" /\ Mounted /\ page.view # NULL
  BY DEF StartSave, Shows
<1>2. \A p \in Posts : SameSubmission(p) /\ (Waits(p)' <=> Waits(p))
  BY <1>1, SamePosts
<1>3. \A p \in Posts : ~Waits(p)
  BY <1>1, WaitFacts
<1>4. Mounted' <=> Mounted
  BY <1>1 DEF Mounted
<1>5. KeptStep
  BY <1>1, <1>2, <1>3, <1>4 DEF KeptStep, CalmInv, PageInv, ActiveInv
<1> QED
  BY <1>5, KeptStepKeeps

\* The status is polled.
LEMMA PollIsKept ==
    ASSUME Inv, Kept, NothingLeftBehind, UNCHANGED upsets, PollTransaction
    PROVE  Kept'
<1> USE DEF Inv, Kept
<1> DEFINE s == payment[progress.transactionId]
<1>1. page \in Page
  BY DEF TypeOK
<1>2. /\ page' = [page EXCEPT !.shown = s] /\ progress' = progress /\ Local
      /\ Mounted /\ progress.transactionId # NULL
  BY DEF PollTransaction
<1> HIDE DEF s
<1>3. /\ page'.route = page.route /\ page'.view = page.view /\ page'.shown = s
      /\ page'.creating = page.creating /\ page'.lateCreate = page.lateCreate
      /\ page'.fetching = page.fetching /\ page'.token = page.token /\ page'.error = page.error
  BY <1>1, <1>2 DEF Page
<1>4. Mounted' /\ (AdoptDue' <=> AdoptDue)
  BY <1>2, <1>3 DEF Mounted, AdoptDue
<1>5. \A p \in Posts : SameSubmission(p) /\ (Waits(p)' <=> Waits(p)) /\ post'[p] = post[p]
  BY <1>2, SamePosts DEF Local
<1>6. \A p \in Posts : Waits(p)' =>
          /\ Waits(p) /\ post'[p].own
          /\ progress'.step = "review" /\ page'.token = "sent" /\ ~page'.error /\ ~AdoptDue'
  BY <1>2, <1>3, <1>4, <1>5, WaitFacts
<1>7. KeptStep
  BY <1>2, <1>3, <1>4, <1>5, <1>6 DEF KeptStep, Local, CalmInv, PageInv, ActiveInv, s
<1> QED
  BY <1>7, KeptStepKeeps

\* The active payment of the view is adopted.
LEMMA AdoptIsKept ==
    ASSUME Inv, Kept, NothingLeftBehind, UNCHANGED upsets, AdoptActive
    PROVE  Kept'
<1> USE DEF Inv, Kept
<1>1. page \in Page /\ progress \in Progress
  BY DEF TypeOK
<1>2. Mounted /\ page.view # NULL /\ page.view.active # NULL /\ AdoptDue /\ Local
  BY DEF AdoptActive, AdoptDue
<1>3. /\ page.view.active \in Payments
      /\ page.view.checkoutId = progress.checkoutId /\ progress.checkoutId # NULL
      /\ page.view.active = draft[progress.checkoutId].active
  BY <1>1, <1>2, NullAssumption DEF Page, View, PageInv, ActiveInv
<1>4. \/ progress' = progress /\ progress.transactionId = page.view.active
      \/ progress' = TransactionAccepted(progress, page.view.active)
  BY DEF AdoptActive
<1>5. /\ progress'.checkoutId = progress.checkoutId
      /\ progress'.transactionId = page.view.active
      /\ progress' = progress \/ progress'.step = "status"
  BY <1>1, <1>3, <1>4, SliceFacts
<1>6. page' = [page EXCEPT !.route = "status"]
  BY DEF AdoptActive
<1>7. /\ page'.route = "status" /\ page'.view = page.view /\ page'.shown = page.shown
      /\ page'.creating = page.creating /\ page'.lateCreate = page.lateCreate
      /\ page'.fetching = page.fetching
  BY <1>1, <1>6 DEF Page
<1>8. Mounted'
  BY <1>7 DEF Mounted
<1>9. \A p \in Posts : SameSubmission(p) /\ (Waits(p)' <=> Waits(p))
  BY <1>2, SamePosts DEF Local
<1>10. \A p \in Posts : ~Waits(p)
  BY <1>2, WaitFacts
<1>11. progress'.step \in {"acceptances", "review"} => save.at = "idle" /\ ~page.fetching
  BY <1>2, <1>5 DEF PageInv
<1>12. KeptStep
  BY <1>2, <1>3, <1>5, <1>7, <1>8, <1>9, <1>10, <1>11
     DEF KeptStep, Local, CalmInv, PageInv, ActiveInv
<1> QED
  BY <1>12, KeptStepKeeps

\* A flow of the dialog on screen has read the checkout again: the page shows it,
\* and the slice names the payment that it names, or none that is new.
LEMMA ReadIsKept ==
    ASSUME Inv, Kept, NothingLeftBehind, UNCHANGED <<serverVars, upsets>>,
           progress.checkoutId # NULL, Mounted,
           NEW r \in [view : {page.view, Snapshot(progress.checkoutId)}, gone : BOOLEAN],
           Get(r),
           page'.view = r.view, page'.route # "product", page'.shown = page.shown,
           page'.creating = page.creating, ~page'.lateCreate, ~page'.fetching,
           progress'.checkoutId = progress.checkoutId,
           \/ progress'.transactionId = progress.transactionId
           \/ r.view # NULL /\ r.view.active # NULL /\ progress'.transactionId = r.view.active,
           progress'.step \in {"acceptances", "review"} => save'.at = "idle",
           \A p \in Posts : SameSubmission(p) /\ ~Waits(p)'
    PROVE  Kept'
<1> USE DEF Inv, Kept
<1>1. /\ r.view = page.view \/ r.view = Snapshot(progress.checkoutId)
      /\ r.view # NULL =>
            /\ r.view.checkoutId = progress.checkoutId
            /\ r.view.active # NULL => r.view.active = draft[progress.checkoutId].active
  BY GetIsCalm
<1>2. Mounted'
  BY DEF Mounted
<1>3. ~page.creating
  BY DEF PageInv
<1>4. /\ progress'.transactionId # NULL =>
            progress'.transactionId = draft[progress.checkoutId].active
      /\ page'.shown # NULL => progress'.transactionId # NULL
  BY <1>1 DEF ActiveInv
<1>5. KeptStep
  BY <1>1, <1>2, <1>3, <1>4 DEF KeptStep
<1> QED
  BY <1>5, KeptStepKeeps

\* The hook reads the checkout, or the buyer asks for it once more.
LEMMA ReadsAreKept ==
    ASSUME Inv, Kept, NothingLeftBehind, UNCHANGED upsets, Fetch \/ ConsultSession
    PROVE  Kept'
<1> USE DEF Inv, Kept
<1>1. page \in Page /\ progress \in Progress
  BY DEF TypeOK
<1>2. /\ Mounted /\ progress.checkoutId # NULL /\ UNCHANGED <<serverVars, save, post>>
      /\ page.fetching \/ progress.step = "status"
  BY DEF Fetch, ConsultSession, Shows
<1>3. PICK r \in [view : {page.view, Snapshot(progress.checkoutId)}, gone : BOOLEAN] :
        /\ Get(r)
        /\ \/ page' = PageAfter(r) /\ progress' = ProgressAfter(r)
           \/ page.view # NULL /\ r.view.active # NULL /\ Adopts(r)
  BY DEF Fetch, ConsultSession, Shows
<1>4. /\ ProgressAfter(r) = progress /\ PageAfter(r) \in Page
      /\ PageAfter(r).view = r.view /\ ~PageAfter(r).fetching
      /\ PageAfter(r).route = page.route /\ PageAfter(r).shown = page.shown
      /\ PageAfter(r).creating = page.creating /\ ~PageAfter(r).lateCreate
      /\ r.view # NULL => r.view \in View
  BY <1>2, <1>3, GetIsCalm
<1>5. page.view # NULL => r.view # NULL
  BY <1>2, <1>3, GetFacts
<1>6. \A p \in Posts : SameSubmission(p) /\ (Waits(p)' <=> Waits(p))
  BY <1>2, SamePosts
<1>7. \A p \in Posts : ~Waits(p)
  BY <1>2, WaitFacts
<1>8. CASE page' = PageAfter(r) /\ progress' = ProgressAfter(r)
  <2>1. progress.step \in {"acceptances", "review"} => save.at = "idle"
    BY <1>2 DEF PageInv
  <2> QED
    BY <1>2, <1>3, <1>4, <1>6, <1>7, <1>8, <2>1, ReadIsKept DEF Mounted
<1>9. CASE page.view # NULL /\ r.view.active # NULL /\ Adopts(r)
  <2>1. r.view # NULL /\ r.view.active \in Payments
    BY <1>4, <1>5, <1>9 DEF View
  <2>2. progress' = TransactionAccepted(progress, r.view.active)
        /\ page' = [PageAfter(r) EXCEPT !.route = "status"]
    BY <1>4, <1>9 DEF Adopts
  <2>3. /\ progress'.checkoutId = progress.checkoutId /\ progress'.step = "status"
        /\ progress'.transactionId = r.view.active
    BY <1>1, <2>1, <2>2, SliceFacts
  <2>4. /\ page'.view = r.view /\ page'.route = "status" /\ page'.shown = page.shown
        /\ page'.creating = page.creating /\ ~page'.lateCreate /\ ~page'.fetching
    BY <1>4, <2>2 DEF Page
  <2> QED
    BY <1>2, <1>3, <1>6, <1>7, <1>9, <2>1, <2>3, <2>4, ReadIsKept
<1> QED
  BY <1>3, <1>8, <1>9

\* A save reads back what was applied.
LEMMA SaveRecoverIsKept ==
    ASSUME Inv, Kept, NothingLeftBehind, UNCHANGED upsets, SaveRecover
    PROVE  Kept'
<1> USE DEF Inv, Kept
<1>1. save.at = "recover" /\ save.checkoutId # NULL /\ UNCHANGED <<serverVars, post>>
  BY DEF SaveRecover, NamesInv
<1>2. \A p \in Posts : SameSubmission(p) /\ (Waits(p)' <=> Waits(p))
  BY <1>1, SamePosts
<1>3. \A p \in Posts : ~Waits(p)
  BY <1>1, WaitFacts
<1>4. CASE /\ CanRefetch(save)
           /\ \E r \in [view : {page.view, Snapshot(progress.checkoutId)}, gone : BOOLEAN] :
                 /\ Get(r)
                 /\ page' = PageAfter(r)
                 /\ progress' = ProgressAfter(r)
  <2>1. progress.checkoutId # NULL /\ Mounted
    BY <1>4 DEF CanRefetch, FlowInv
  <2>2. PICK r \in [view : {page.view, Snapshot(progress.checkoutId)}, gone : BOOLEAN] :
          Get(r) /\ page' = PageAfter(r) /\ progress' = ProgressAfter(r)
    BY <1>4, <2>1
  <2>3. /\ ProgressAfter(r) = progress
        /\ PageAfter(r).view = r.view /\ ~PageAfter(r).fetching
        /\ PageAfter(r).route = page.route /\ PageAfter(r).shown = page.shown
        /\ PageAfter(r).creating = page.creating /\ ~PageAfter(r).lateCreate
    BY <1>1, <2>1, <2>2, GetIsCalm
  <2>4. progress.step \notin {"acceptances", "review"}
    BY <1>1, <2>1 DEF PageInv
  <2> QED
    BY <1>1, <1>2, <1>3, <2>1, <2>2, <2>3, <2>4, ReadIsKept DEF Mounted
<1>5. CASE UNCHANGED <<page, progress>>
  <2>1. Mounted' <=> Mounted
    BY <1>5 DEF Mounted
  <2>2. ~(Mounted /\ progress.step \in {"acceptances", "review"})
    BY <1>1 DEF PageInv
  <2>3. KeptStep
    BY <1>1, <1>2, <1>3, <1>5, <2>1, <2>2 DEF KeptStep, CalmInv, PageInv, ActiveInv
  <2> QED
    BY <2>3, KeptStepKeeps
<1>6. \/ /\ CanRefetch(save)
         /\ \E r \in [view : {page.view, Snapshot(progress.checkoutId)}, gone : BOOLEAN] :
               /\ Get(r)
               /\ page' = PageAfter(r)
               /\ progress' = ProgressAfter(r)
      \/ UNCHANGED <<page, progress>>
  BY DEF SaveRecover
<1> HIDE DEF Inv, Kept
<1> QED
  BY <1>4, <1>5, <1>6

\* The last read of a save, which goes on to the acceptances.
LEMMA SaveFinalIsKept ==
    ASSUME Inv, Kept, NothingLeftBehind, UNCHANGED upsets, SaveFinal
    PROVE  Kept'
<1> USE DEF Inv, Kept
<1>1. /\ save.at = "final" /\ save.checkoutId # NULL /\ UNCHANGED <<serverVars, post>>
      /\ save'.at = "idle"
  BY NoSaveFacts DEF SaveFinal, NamesInv
<1>2. \A p \in Posts : SameSubmission(p) /\ (Waits(p)' <=> Waits(p))
  BY <1>1, SamePosts
<1>3. \A p \in Posts : ~Waits(p)
  BY <1>1, WaitFacts
<1>4. CASE /\ CanRefetch(save)
           /\ \E r \in [view : {page.view, Snapshot(progress.checkoutId)}, gone : BOOLEAN] :
                 /\ Get(r)
                 /\ page' = PageAfter(r)
                 /\ progress' = AtStep(ProgressAfter(r), "acceptances")
  <2>1. progress.checkoutId # NULL /\ Mounted
    BY <1>4 DEF CanRefetch, FlowInv
  <2>2. PICK r \in [view : {page.view, Snapshot(progress.checkoutId)}, gone : BOOLEAN] :
          Get(r) /\ page' = PageAfter(r) /\ progress' = AtStep(ProgressAfter(r), "acceptances")
    BY <1>4, <2>1
  <2>3. /\ ProgressAfter(r) = progress
        /\ PageAfter(r).view = r.view /\ ~PageAfter(r).fetching
        /\ PageAfter(r).route = page.route /\ PageAfter(r).shown = page.shown
        /\ PageAfter(r).creating = page.creating /\ ~PageAfter(r).lateCreate
    BY <1>1, <2>1, <2>2, GetIsCalm
  <2>4. /\ progress'.checkoutId = progress.checkoutId
        /\ progress'.transactionId = progress.transactionId
    BY <2>2, <2>3, SliceFacts DEF TypeOK, Steps
  <2> QED
    BY <1>1, <1>2, <1>3, <2>1, <2>2, <2>3, <2>4, ReadIsKept DEF Mounted
<1>5. CASE UNCHANGED <<page, progress>>
  <2>1. Mounted' <=> Mounted
    BY <1>5 DEF Mounted
  <2>2. ~(Mounted /\ progress.step \in {"acceptances", "review"})
    BY <1>1 DEF PageInv
  <2>3. KeptStep
    BY <1>1, <1>2, <1>3, <1>5, <2>1, <2>2 DEF KeptStep, CalmInv, PageInv, ActiveInv
  <2> QED
    BY <2>3, KeptStepKeeps
<1>6. \/ /\ CanRefetch(save)
         /\ \E r \in [view : {page.view, Snapshot(progress.checkoutId)}, gone : BOOLEAN] :
               /\ Get(r)
               /\ page' = PageAfter(r)
               /\ progress' = AtStep(ProgressAfter(r), "acceptances")
      \/ UNCHANGED <<page, progress>>
  BY DEF SaveFinal
<1> HIDE DEF Inv, Kept
<1> QED
  BY <1>4, <1>5, <1>6

\* Once a flow of the dialog on screen has been handled, no submission waits.
LEMMA HandledIsQuiet ==
    ASSUME Inv, Kept, NEW p \in Posts, post[p].own,
           NEW at \in {"refetch", "reconfigure", "recover", "done"}, Handled(p, at)
    PROVE  \A q \in Posts : SameSubmission(q) /\ ~Waits(q)'
<1> SUFFICES ASSUME NEW q \in Posts, Waits(q)'
             PROVE  FALSE
  BY DEF Handled
<1>1. q # p
  BY DEF Handled, Waits
<1>2. Waits(q)
  BY <1>1 DEF Handled, Waits
<1> QED
  BY <1>1, <1>2, WaitFacts

\* The submission was accepted: its payment is the one the row names.
LEMMA PostAcceptedIsKept ==
    ASSUME Inv, Kept, NothingLeftBehind, UNCHANGED upsets, NEW p \in Posts, PostAccepted(p)
    PROVE  Kept'
<1> USE DEF Inv, Kept
<1> DEFINE t == post[p].reply
<1>1. page \in Page /\ progress \in Progress
  BY DEF TypeOK
<1>2. /\ t \in Posts /\ t \in Payments /\ Waits(p) /\ Started(p)
      /\ UNCHANGED <<serverVars, save>> /\ post' = Reply(p, "done")
  BY DEF PostAccepted, Payments, Started, Waits
<1>3. /\ Mounted /\ progress.checkoutId # NULL /\ progress.checkoutId = post[p].checkoutId
      /\ post[p].own /\ ~page.creating /\ ~page.fetching
  BY <1>2, WaitFacts
<1>4. t = draft[progress.checkoutId].active /\ t # NULL
  BY <1>2, <1>3, NullAssumption DEF ReplyInv, AcceptedAsReviewed
<1>5. \A q \in Posts : SameSubmission(q) /\ ~Waits(q)'
  BY <1>2, <1>3, ReplyFacts, HandledIsQuiet
<1>6. progress' = TransactionAccepted(progress, t)
      /\ page' = [AfterAnswer(p) EXCEPT !.route = "status"]
  BY <1>3 DEF PostAccepted, ShowAccepted
<1> HIDE DEF t
<1>7. /\ progress'.checkoutId = progress.checkoutId
      /\ progress'.transactionId = t /\ progress'.step = "status"
  BY <1>1, <1>2, <1>6, SliceFacts
<1>8. /\ page'.route = "status" /\ page'.view = page.view /\ page'.shown = page.shown
      /\ page'.creating = page.creating /\ page'.lateCreate = page.lateCreate
  BY <1>6, AfterAnswerFacts DEF Page
<1>9. Mounted'
  BY <1>8 DEF Mounted
<1>10. KeptStep
  BY <1>2, <1>3, <1>4, <1>5, <1>7, <1>8, <1>9 DEF KeptStep, CalmInv, PageInv
<1> QED
  BY <1>10, KeptStepKeeps

\* The submission was refused, or no answer came: the dialog stays.
LEMMA UnansweredIsKept ==
    ASSUME Inv, Kept, NothingLeftBehind, UNCHANGED upsets, NEW p \in Posts,
           PostRefused(p) \/ PostLost(p)
    PROVE  Kept'
<1> USE DEF Inv, Kept
<1>1. /\ Waits(p) /\ Started(p) /\ UNCHANGED serverVars
  BY DEF PostRefused, PostLost, Waits, Started
<1>2. /\ Mounted /\ progress.checkoutId # NULL /\ post[p].own /\ ~page.creating /\ ~page.fetching
      /\ save.at = "idle"
  BY <1>1, WaitFacts
<1>3. post[p].reply \notin {"410", "QUOTE_STALE", "OUT_OF_STOCK"}
  BY DEF CalmInv
<1>4. UNCHANGED <<progress, save>> /\ page' = AfterAnswer(p)
  BY <1>3 DEF PostRefused, PostLost
<1>5. \E at \in {"refetch", "reconfigure", "recover"} : Handled(p, at)
  <2>1. CASE PostLost(p)
    BY <1>1, <2>1, LostFacts DEF PostLost
  <2>2. CASE PostRefused(p)
    <3>1. \E at \in {"refetch", "reconfigure", "recover"} : post' = Reply(p, at)
      BY <1>3, <2>2 DEF PostRefused
    <3>2. PICK at \in {"refetch", "reconfigure", "recover"} : post' = Reply(p, at)
      BY <3>1
    <3>3. Handled(p, at)
      BY <1>1, <3>2, ReplyFacts
    <3> QED
      BY <3>3
  <2> QED
    BY <2>1, <2>2
<1>6. \A q \in Posts : SameSubmission(q) /\ ~Waits(q)'
  BY <1>2, <1>5, HandledIsQuiet
<1>7. /\ page'.route = page.route /\ page'.view = page.view /\ page'.shown = page.shown
      /\ page'.creating = page.creating /\ page'.lateCreate = page.lateCreate
      /\ page'.fetching = page.fetching
  BY <1>4, AfterAnswerFacts
<1>8. Mounted'
  BY <1>2, <1>7 DEF Mounted
<1>9. KeptStep
  BY <1>1, <1>2, <1>4, <1>6, <1>7, <1>8 DEF KeptStep, CalmInv, PageInv, ActiveInv
<1> QED
  BY <1>9, KeptStepKeeps

\* A flow that cannot refetch ends, and changes nothing else.
LEMMA FlowEndIsKept ==
    ASSUME Inv, Kept, UNCHANGED <<serverVars, page, progress, save, upsets>>,
           NEW p \in Posts, ~Waits(p), Handled(p, "done")
    PROVE  Kept'
<1> USE DEF Inv, Kept
<1>1. (Mounted' <=> Mounted) /\ (AdoptDue' <=> AdoptDue)
  BY DEF Mounted, AdoptDue
<1>2. ASSUME NEW q \in Posts, Waits(q)'
      PROVE  /\ Waits(q) /\ post'[q].own
             /\ progress'.step = "review" /\ page'.token = "sent" /\ ~page'.error /\ ~AdoptDue'
  <2>1. q # p /\ post'[q] = post[q]
    BY <1>2 DEF Handled, Waits
  <2>2. Waits(q)
    BY <1>2, <2>1 DEF Waits
  <2> QED
    BY <1>1, <2>1, <2>2, WaitFacts
<1>3. KeptStep
  BY <1>1, <1>2 DEF Handled, KeptStep, CalmInv, PageInv, ActiveInv
<1> QED
  BY <1>3, KeptStepKeeps

\* The 412 branch reads the checkout again, and goes back to the card.
LEMMA PostRefetchIsKept ==
    ASSUME Inv, Kept, NothingLeftBehind, UNCHANGED upsets, NEW p \in Posts, PostRefetch(p)
    PROVE  Kept'
<1> USE DEF Inv, Kept
<1>1. page \in Page /\ progress \in Progress
  BY DEF TypeOK
<1>2. /\ Started(p) /\ ~Waits(p) /\ UNCHANGED <<serverVars, save>>
      /\ post' = Reply(p, "done")
  BY DEF PostRefetch, Started, Waits
<1>3. Handled(p, "done")
  BY <1>2, ReplyFacts
<1>4. CASE /\ CanRefetch(post[p])
           /\ \E r \in [view : {page.view, Snapshot(progress.checkoutId)}, gone : BOOLEAN] :
                 /\ Get(r)
                 /\ page' = PageAfter(r)
                 /\ progress' = AtStep(ProgressAfter(r), "payment")
  <2>1. post[p].own /\ progress.checkoutId # NULL /\ Mounted
    BY <1>4 DEF CanRefetch, FlowInv
  <2>2. PICK r \in [view : {page.view, Snapshot(progress.checkoutId)}, gone : BOOLEAN] :
          Get(r) /\ page' = PageAfter(r) /\ progress' = AtStep(ProgressAfter(r), "payment")
    BY <1>4, <2>1
  <2>3. /\ ProgressAfter(r) = progress
        /\ PageAfter(r).view = r.view /\ ~PageAfter(r).fetching
        /\ PageAfter(r).route = page.route /\ PageAfter(r).shown = page.shown
        /\ PageAfter(r).creating = page.creating /\ ~PageAfter(r).lateCreate
    BY <2>1, <2>2, GetIsCalm
  <2>4. /\ progress'.checkoutId = progress.checkoutId /\ progress'.step = "payment"
        /\ progress'.transactionId = progress.transactionId
    BY <1>1, <2>2, <2>3, SliceFacts DEF Steps
  <2>5. \A q \in Posts : SameSubmission(q) /\ ~Waits(q)'
    BY <1>3, <2>1, HandledIsQuiet
  <2> QED
    BY <1>2, <2>1, <2>2, <2>3, <2>4, <2>5, ReadIsKept DEF Mounted
<1>5. CASE post[p].own /\ progress' = AtStep(progress, "payment") /\ UNCHANGED <<page, faults>>
  <2>1. /\ progress'.checkoutId = progress.checkoutId /\ progress'.step = "payment"
        /\ progress'.transactionId = progress.transactionId
    BY <1>1, <1>5, SliceFacts DEF Steps
  <2>2. \A q \in Posts : SameSubmission(q) /\ ~Waits(q)'
    BY <1>3, <1>5, HandledIsQuiet
  <2>3. Mounted' <=> Mounted
    BY <1>5 DEF Mounted
  <2>4. KeptStep
    BY <1>2, <1>5, <2>1, <2>2, <2>3 DEF KeptStep, CalmInv, PageInv, ActiveInv
  <2> QED
    BY <2>4, KeptStepKeeps
<1>6. CASE UNCHANGED <<page, progress, faults>>
  BY <1>2, <1>3, <1>6, FlowEndIsKept
<1> QED
  BY <1>4, <1>5, <1>6 DEF PostRefetch

\* Without an answer, what the checkout names is adopted.
LEMMA PostRecoverIsKept ==
    ASSUME Inv, Kept, NothingLeftBehind, UNCHANGED upsets, NEW p \in Posts, PostRecover(p)
    PROVE  Kept'
<1> USE DEF Inv, Kept
<1>1. page \in Page /\ progress \in Progress
  BY DEF TypeOK
<1>2. /\ Started(p) /\ ~Waits(p) /\ UNCHANGED <<serverVars, save>>
      /\ post' = Reply(p, "done")
  BY DEF PostRecover, Started, Waits
<1>3. Handled(p, "done")
  BY <1>2, ReplyFacts
<1>4. CASE /\ CanRefetch(post[p])
           /\ \E r \in [view : {page.view, Snapshot(progress.checkoutId)}, gone : BOOLEAN] :
                 /\ Get(r)
                 /\ \/ r.view.active # NULL /\ Adopts(r)
                    \/ /\ r.view.active = NULL
                       /\ progress' = AtStep(ProgressAfter(r), "status")
                       /\ page' = [PageAfter(r) EXCEPT !.uncertain = TRUE]
  <2>1. /\ post[p].own /\ progress.checkoutId # NULL
        /\ Mounted /\ page.view # NULL
    BY <1>4 DEF CanRefetch, FlowInv
  <2>2. PICK r \in [view : {page.view, Snapshot(progress.checkoutId)}, gone : BOOLEAN] :
          /\ Get(r)
          /\ \/ r.view.active # NULL /\ Adopts(r)
             \/ /\ progress' = AtStep(ProgressAfter(r), "status")
                /\ page' = [PageAfter(r) EXCEPT !.uncertain = TRUE]
    BY <1>4, <2>1
  <2>3. /\ ProgressAfter(r) = progress /\ PageAfter(r) \in Page
        /\ PageAfter(r).view = r.view /\ ~PageAfter(r).fetching
        /\ PageAfter(r).route = page.route /\ PageAfter(r).shown = page.shown
        /\ PageAfter(r).creating = page.creating /\ ~PageAfter(r).lateCreate
    BY <2>1, <2>2, GetIsCalm
  <2>4. r.view \in View /\ r.view # NULL
    BY <2>1, <2>2, RefetchFacts
  <2>5. \A q \in Posts : SameSubmission(q) /\ ~Waits(q)'
    BY <1>3, <2>1, HandledIsQuiet
  <2>6. CASE r.view.active # NULL /\ Adopts(r)
    <3>1. r.view.active \in Payments
      BY <2>4, <2>6 DEF View
    <3>2. progress' = TransactionAccepted(progress, r.view.active)
          /\ page' = [PageAfter(r) EXCEPT !.route = "status"]
      BY <2>3, <2>6 DEF Adopts
    <3>3. /\ progress'.checkoutId = progress.checkoutId /\ progress'.step = "status"
          /\ progress'.transactionId = r.view.active
      BY <1>1, <3>1, <3>2, SliceFacts
    <3>4. /\ page'.view = r.view /\ page'.route = "status" /\ page'.shown = page.shown
          /\ page'.creating = page.creating /\ ~page'.lateCreate /\ ~page'.fetching
      BY <2>3, <3>2 DEF Page
    <3> QED
      BY <1>2, <2>1, <2>2, <2>4, <2>5, <2>6, <3>3, <3>4, ReadIsKept
  <2>7. CASE /\ progress' = AtStep(ProgressAfter(r), "status")
             /\ page' = [PageAfter(r) EXCEPT !.uncertain = TRUE]
    <3>1. /\ progress'.checkoutId = progress.checkoutId /\ progress'.step = "status"
          /\ progress'.transactionId = progress.transactionId
      BY <1>1, <2>3, <2>7, SliceFacts DEF Steps
    <3>2. /\ page'.view = r.view /\ page'.route = page.route /\ page'.shown = page.shown
          /\ page'.creating = page.creating /\ ~page'.lateCreate /\ ~page'.fetching
      BY <2>3, <2>7 DEF Page
    <3> QED
      BY <1>2, <2>1, <2>2, <2>5, <3>1, <3>2, ReadIsKept DEF Mounted
  <2> QED
    BY <2>2, <2>6, <2>7
<1>5. CASE UNCHANGED <<page, progress, faults>>
  BY <1>2, <1>3, <1>5, FlowEndIsKept
<1> QED
  BY <1>4, <1>5 DEF PostRecover

\* Steps that write the rows and leave the slice, and the page but for its reading.
KeptGrowth ==
    /\ RowsGrow /\ PostsAnswered /\ progress' = progress
    /\ \A c \in Checkouts : Exists(c)' => ~draft'[c].expired /\ ~draft'[c].lapsed
    /\ \A p \in Posts : post'[p].reply \notin {"410", "QUOTE_STALE", "OUT_OF_STOCK"}
    /\ \A p \in Posts : payment'[p] = "PENDING" =>
          payment[p] = "PENDING" \/ (post[p].net /\ draft[post[p].checkoutId].active = NULL)
    /\ \A p \in Payments : payment[p] = "SETTLED" => payment'[p] = "SETTLED"
    /\ page'.view = page.view /\ page'.route = page.route /\ page'.token = page.token
    /\ page'.error = page.error /\ page'.creating = page.creating /\ page'.shown = page.shown
    /\ page'.lateCreate = page.lateCreate
    /\ Mounted /\ progress.step \in {"acceptances", "review"} =>
          save'.at = "idle" /\ ~page'.fetching

\* Such a step keeps what holds where nothing is left behind.
LEMMA KeptGrowthKeeps ==
    ASSUME Inv, Kept, KeptGrowth
    PROVE  Kept'
<1> USE DEF Inv, Kept
<1>1. (Mounted' <=> Mounted) /\ (AdoptDue' <=> AdoptDue)
  BY DEF KeptGrowth, Mounted, AdoptDue
<1>2. \A p \in Posts :
        /\ Started(p)' <=> Started(p)
        /\ Waits(p)' <=> Waits(p)
        /\ post'[p].own = post[p].own /\ post'[p].checkoutId = post[p].checkoutId
        /\ post'[p].quote = post[p].quote /\ (post'[p].net => post[p].net)
  BY DEF KeptGrowth, PostsAnswered, Started, Waits
<1>3. CalmInv'
  BY DEF KeptGrowth, CalmInv, Exists
<1>4. PageInv'
  BY <1>1, <1>2 DEF KeptGrowth, PageInv
<1>5. WaitingInv'
  BY <1>1, <1>2 DEF KeptGrowth, WaitingInv
<1>6. ActiveInv'
  <2>1. \A c \in Checkouts : Exists(c) /\ draft[c].active # NULL => draft'[c].active = draft[c].active
    BY DEF KeptGrowth, RowsGrow
  <2>2. page.view # NULL /\ page.view.active # NULL =>
          page.view.active = draft'[page.view.checkoutId].active
    BY <2>1 DEF ActiveInv, TypeOK, NamesInv, Page, View
  <2>3. progress.transactionId # NULL =>
          /\ progress.transactionId = draft'[progress.checkoutId].active
          /\ progress.transactionId \in Payments
    <3> SUFFICES ASSUME progress.transactionId # NULL
                 PROVE  /\ progress.transactionId = draft'[progress.checkoutId].active
                        /\ progress.transactionId \in Payments
      OBVIOUS
    <3>1. progress \in Progress
      BY DEF TypeOK
    <3>2. progress.checkoutId # NULL
      BY DEF PageInv
    <3>3. progress.checkoutId \in Checkouts /\ Exists(progress.checkoutId)
      BY <3>1, <3>2 DEF NamesInv, Progress
    <3>4. progress.transactionId = draft[progress.checkoutId].active
      BY DEF ActiveInv
    <3> QED
      BY <2>1, <3>1, <3>3, <3>4 DEF Progress
  <2>4. page.shown = "SETTLED" => payment'[progress.transactionId] = "SETTLED"
    <3> SUFFICES ASSUME page.shown = "SETTLED"
                 PROVE  payment'[progress.transactionId] = "SETTLED"
      OBVIOUS
    <3>1. progress.transactionId # NULL /\ payment[progress.transactionId] = "SETTLED"
      BY NullAssumption DEF ActiveInv, PaymentState
    <3> QED
      BY <2>3, <3>1 DEF KeptGrowth
  <2> QED
    BY <2>2, <2>3, <2>4 DEF KeptGrowth, ActiveInv
<1>7. ReachInv'
  <2> SUFFICES ASSUME NEW p \in Posts,
                      payment'[p] = "PENDING"
                        \/ (post'[p].net /\ draft'[post'[p].checkoutId].active = NULL)
               PROVE  progress'.checkoutId = post'[p].checkoutId
    BY DEF ReachInv
  <2>1. payment[p] = "PENDING" \/ (post[p].net /\ draft[post[p].checkoutId].active = NULL)
    <3>1. CASE payment'[p] = "PENDING"
      BY <3>1 DEF KeptGrowth
    <3>2. CASE post'[p].net /\ draft'[post'[p].checkoutId].active = NULL
      <4>1. post[p].net /\ Started(p) /\ post[p].checkoutId \in Checkouts
            /\ Exists(post[p].checkoutId)
        BY <1>2, <3>2 DEF NamesInv, TypeOK, Submission
      <4>2. draft'[post[p].checkoutId].active = NULL
        BY <1>2, <3>2
      <4> QED
        BY <4>1, <4>2 DEF KeptGrowth, RowsGrow
    <3> QED
      BY <3>1, <3>2
  <2> QED
    BY <1>2, <2>1 DEF KeptGrowth, ReachInv
<1> QED
  BY <1>3, <1>4, <1>5, <1>6, <1>7

\* The API handles a submission, and refuses none for reasons of its own.
LEMMA HandlePostIsKept ==
    ASSUME Inv, Kept, NothingLeftBehind, NEW p \in Posts, HandlePost(p)
    PROVE  Kept'
<1> USE DEF Inv, Kept
<1> DEFINE c == post[p].checkoutId
<1>1. post[p].net /\ UNCHANGED <<progress, page, save, faults>>
  BY DEF HandlePost
<1>2. /\ payment[p] = "NONE" /\ Started(p) /\ c \in Checkouts /\ Exists(c) /\ p \in Payments
      /\ post[p].quote = c /\ draft[c] \in Draft
  BY <1>1 DEF TypeOK, NamesInv, Submission, Payments, PageInv, Exists
<1>3. ~draft[c].expired /\ ~draft[c].lapsed /\ Readable(c)
  BY <1>2 DEF CalmInv, Readable
<1>4. post \in [Posts -> Submission] /\ payment \in [Payments -> PaymentState]
      /\ draft \in [Checkouts -> Draft \cup {NULL}]
  BY DEF TypeOK
<1>5. Mounted /\ progress.step \in {"acceptances", "review"} => save.at = "idle" /\ ~page.fetching
  BY DEF PageInv
<1>6. ASSUME NEW said \in Posts \cup Codes,
             post' = [post EXCEPT ![p].net = FALSE, ![p].reply = Answer(p, said)],
             said \notin {"410", "QUOTE_STALE", "OUT_OF_STOCK"}
      PROVE  \A q \in Posts : post'[q].reply \notin {"410", "QUOTE_STALE", "OUT_OF_STOCK"}
  <2> DEFINE reply == Answer(p, said)
             s == [post[p] EXCEPT !.net = FALSE, !.reply = reply]
  <2>1. reply \in {said, NULL}
    BY DEF Answer
  <2>2. reply \notin {"410", "QUOTE_STALE", "OUT_OF_STOCK"}
    BY <1>6, <2>1, NullAssumption DEF Codes
  <2>3. post' = [post EXCEPT ![p] = s]
    BY <1>4, <1>6
  <2> HIDE DEF reply
  <2>4. post[p] \in Submission
    BY <1>4
  <2>5. s.reply = reply
    BY <2>4 DEF Submission
  <2> HIDE DEF s
  <2>6. post'[p] = s /\ \A q \in Posts \ {p} : post'[q] = post[q]
    BY <1>4, <2>3
  <2> QED
    BY <2>2, <2>5, <2>6 DEF CalmInv
<1>7. CASE /\ Accepts(p)
           /\ draft' = [draft EXCEPT ![c] = Paying(draft[c], p)]
           /\ payment' = [payment EXCEPT ![p] = "PENDING"]
           /\ post' = [post EXCEPT ![p].net = FALSE, ![p].reply = Answer(p, p)]
  <2>1. draft[c].active = NULL /\ post[p].quote = c /\ draft[c].version = post[p].version
    BY <1>7 DEF Accepts
  <2>2. Reviewed(draft[c]) = post[p].seen
    BY <1>2, <2>1 DEF ContentInv
  <2>3. /\ RowsGrow /\ payment'[p] = "PENDING"
        /\ \A q \in Payments \ {p} : payment'[q] = payment[q]
    BY <1>2, <1>7, <2>1, <2>2, PayingFacts
  <2>4. PostsAnswered
    BY <1>1, <1>7, <2>3, AnswerFacts DEF Payments
  <2>5. \A q \in Posts : post'[q].reply \notin {"410", "QUOTE_STALE", "OUT_OF_STOCK"}
    BY <1>6, <1>7, NullAssumption DEF Codes
  <2>6. \A k \in Checkouts : Exists(k)' => ~draft'[k].expired /\ ~draft'[k].lapsed
    <3> DEFINE d == Paying(draft[c], p)
    <3>1. ~d.expired /\ ~d.lapsed
      BY <1>2, <1>3 DEF Paying, Draft
    <3> HIDE DEF d
    <3>2. draft'[c] = d /\ \A k \in Checkouts \ {c} : draft'[k] = draft[k]
      BY <1>2, <1>4, <1>7 DEF d
    <3> QED
      BY <3>1, <3>2 DEF CalmInv, Exists
  <2>7. \A q \in Posts : payment'[q] = "PENDING" =>
          payment[q] = "PENDING" \/ (post[q].net /\ draft[post[q].checkoutId].active = NULL)
    BY <1>1, <2>1, <2>3 DEF Payments
  <2>8. \A q \in Payments : payment[q] = "SETTLED" => payment'[q] = "SETTLED"
    BY <1>2, <2>3
  <2>9. KeptGrowth
    BY <1>1, <1>5, <2>3, <2>4, <2>5, <2>6, <2>7, <2>8 DEF KeptGrowth
  <2> QED
    BY <2>9, KeptGrowthKeeps
<1>8. CASE /\ \/ \E q \in Replayed(p) :
                    /\ SameCommand(p, q)
                    /\ post' = [post EXCEPT ![p].net = FALSE, ![p].reply = Answer(p, q)]
              \/ \E code \in Codes :
                    /\ Refusal(p, code)
                    /\ post' = [post EXCEPT ![p].net = FALSE, ![p].reply = Answer(p, code)]
           /\ UNCHANGED serverVars
  <2>1. draft' = draft /\ payment' = payment
    BY <1>8 DEF serverVars
  <2>2. PICK said \in Posts \cup Codes :
          /\ post' = [post EXCEPT ![p].net = FALSE, ![p].reply = Answer(p, said)]
          /\ \/ said \in Replayed(p) /\ SameCommand(p, said)
             \/ said \in Codes /\ Refusal(p, said)
    BY <1>8 DEF Replayed
  <2>3. said \notin {"410", "QUOTE_STALE", "OUT_OF_STOCK"}
    <3>1. CASE said \in Replayed(p)
      BY <3>1, NullAssumption DEF Replayed, Codes
    <3>2. CASE Refusal(p, said)
      <4>1. StockUpset = {}
        BY DEF StockUpset, NothingLeftBehind
      <4>2. said \in {"409", "422", "412"}
        BY <1>2, <1>3, <3>2, <4>1 DEF Refusal
      <4> QED
        BY <4>2
    <3> QED
      BY <2>2, <3>1, <3>2
  <2>4. said \in Posts => /\ payment'[said] # "NONE"
                          /\ post[said].checkoutId = post[p].checkoutId
                          /\ post[said].seen = post[p].seen
    <3> SUFFICES ASSUME said \in Posts
                 PROVE  /\ payment'[said] # "NONE"
                        /\ post[said].checkoutId = post[p].checkoutId
                        /\ post[said].seen = post[p].seen
      OBVIOUS
    <3>1. said \in Replayed(p) /\ SameCommand(p, said)
      BY <2>2, NullAssumption
    <3>2. payment[said] # "NONE" /\ post[said].checkoutId = c
      BY <3>1 DEF Replayed
    <3>3. post[said].seen = post[p].seen
      BY <1>2, <3>1, <3>2 DEF NamesInv, ContentInv
    <3> QED
      BY <2>1, <3>2, <3>3
  <2>5. PostsAnswered
    BY <1>1, <2>1, <2>2, <2>4, AnswerFacts
  <2>6. RowsGrow
    BY <2>1, RowsStay
  <2>7. \A q \in Posts : post'[q].reply \notin {"410", "QUOTE_STALE", "OUT_OF_STOCK"}
    BY <1>6, <2>2, <2>3
  <2>8. KeptGrowth
    BY <1>1, <1>5, <2>1, <2>5, <2>6, <2>7 DEF KeptGrowth, CalmInv, Exists
  <2> QED
    BY <2>8, KeptGrowthKeeps
<1> QED
  BY <1>7, <1>8 DEF HandlePost

\* The provider decides a payment.
LEMMA DecidePaymentIsKept ==
    ASSUME Inv, Kept, NEW p \in Payments, DecidePayment(p)
    PROVE  Kept'
<1> USE DEF Inv, Kept
<1>1. payment[p] = "PENDING" /\ UNCHANGED <<draft, progress, page, save, post, faults>>
  BY DEF DecidePayment
<1>2. PICK outcome \in {"SETTLED", "CONFLICT"} : payment' = [payment EXCEPT ![p] = outcome]
  BY DEF DecidePayment
<1>3. payment \in [Payments -> PaymentState]
  BY DEF TypeOK
<1>4. /\ \A q \in Payments \ {p} : payment'[q] = payment[q]
      /\ payment'[p] \notin {"NONE", "PENDING"}
  BY <1>2, <1>3
<1>5. RowsGrow
  BY <1>1, RowsStay
<1>6. PostsAnswered
  BY <1>1, <1>4, PostsStay DEF Payments
<1>7. /\ \A q \in Posts : payment'[q] = "PENDING" => payment[q] = "PENDING"
      /\ \A q \in Payments : payment[q] = "SETTLED" => payment'[q] = "SETTLED"
  BY <1>1, <1>4 DEF Payments
<1>8. KeptGrowth
  BY <1>1, <1>5, <1>6, <1>7 DEF KeptGrowth, CalmInv, PageInv, Exists
<1> QED
  BY <1>8, KeptGrowthKeeps

\* An edit neither expires a checkout nor lets its quote lapse.
LEMMA EditedIsCalm ==
    ASSUME Inv, Kept, NEW c \in Checkouts, Exists(c),
           NEW part \in {"customer", "deliveryDetails"}, NEW value,
           draft' = Edited(c, part, value)
    PROVE  \A k \in Checkouts : Exists(k)' => ~draft'[k].expired /\ ~draft'[k].lapsed
<1> DEFINE d == [draft[c] EXCEPT ![part] = value, !.version = draft[c].version + 1]
<1>1. draft \in [Checkouts -> Draft \cup {NULL}] /\ draft[c] \in Draft
  BY DEF Inv, TypeOK, Exists
<1>2. ~d.expired /\ ~d.lapsed
  BY <1>1 DEF Draft, Kept, CalmInv
<1>3. draft' = [draft EXCEPT ![c] = d]
  BY DEF Edited
<1> HIDE DEF d
<1>4. draft'[c] = d /\ \A k \in Checkouts \ {c} : draft'[k] = draft[k]
  BY <1>1, <1>3
<1> QED
  BY <1>2, <1>4 DEF Kept, CalmInv, Exists

\* Another tab edits.
LEMMA OtherTabEditsIsKept ==
    ASSUME Inv, Kept, NEW c \in Checkouts, NEW part \in {"customer", "deliveryDetails"},
           OtherTabEdits(c, part)
    PROVE  Kept'
<1> USE DEF Inv, Kept
<1>1. /\ Exists(c) /\ Puts(c, draft[c].version) /\ draft' = Edited(c, part, "theirs")
      /\ UNCHANGED <<payment, progress, page, save, post, faults>>
  BY DEF OtherTabEdits
<1>2. RowsGrow
  BY <1>1, EditedFacts
<1>3. PostsAnswered
  BY <1>1, PostsStay
<1>4. \A k \in Checkouts : Exists(k)' => ~draft'[k].expired /\ ~draft'[k].lapsed
  BY <1>1, EditedIsCalm
<1>5. KeptGrowth
  BY <1>1, <1>2, <1>3, <1>4 DEF KeptGrowth, CalmInv, PageInv
<1> QED
  BY <1>5, KeptGrowthKeeps

\* Another tab pays.
LEMMA OtherTabPaysIsKept ==
    ASSUME Inv, Kept, NEW c \in Checkouts, NEW o \in OtherPosts, OtherTabPays(c, o)
    PROVE  Kept'
<1> USE DEF Inv, Kept
<1>1. /\ Exists(c) /\ payment[o] = "NONE" /\ draft[c].active = NULL
      /\ draft' = [draft EXCEPT ![c] = Paying(draft[c], o)]
      /\ payment' = [payment EXCEPT ![o] = "PENDING"]
      /\ UNCHANGED <<progress, page, save, post, faults>>
  BY DEF OtherTabPays
<1>2. o \in Payments /\ o \notin Posts
  BY PostsAssumption DEF Payments
<1>3. /\ RowsGrow
      /\ \A q \in Payments \ {o} : payment'[q] = payment[q]
  BY <1>1, <1>2, PayingFacts
<1>4. PostsAnswered
  BY <1>1, <1>2, <1>3, PostsStay DEF Payments
<1>5. draft \in [Checkouts -> Draft \cup {NULL}] /\ draft[c] \in Draft
  BY <1>1 DEF TypeOK, Exists
<1>6. \A k \in Checkouts : Exists(k)' => ~draft'[k].expired /\ ~draft'[k].lapsed
  <2> DEFINE d == Paying(draft[c], o)
  <2>1. ~d.expired /\ ~d.lapsed
    BY <1>1, <1>5 DEF Paying, Draft, CalmInv
  <2> HIDE DEF d
  <2>2. draft'[c] = d /\ \A k \in Checkouts \ {c} : draft'[k] = draft[k]
    BY <1>1, <1>5 DEF d
  <2> QED
    BY <2>1, <2>2 DEF CalmInv, Exists
<1>7. /\ \A q \in Posts : payment'[q] = payment[q]
      /\ \A q \in Payments : payment[q] = "SETTLED" => payment'[q] = "SETTLED"
  BY <1>1, <1>2, <1>3 DEF Payments
<1>8. KeptGrowth
  BY <1>1, <1>3, <1>4, <1>6, <1>7 DEF KeptGrowth, CalmInv, PageInv
<1> QED
  BY <1>8, KeptGrowthKeeps

\* The tab saves a part, or fails to.
LEMMA SavePutIsKept ==
    ASSUME Inv, Kept, SavePut
    PROVE  Kept'
<1> USE DEF Inv, Kept
<1> DEFINE c == save.checkoutId
           f == page.fetching \/ (Mounted /\ progress.checkoutId = save.checkoutId)
<1>1. /\ save.at = "put" /\ UNCHANGED <<payment, progress, post>>
      /\ page' = [page EXCEPT !.fetching = f]
  BY DEF SavePut
<1>2. page \in Page /\ f \in BOOLEAN
  BY DEF TypeOK, Page
<1>3. c \in Checkouts /\ Exists(c) /\ save.part \in {"customer", "deliveryDetails"}
  BY <1>1 DEF NamesInv, TypeOK, Saving
<1> HIDE DEF f
<1>4. /\ page'.view = page.view /\ page'.route = page.route /\ page'.token = page.token
      /\ page'.error = page.error /\ page'.creating = page.creating /\ page'.shown = page.shown
      /\ page'.lateCreate = page.lateCreate
  BY <1>1, <1>2 DEF Page
<1>5. ~(Mounted /\ progress.step \in {"acceptances", "review"})
  BY <1>1 DEF PageInv
<1>6. PostsAnswered
  BY <1>1, PostsStay
<1>7. RowsGrow /\ \A k \in Checkouts : Exists(k)' => ~draft'[k].expired /\ ~draft'[k].lapsed
  <2>1. CASE Puts(c, save.version) /\ draft' = Edited(c, save.part, "mine")
    BY <1>3, <2>1, EditedFacts, EditedIsCalm
  <2>2. CASE UNCHANGED draft
    BY <2>2, RowsStay DEF CalmInv, Exists
  <2> QED
    BY <2>1, <2>2 DEF SavePut
<1>8. KeptGrowth
  BY <1>1, <1>4, <1>5, <1>6, <1>7 DEF KeptGrowth, CalmInv
<1> QED
  BY <1>8, KeptGrowthKeeps

\* The buyer pays for the checkout of the slice, which the page shows.
LEMMA StartPaymentIsKept ==
    ASSUME Inv, Kept, ~AdoptDue, NEW p \in Posts, StartPayment(p)
    PROVE  Kept'
<1> USE DEF Inv, Kept
<1> DEFINE v == page.view
           sent == Reviewed(v)
           k == progress.key
           c == progress.checkoutId
           t == page.token
           s == [NoPost EXCEPT !.at = "awaiting", !.own = TRUE, !.net = TRUE,
                               !.checkoutId = c, !.key = k, !.quote = v.checkoutId,
                               !.version = v.version, !.token = t, !.seen = sent]
<1>1. page \in Page /\ progress \in Progress /\ post \in [Posts -> Submission]
  BY DEF TypeOK
<1>2. /\ Mounted /\ v # NULL /\ c # NULL /\ ~page.error /\ progress.step = "review"
      /\ ~Started(p) /\ ~Submitting /\ UNCHANGED <<serverVars, progress, save>>
  BY DEF StartPayment, ShowsReview, Shows, HasPrerequisites, Started
<1>3. v.checkoutId = c
  BY <1>2 DEF PageInv
<1>4. post' = [post EXCEPT ![p] = s]
  BY DEF StartPayment
<1>5. page' = [page EXCEPT !.token = "sent", !.uncertain = FALSE]
  BY DEF StartPayment
<1> HIDE DEF v, sent, k, t
<1>6. /\ s.at = "awaiting" /\ s.own /\ s.checkoutId = c /\ s.quote = v.checkoutId
      /\ s.reply = NULL
  BY DEF NoPost
<1> HIDE DEF s
<1>7. post'[p] = s /\ \A q \in Posts \ {p} : post'[q] = post[q]
  BY <1>1, <1>4
<1>8. /\ page'.view = page.view /\ page'.token = "sent" /\ page'.route = page.route
      /\ page'.error = page.error /\ page'.shown = page.shown /\ page'.creating = page.creating
      /\ page'.fetching = page.fetching /\ page'.lateCreate = page.lateCreate
  BY <1>1, <1>5 DEF Page
<1>9. (Mounted' <=> Mounted) /\ ~AdoptDue'
  BY <1>2, <1>8 DEF Mounted, AdoptDue
<1>10. payment[p] = "NONE" /\ draft' = draft /\ payment' = payment
  BY <1>2 DEF NamesInv, serverVars
<1>11. \A q \in Posts : ~Waits(q)
  BY <1>2, WaitFacts
<1>12. CalmInv'
  <2>1. NULL \notin {"410", "QUOTE_STALE", "OUT_OF_STOCK"}
    BY NullAssumption DEF Codes
  <2>2. \A q \in Posts : post'[q].reply \notin {"410", "QUOTE_STALE", "OUT_OF_STOCK"}
    BY <1>6, <1>7, <2>1 DEF CalmInv
  <2> QED
    BY <1>8, <1>10, <2>2 DEF CalmInv, Exists
<1>13. PageInv'
  <2>1. \A q \in Posts : Started(q)' => post'[q].quote = post'[q].checkoutId
    BY <1>3, <1>6, <1>7 DEF PageInv, Started
  <2> QED
    BY <1>2, <1>8, <1>9, <2>1 DEF PageInv
<1>14. WaitingInv'
  <2> SUFFICES ASSUME NEW q \in Posts, Waits(q)'
               PROVE  /\ post'[q].own /\ progress'.checkoutId = post'[q].checkoutId
                      /\ progress'.step = "review" /\ page'.token = "sent"
                      /\ ~page'.error /\ ~AdoptDue'
    BY DEF WaitingInv
  <2>1. q = p
    BY <1>7, <1>11 DEF Waits
  <2> QED
    BY <1>2, <1>6, <1>7, <1>8, <1>9, <2>1
<1>15. ActiveInv'
  BY <1>2, <1>8, <1>10 DEF ActiveInv
<1>16. ReachInv'
  <2> SUFFICES ASSUME NEW q \in Posts,
                      payment[q] = "PENDING"
                        \/ (post'[q].net /\ draft[post'[q].checkoutId].active = NULL)
               PROVE  progress.checkoutId = post'[q].checkoutId
    BY <1>2, <1>10 DEF ReachInv
  <2>1. CASE q = p
    BY <1>6, <1>7, <2>1
  <2>2. CASE q # p
    BY <1>7, <2>2 DEF ReachInv
  <2> QED
    BY <2>1, <2>2
<1> QED
  BY <1>12, <1>13, <1>14, <1>15, <1>16

\* A checkout is created for a slice that has none, or the request fails.
LEMMA CreateAnsweredIsKept ==
    ASSUME Inv, Kept, UNCHANGED upsets, CreateAnswered
    PROVE  Kept'
<1> USE DEF Inv, Kept
<1>1. page \in Page /\ draft \in [Checkouts -> Draft \cup {NULL}]
  BY DEF TypeOK
<1>2. /\ page.creating /\ ~page.lateCreate /\ Mounted /\ progress.checkoutId = NULL
      /\ UNCHANGED <<payment, save, post>>
  BY DEF CreateAnswered, CalmInv, PageInv
<1>3. page.view = NULL /\ progress.transactionId = NULL /\ page.shown = NULL
      /\ progress.step = "payment"
  BY <1>1, <1>2, NullAssumption DEF PageInv, ActiveInv, Page, View
<1>4. \A p \in Posts : SameSubmission(p) /\ ~Waits(p)'
  <2>1. \A p \in Posts : ~Waits(p)
    BY <1>2, WaitFacts
  <2> QED
    BY <1>2, <2>1, SamePosts
<1>5. CASE page' = [page EXCEPT !.creating = FALSE, !.error = TRUE] /\ UNCHANGED <<draft, progress>>
  <2>1. /\ page'.view = NULL /\ page'.route = page.route /\ page'.shown = NULL
        /\ ~page'.creating /\ ~page'.lateCreate
    BY <1>1, <1>2, <1>3, <1>5 DEF Page
  <2>2. KeptStep
    BY <1>2, <1>3, <1>4, <1>5, <2>1 DEF KeptStep, serverVars
  <2> QED
    BY <2>2, KeptStepKeeps
<1>6. CASE /\ \E c \in Checkouts :
                 /\ ~Exists(c)
                 /\ draft' = [draft EXCEPT ![c] =
                                [version |-> 1, customer |-> NULL, deliveryDetails |-> NULL,
                                 active |-> NULL, expired |-> FALSE, lapsed |-> FALSE]]
                 /\ progress' = CheckoutCreated(c, NewKey)
           /\ page' = [page EXCEPT !.creating = FALSE, !.fetching = TRUE]
  <2> DEFINE d == [version |-> 1, customer |-> NULL, deliveryDetails |-> NULL,
                   active |-> NULL, expired |-> FALSE, lapsed |-> FALSE]
  <2>1. PICK c \in Checkouts :
          ~Exists(c) /\ draft' = [draft EXCEPT ![c] = d] /\ progress' = CheckoutCreated(c, NewKey)
    BY <1>6
  <2>2. ~d.expired /\ ~d.lapsed
    OBVIOUS
  <2> HIDE DEF d
  <2>3. draft'[c] = d /\ \A k \in Checkouts \ {c} : draft'[k] = draft[k]
    BY <1>1, <2>1
  <2>4. progress'.checkoutId = c /\ progress'.transactionId = NULL /\ progress'.step = "payment"
    BY <2>1 DEF CheckoutCreated
  <2>5. /\ page'.view = NULL /\ page'.shown = NULL /\ ~page'.creating /\ ~page'.lateCreate
    BY <1>1, <1>2, <1>3, <1>6 DEF Page
  <2>6. c # NULL
    BY NullAssumption
  <2>7. CalmInv'
    BY <1>2, <2>2, <2>3, <2>5 DEF CalmInv, Exists
  <2>8. PageInv'
    BY <1>2, <2>4, <2>5, <2>6 DEF PageInv, Started
  <2>9. WaitingInv'
    BY <1>4 DEF WaitingInv
  <2>10. ActiveInv'
    BY <2>4, <2>5, NullAssumption DEF ActiveInv, PaymentState
  <2>11. ReachInv'
    <3> SUFFICES ASSUME NEW p \in Posts,
                        payment[p] = "PENDING"
                          \/ (post[p].net /\ draft'[post[p].checkoutId].active = NULL)
                 PROVE  FALSE
      BY <1>2 DEF ReachInv
    <3>1. Started(p) /\ post[p].checkoutId \in Checkouts /\ Exists(post[p].checkoutId)
      BY DEF NamesInv, TypeOK, Submission
    <3>2. draft'[post[p].checkoutId] = draft[post[p].checkoutId]
      BY <2>1, <2>3, <3>1
    <3>3. progress.checkoutId = post[p].checkoutId
      BY <3>2 DEF ReachInv
    <3> QED
      BY <1>2, <3>1, <3>3, NullAssumption
  <2> QED
    BY <2>7, <2>8, <2>9, <2>10, <2>11
<1>7. \/ page' = [page EXCEPT !.creating = FALSE, !.error = TRUE] /\ UNCHANGED <<draft, progress>>
      \/ /\ \E c \in Checkouts :
               /\ ~Exists(c)
               /\ draft' = [draft EXCEPT ![c] =
                              [version |-> 1, customer |-> NULL, deliveryDetails |-> NULL,
                               active |-> NULL, expired |-> FALSE, lapsed |-> FALSE]]
               /\ progress' = CheckoutCreated(c, NewKey)
         /\ page' = [page EXCEPT !.creating = FALSE, !.fetching = TRUE]
  BY <1>2 DEF CreateAnswered
<1> QED
  BY <1>5, <1>6, <1>7

\* Nothing is left behind at first.
LEMMA InitKept ==
    ASSUME Init
    PROVE  Kept
<1>1. \A p \in Posts : post[p].at = "unsent" /\ post[p].reply = NULL /\ ~post[p].net
                       /\ payment[p] = "NONE"
  BY DEF Init, NoPost, Payments
<1>2. CalmInv
  BY <1>1, NullAssumption DEF Init, CalmInv, Exists, Codes
<1>3. PageInv /\ WaitingInv
  BY <1>1 DEF Init, PageInv, WaitingInv, Started, Waits, Cleared, Mounted
<1>4. ActiveInv /\ ReachInv
  BY <1>1, NullAssumption DEF Init, ActiveInv, ReachInv, Cleared, PaymentState
<1> QED
  BY <1>2, <1>3, <1>4 DEF Kept

\* Every step where nothing is left behind keeps it so.
LEMMA StepKeepsKept ==
    ASSUME Inv, NothingLeftBehind, Kept, [Next]_<<vars, upsets>>
    PROVE  Kept'
<1>1. UNCHANGED upsets
  BY DEF Next
<1>2. CASE BuyerNext
  <2>1. ~AdoptDue
    BY <1>2 DEF BuyerNext
  <2>2. CASE Open
    BY <1>1, <2>2, OpenIsKept
  <2>3. CASE Leave
    BY <1>1, <2>3, LeaveIsKept
  <2>4. CASE RefreshQuote
    BY <2>4, RefreshNeedsALapse
  <2>5. CASE ReturnToProduct
    BY <1>1, <2>5, ReturnIsKept
  <2>6. CASE Reload
    BY <1>1, <2>6, ReloadIsKept
  <2>7. CASE Tokenized \/ AcceptTerms \/ Back \/ StartWithoutToken
    BY <1>1, <2>7, StepsAreKept
  <2>8. CASE StartSave
    BY <1>1, <2>8, StartSaveIsKept
  <2>9. CASE \E p \in Posts : StartPayment(p)
    BY <2>1, <2>9, StartPaymentIsKept
  <2>10. CASE ConsultSession
    BY <1>1, <2>10, ReadsAreKept
  <2> QED
    BY <1>2, <2>2, <2>3, <2>4, <2>5, <2>6, <2>7, <2>8, <2>9, <2>10 DEF BuyerNext
<1>3. CASE PageNext
  <2>1. CASE CreateAnswered
    BY <1>1, <2>1, CreateAnsweredIsKept
  <2>2. CASE Fetch
    BY <1>1, <2>2, ReadsAreKept
  <2>3. CASE AdoptActive
    BY <1>1, <2>3, AdoptIsKept
  <2>4. CASE RequireToken \/ TokenExpires
    BY <1>1, <2>4, StepsAreKept
  <2>5. CASE SavePut
    BY <2>5, SavePutIsKept
  <2>6. CASE SaveRecover
    BY <1>1, <2>6, SaveRecoverIsKept
  <2>7. CASE SaveFinal
    BY <1>1, <2>7, SaveFinalIsKept
  <2>8. CASE PollTransaction
    BY <1>1, <2>8, PollIsKept
  <2>9. CASE \E p \in Posts : \/ PostAccepted(p) \/ PostRefused(p) \/ PostLost(p)
                              \/ PostRefetch(p) \/ PostRecover(p)
    BY <1>1, <2>9, PostAcceptedIsKept, UnansweredIsKept, PostRefetchIsKept, PostRecoverIsKept
  <2> QED
    BY <1>3, <2>1, <2>2, <2>3, <2>4, <2>5, <2>6, <2>7, <2>8, <2>9 DEF PageNext
<1>4. CASE ServerNext
  <2>1. CASE \E p \in Posts : HandlePost(p)
    BY <2>1, HandlePostIsKept
  <2>2. CASE \E p \in Payments : DecidePayment(p)
    BY <2>2, DecidePaymentIsKept
  <2>3. ~ \E c \in Checkouts : Expire(c) \/ Lapse(c)
    BY DEF Expire, Lapse, NothingLeftBehind
  <2>4. CASE \E c \in Checkouts, part \in {"customer", "deliveryDetails"} : OtherTabEdits(c, part)
    BY <2>4, OtherTabEditsIsKept
  <2>5. CASE \E c \in Checkouts, o \in OtherPosts : OtherTabPays(c, o)
    BY <2>5, OtherTabPaysIsKept
  <2> QED
    BY <1>4, <2>1, <2>2, <2>3, <2>4, <2>5 DEF ServerNext
<1>5. CASE UNCHANGED <<vars, upsets>>
  <2>1. RowsGrow
    BY <1>5, RowsStay DEF vars, serverVars
  <2>2. PostsAnswered
    BY <1>5, PostsStay DEF vars, serverVars
  <2>3. KeptGrowth
    BY <1>5, <2>1, <2>2 DEF vars, serverVars, KeptGrowth, Kept, CalmInv, PageInv, Exists
  <2> QED
    BY <2>3, KeptGrowthKeeps
<1> QED
  BY <1>2, <1>3, <1>4, <1>5 DEF Next

\* Where nothing is left behind, the slice, the page, the submissions and the
\* rows stay in step.
THEOREM NothingIsLeft == Spec => [](NothingLeftBehind => Kept)
<1>1. Init => (NothingLeftBehind => Kept)
  BY InitKept
<1>2. Inv /\ (NothingLeftBehind => Kept) /\ [Next]_<<vars, upsets>>
        => (NothingLeftBehind => Kept)'
  <2> SUFFICES ASSUME Inv, NothingLeftBehind => Kept, [Next]_<<vars, upsets>>,
                      NothingLeftBehind'
               PROVE  Kept'
    OBVIOUS
  <2>1. UNCHANGED upsets
    BY DEF Next
  <2>2. NothingLeftBehind
    BY <2>1 DEF NothingLeftBehind
  <2> QED
    BY <2>2, StepKeepsKept
<1> QED
  BY <1>1, <1>2, DialogInvariant, PTL DEF Spec

\* A pending payment of this tab is never forgotten: the slice names its checkout.
THEOREM ReachCorrect == Spec => []PaymentStaysReachable
<1>1. (NothingLeftBehind => Kept) => PaymentStaysReachable
  BY DEF Kept, ReachInv, PaymentStaysReachable
<1> QED
  BY <1>1, NothingIsLeft, PTL

\* The status step shows the payment of the checkout that the slice names.
THEOREM ShownCorrect == Spec => []ShowsItsOwnPayment
<1>1. (NothingLeftBehind => Kept) => ShowsItsOwnPayment
  BY DEF Kept, ActiveInv, ShowsItsOwnPayment
<1> QED
  BY <1>1, NothingIsLeft, PTL

=============================================================================
