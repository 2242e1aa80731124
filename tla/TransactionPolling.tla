------------------------- MODULE TransactionPolling -------------------------
(***************************************************************************)
(* How the status step keeps itself informed: use-transaction-polling.ts   *)
(* over the dialog's transaction query (checkout-dialog.tsx).              *)
(*                                                                         *)
(* The hook polls the transaction in the slice with growing delays while   *)
(* what the query shows is PENDING, and for ten minutes after the payment  *)
(* was accepted.  Its timer, the answer of a GET and the buyer's events    *)
(* interleave; a render and the effects it causes are part of the event    *)
(* that causes it.  The query shows the last answer it has, of an earlier  *)
(* transaction or from before an error too, and has one GET in flight per  *)
(* transaction.  Focus and reconnection cause no GET: the listeners that   *)
(* would are not installed.                                                *)
(*                                                                         *)
(* Time is the browser's clock, in units of a second or more; it need not  *)
(* agree with the server's, whose acceptedAt starts the window.            *)
(***************************************************************************)
EXTENDS Integers, Sequences, FiniteSets

CONSTANTS
  Txns,        \* transactions the dialog may show
  AcceptedAt,  \* AcceptedAt[t]: by the server's clock
  Delays,      \* transactionPollingDelaysMs
  Window,      \* transactionPollingWindowMs
  Starts,      \* what the browser's clock may show at the server's time 0
  MaxTime,     \* bound on the browser's clock
  MaxFailures, \* bound: GETs that fail
  MaxMoves     \* bound: times the buyer opens, leaves or changes transaction

ASSUME PollingAssumption ==
  /\ AcceptedAt \in [Txns -> Int] /\ Starts \subseteq Int
  /\ Delays \in Seq(Nat \ {0}) /\ Delays # <<>>
  /\ {Window, MaxTime, MaxFailures, MaxMoves} \subseteq Nat

\* The delays grow.
ASSUME DelaysAssumption == \A n \in 1 .. Len(Delays) : Delays[1] <= Delays[n]

VARIABLES
  now,       \* Date.now()
  server,    \* server[t]: the payment's status, PENDING or FINAL
  tx,        \* transactionId in the slice, or "none"; "closed" without dialog
  data,      \* what the query shows: [of, status]
  cache,     \* cache[t]: the last answer about t, "none" once it is dropped
  fetching,  \* fetching[t]: a GET of t is in flight, asked "auto"matically or not
  attempt,
  timers,    \* timers that are set: [at, deadline]
  polling,   \* the running effect's poll awaits its GET
  stopped,   \* automaticPollingStopped
  gone,      \* history: transactions a GET of which was answered 404
  lastPoll,  \* history: when the last automatic GET was asked, or an instant before
  failures, moves

vars == <<now, server, tx, data, cache, fetching, attempt, timers, polling, stopped,
          gone, lastPoll, failures, moves>>

NoData == [of |-> "none", status |-> "none"]
Open == tx \in Txns

-----------------------------------------------------------------------------
(* The second effect of the hook, after the deps it has: attempt, the      *)
(* status and acceptedAt shown, and the transaction.                       *)

Delay(n) == Delays[IF n < Len(Delays) THEN n + 1 ELSE Len(Delays)]
DeadlineOf(shown) == AcceptedAt[shown.of] + Window

\* Cleanup of the effect that ran before: its timer, and its claim on attempt.
Cleanup == {}

\* The effect's body for transaction t and what is shown.
PollEffect(t, shown, n) ==
  LET remaining == DeadlineOf(shown) - now
      delay     == IF Delay(n) < remaining THEN Delay(n) ELSE remaining
  IN  /\ polling' = FALSE
      /\ attempt' = n
      /\ IF t \notin Txns \/ shown.status # "PENDING"
         THEN timers' = Cleanup /\ stopped' = FALSE
         ELSE IF remaining <= 0
         THEN timers' = Cleanup /\ stopped' = TRUE
         ELSE /\ stopped' = FALSE
              /\ timers' = Cleanup \cup {[at |-> now + delay, deadline |-> DeadlineOf(shown)]}

\* A render with new data: the effect runs only if the deps have changed.
Shows(shown) ==
  /\ data' = shown
  /\ IF shown.status = data.status /\ (shown.of = data.of \/ shown.status = "none")
     THEN UNCHANGED <<attempt, timers, polling, stopped>>
     ELSE PollEffect(tx, shown, attempt)

-----------------------------------------------------------------------------
(* The dialog.                                                             *)

\* It opens on t, or the slice comes to name t: the query asks for t.  Until then
\* it shows what is cached for t, or else what it showed before.
ShowTransaction(t) ==
  /\ moves < MaxMoves /\ t # tx
  /\ moves' = moves + 1
  /\ tx' = t
  /\ LET shown == IF cache[t] # "none" THEN [of |-> t, status |-> cache[t]]
                  ELSE IF tx = "closed" THEN NoData ELSE data
     IN  /\ data' = shown
         /\ PollEffect(t, shown, 0)
  /\ fetching' = [fetching EXCEPT ![t] = TRUE]
  /\ UNCHANGED <<now, server, cache, gone, lastPoll, failures>>

\* The slice forgets its transaction (a new checkout), or the dialog closes.  The
\* cache drops what nobody asks for after a minute.
Forget(place) ==
  /\ moves < MaxMoves /\ Open
  /\ moves' = moves + 1
  /\ tx' = place
  /\ data' = IF place = "closed" THEN NoData ELSE data
  /\ timers' = Cleanup /\ polling' = FALSE /\ stopped' = FALSE
  /\ attempt' = 0
  /\ cache' \in {cache, [cache EXCEPT ![tx] = "none"]}
  /\ UNCHANGED <<now, server, fetching, gone, lastPoll, failures>>

\* "Consultar estado": a GET, unless one is in flight.
AskManually ==
  /\ Open /\ ~fetching[tx]
  /\ fetching' = [fetching EXCEPT ![tx] = TRUE]
  /\ UNCHANGED <<now, server, tx, data, cache, attempt, timers, polling, stopped, gone,
                 lastPoll, failures, moves>>

-----------------------------------------------------------------------------
(* The timer and the answers.                                              *)

\* The timer's callback: past the deadline it stops, else it asks.
FireAlways(timer) ==   \* faulty: the deadline is not looked at again
  /\ fetching' = [fetching EXCEPT ![tx] = TRUE]
  /\ polling' = TRUE /\ lastPoll' = now
  /\ UNCHANGED stopped
Fire(timer) ==
  IF now >= timer.deadline
  THEN stopped' = TRUE /\ UNCHANGED <<fetching, polling, lastPoll>>
  ELSE /\ fetching' = [fetching EXCEPT ![tx] = TRUE]
       /\ polling' = TRUE /\ lastPoll' = now
       /\ UNCHANGED stopped

TimerFires ==
  /\ \E timer \in timers :
       /\ now >= timer.at
       /\ timers' = timers \ {timer}
       /\ Open
       /\ Fire(timer)
  /\ UNCHANGED <<now, server, tx, data, cache, attempt, gone, failures, moves>>

\* The effect's finally: the next attempt, if the effect is still the running one.
AttemptInPlace(shown) == Shows(shown)   \* faulty: attempt is not counted up
CountAttempt(shown) ==
  /\ data' = shown
  /\ IF shown.status = data.status /\ shown.of = data.of
     THEN PollEffect(tx, shown, IF attempt < Len(Delays) THEN attempt + 1 ELSE attempt)
     ELSE PollEffect(tx, shown, attempt)

\* A GET of t ends, showing what it showed before or the answer.
Ends(t, shown) ==
  /\ fetching' = [fetching EXCEPT ![t] = FALSE]
  /\ IF t # tx THEN UNCHANGED <<data, attempt, timers, polling, stopped>>
     ELSE IF polling THEN CountAttempt(shown) ELSE Shows(shown)

Answered(t) ==
  /\ fetching[t]
  /\ Ends(t, [of |-> t, status |-> server[t]])
  /\ cache' = [cache EXCEPT ![t] = server[t]]
  /\ UNCHANGED <<now, server, tx, gone, lastPoll, failures, moves>>

\* 5xx, no network, or 404 when the capability no longer covers t.
Failed(t) ==
  /\ fetching[t] /\ failures < MaxFailures
  /\ failures' = failures + 1
  /\ Ends(t, data)
  /\ gone' \in {gone, gone \cup {t}}
  /\ UNCHANGED <<now, server, tx, cache, lastPoll, moves>>

-----------------------------------------------------------------------------
(* The environment.                                                        *)

Settle(t) ==
  /\ server[t] = "PENDING"
  /\ server' = [server EXCEPT ![t] = "FINAL"]
  /\ UNCHANGED <<now, tx, data, cache, fetching, attempt, timers, polling, stopped, gone,
                 lastPoll, failures, moves>>

TimePasses ==
  /\ now < MaxTime
  /\ now' = now + 1
  /\ UNCHANGED <<server, tx, data, cache, fetching, attempt, timers, polling, stopped, gone,
                 lastPoll, failures, moves>>

-----------------------------------------------------------------------------
Init ==
  /\ now \in Starts
  /\ server = [t \in Txns |-> "PENDING"]
  /\ tx = "closed" /\ data = NoData /\ cache = [t \in Txns |-> "none"]
  /\ fetching = [t \in Txns |-> FALSE]
  /\ attempt = 0 /\ timers = {} /\ polling = FALSE /\ stopped = FALSE
  /\ gone = {} /\ lastPoll = now - Delays[1]
  /\ failures = 0 /\ moves = 0

Next ==
  \/ \E t \in Txns : ShowTransaction(t) \/ Answered(t) \/ Failed(t) \/ Settle(t)
  \/ \E place \in {"none", "closed"} : Forget(place)
  \/ AskManually \/ TimerFires \/ TimePasses

Spec == Init /\ [][Next]_vars

\* Timers fire, time passes and the network ends what was asked; the buyer
\* and the provider need not do anything.
FairSpec ==
  /\ Spec
  /\ WF_vars(TimerFires) /\ WF_vars(TimePasses)
  /\ \A t \in Txns : WF_vars(Answered(t))

-----------------------------------------------------------------------------
(* Properties.                                                             *)

\* The hook's state has its type, with one timer or one poll at most: an effect
\* that is replaced leaves neither behind.
TypeOK ==
  /\ now \in Int /\ server \in [Txns -> {"PENDING", "FINAL"}]
  /\ tx \in Txns \cup {"none", "closed"}
  /\ data.of \in Txns \cup {"none"} /\ cache \in [Txns -> {"none", "PENDING", "FINAL"}]
  /\ fetching \in [Txns -> BOOLEAN]
  /\ attempt \in 0 .. Len(Delays)
  /\ Cardinality(timers) + (IF polling THEN 1 ELSE 0) <= 1
  /\ stopped \in BOOLEAN /\ gone \subseteq Txns

\* No automatic GET is asked without a reason to: what is shown is pending and
\* its window is open, by the browser's clock, when the timer fires. And however
\* GETs fail and transactions change, two of them are at least the shortest
\* delay apart: polling never becomes a tight loop.
PollsWithinWindow ==
  [][lastPoll' # lastPoll =>
       /\ Open /\ data.status = "PENDING"
       /\ now < DeadlineOf(data)
       /\ lastPoll' - lastPoll >= Delays[1]]_vars

\* A payment shown as pending does not stay so unnoticed: its final status is
\* shown, or the buyer is told that automatic polling stopped, or has left.
PendingIsFollowed ==
  \A t \in Txns :
    (tx = t /\ data = [of |-> t, status |-> "PENDING"])
      ~> (tx # t \/ data # [of |-> t, status |-> "PENDING"] \/ stopped)

\* Design: a GET that fails is repeated with backoff, so a transaction in view
\* that is not known to be final is being asked for, or polling has stopped.
FailureIsRetried ==
  (Open /\ tx \notin gone /\ ~(data.of = tx /\ data.status = "FINAL"))
    => fetching[tx] \/ timers # {} \/ stopped

\* Design: polling stops at a revocation, so a transaction that was answered 404
\* is not asked for automatically again.
RevocationStops ==
  [][lastPoll' # lastPoll => tx \notin gone]_vars
=============================================================================
