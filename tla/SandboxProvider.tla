--------------------------- MODULE SandboxProvider ---------------------------
(***************************************************************************)
(* createOnce of the sandbox adapter in time (sandbox-payment-provider.ts),*)
(* over the acceptance reader and the transport (sandbox-runtime.ts).      *)
(*                                                                         *)
(* Before its POST a submission needs the provider's contracts and the     *)
(* acceptance tokens that go with them.  The reader keeps the last answer  *)
(* for CacheTtl and lets concurrent callers share one GET; the tokens      *)
(* expire, the provider may publish new contracts at any time, and the     *)
(* sandbox is authorised only until AuthorizedUntil.  All of it is checked *)
(* before a wait and used after it.                                        *)
(*                                                                         *)
(* Times are whole units of one clock.  What the POST leads to is in       *)
(* CheckoutPayment.                                                        *)
(***************************************************************************)
EXTENDS Integers

CONSTANTS
  Calls,            \* calls of createOnce, one POST at most each
  Contracts,        \* versions of the provider's contracts
  Expected,         \* the version this deployment shows to buyers
  CacheTtl,         \* cacheTtlMs
  QuoteTtl,         \* quoteTtlSeconds: how long tokens must outlive their use
  TokenLives,       \* how long the tokens of a GET may live: a token without exp is
                    \* one that outlives MaxTime + QuoteTtl
  AuthorizedUntil,  \* sandboxAuthorizedUntilUtc
  MaxTime           \* bound on the clock

ASSUME SandboxAssumption ==
  /\ Expected \in Contracts
  /\ {CacheTtl, QuoteTtl} \subseteq Nat \ {0}
  /\ TokenLives \subseteq Nat /\ {AuthorizedUntil, MaxTime} \subseteq Nat

VARIABLES
  now,        \* the clock
  published,  \* the version of the contracts the provider publishes
  cached,     \* the reader's cached snapshot and when it was validated
  inFlight,   \* the reader's operation, and how and when it settled
  gets,       \* GETs on the network
  call        \* call[c]: where createOnce stands, and what it holds

vars == <<now, published, cached, inFlight, gets, call>>

NoSnapshot == [contracts |-> Expected, expiresAt |-> 0, validatedAt |-> -1]
NoOperation == [state |-> "none", snapshot |-> NoSnapshot, endedAt |-> 0, finallyDue |-> FALSE]

\* at: createOnce's await; from: when it called the reader; outcome: what it
\* returned; posted: the snapshot it posted with; readEnded: when the operation it
\* shared settled.
NewCall == [at |-> "idle", from |-> 0, snapshot |-> NoSnapshot, outcome |-> "none",
            posted |-> NoSnapshot, postedAt |-> -1, readEnded |-> 0]

-----------------------------------------------------------------------------
Authorized == now < AuthorizedUntil

\* isProviderAcceptanceJwtUsable, of both tokens.
Usable(snapshot) == snapshot.expiresAt > now + QuoteTtl

\* What the reader serves without asking.
CachedUntilExpiry == cached # NoSnapshot /\ Usable(cached)   \* faulty: no ttl
CacheServes ==
  /\ cached # NoSnapshot
  /\ now < cached.validatedAt + CacheTtl
  /\ Usable(cached)

Finished(c, outcome) == call' = [call EXCEPT ![c].at = "done", ![c].outcome = outcome]

\* readyOptions: a call outside the authorised time ends at once.
Disabled(c) ==
  /\ call[c].at = "idle" /\ ~Authorized
  /\ Finished(c, "ENVIRONMENT_DISABLED")
  /\ UNCHANGED <<now, published, cached, inFlight, gets>>

\* The reader answers from its cache.
ReadCached(c) ==
  /\ call[c].at = "idle" /\ Authorized /\ CacheServes
  /\ call' = [call EXCEPT ![c].at = "read", ![c].from = now, ![c].snapshot = cached]
  /\ UNCHANGED <<now, published, cached, inFlight, gets>>

\* Another call's operation is shared, one that has just settled too.
JoinRead(c) ==
  /\ call[c].at = "idle" /\ Authorized /\ ~CacheServes /\ inFlight.state # "none"
  /\ call' = [call EXCEPT ![c] =
       [@ EXCEPT !.from = now, !.snapshot = inFlight.snapshot, !.readEnded = inFlight.endedAt,
                 !.at = CASE inFlight.state = "sent"   -> "await"
                          [] inFlight.state = "ok"     -> "read"
                          [] inFlight.state = "failed" -> "failed"]]
  /\ UNCHANGED <<now, published, cached, inFlight, gets>>

\* A new operation; the transport asks the network before anything else runs.
StartRead(c) ==
  /\ call[c].at = "idle" /\ Authorized /\ ~CacheServes /\ inFlight.state = "none"
  /\ call' = [call EXCEPT ![c].at = "await", ![c].from = now]
  /\ inFlight' = [NoOperation EXCEPT !.state = "sent"]
  /\ gets' = gets + 1
  /\ UNCHANGED <<now, published, cached>>

\* The operation is over: everybody who awaits it is about to run.
Settle(state, snapshot) ==
  /\ inFlight.state = "sent" /\ gets > 0
  /\ gets' = gets - 1
  /\ inFlight' = [inFlight EXCEPT !.state = state, !.snapshot = snapshot, !.endedAt = now,
                                     !.finallyDue = TRUE]
  /\ call' = [c \in Calls |->
       IF call[c].at # "await" THEN call[c]
       ELSE [call[c] EXCEPT !.at = IF state = "ok" THEN "read" ELSE "failed",
                            !.snapshot = snapshot, !.readEnded = now]]

\* A valid answer: validated now, cached and returned.
ReadAnswered ==
  /\ \E life \in TokenLives :
       LET snapshot == [contracts |-> published, expiresAt |-> now + life, validatedAt |-> now]
       IN  Usable(snapshot) /\ Settle("ok", snapshot) /\ cached' = snapshot
  /\ UNCHANGED <<now, published>>

\* No answer in time, not a 2xx, or one that is not valid: nothing is cached.
ReadFailed ==
  /\ Settle("failed", NoSnapshot)
  /\ UNCHANGED <<now, published, cached>>

\* The finally of the call that started the operation.
ClearRead ==
  /\ inFlight.finallyDue
  /\ inFlight' = NoOperation
  /\ UNCHANGED <<now, published, cached, gets, call>>

-----------------------------------------------------------------------------
(* What createOnce does with the snapshot.                                 *)

\* The buyer accepted the version this deployment shows.
AnyContracts(snapshot) == TRUE   \* faulty: posts with whatever is published
SameContracts(snapshot) == snapshot.contracts = Expected

NotSent(c) ==
  /\ \/ call[c].at = "failed"
     \/ call[c].at = "read" /\ ~(SameContracts(call[c].snapshot) /\ Usable(call[c].snapshot))
  /\ Finished(c, "PROVEN_NOT_SENT")
  /\ UNCHANGED <<now, published, cached, inFlight, gets>>

\* The transport looks at the authorisation once more: a POST it refuses is not
\* told apart from one that failed on its way.
FailedAsNotSent == "PROVEN_NOT_SENT"   \* faulty: for every failure of the transport
TransportFailed == "OUTCOME_UNKNOWN"

Post(c) ==
  /\ call[c].at = "read" /\ SameContracts(call[c].snapshot) /\ Usable(call[c].snapshot)
  /\ IF Authorized
     THEN call' = [call EXCEPT ![c].at = "posting", ![c].posted = call[c].snapshot,
                               ![c].postedAt = now]
     ELSE Finished(c, TransportFailed)
  /\ UNCHANGED <<now, published, cached, inFlight, gets>>

PostAnswered(c) ==
  /\ call[c].at = "posting"
  /\ \E outcome \in {"ACKNOWLEDGED", TransportFailed,
                     "PROTOCOL_VIOLATION_AFTER_POSSIBLE_SEND"} : Finished(c, outcome)
  /\ UNCHANGED <<now, published, cached, inFlight, gets>>

-----------------------------------------------------------------------------
(* The environment.                                                        *)

\* Nothing waits between a settled operation and its finally.
TimePasses ==
  /\ now < MaxTime /\ ~inFlight.finallyDue
  /\ now' = now + 1
  /\ UNCHANGED <<published, cached, inFlight, gets, call>>

Publish ==
  /\ published' \in Contracts \ {published}
  /\ UNCHANGED <<now, cached, inFlight, gets, call>>

Init ==
  /\ now = 0 /\ published = Expected
  /\ cached = NoSnapshot /\ inFlight = NoOperation /\ gets = 0
  /\ call = [c \in Calls |-> NewCall]

Next ==
  \/ \E c \in Calls : \/ Disabled(c) \/ ReadCached(c) \/ JoinRead(c) \/ StartRead(c)
                      \/ NotSent(c) \/ Post(c) \/ PostAnswered(c)
  \/ ReadAnswered \/ ReadFailed \/ ClearRead
  \/ TimePasses \/ Publish

Spec == Init /\ [][Next]_vars

-----------------------------------------------------------------------------
(* Properties.                                                             *)

Posted == {c \in Calls : call[c].postedAt >= 0}

\* The reader's state is coherent, and its GETs are never concurrent.
TypeOK ==
  /\ now \in 0 .. MaxTime /\ published \in Contracts
  /\ gets \in 0 .. 1
  /\ inFlight.state = "sent" <=> gets = 1
  /\ \A c \in Calls : call[c].at \in
       {"idle", "await", "read", "failed", "posting", "done"}
  /\ \A c \in Calls : call[c].at = "await" => inFlight.state = "sent"

\* A call fails with a read only if it was there while the read was under way:
\* a failure is never handed on to calls that come later.
FailsWithItsOwnRead ==
  \A c \in Calls :
    call[c].at = "failed" => call[c].readEnded >= call[c].from

\* What a call goes on with was validated after it asked, or less than the
\* cache's time before: sharing and caching bring neither an older answer nor
\* an earlier failure.
AnswersAreFresh ==
  /\ FailsWithItsOwnRead
  /\ \A c \in Calls : call[c].snapshot # NoSnapshot =>
       call[c].snapshot.validatedAt > call[c].from - CacheTtl

\* A payment is posted with tokens of the contracts the buyer was shown, that
\* outlive the quote, and while the sandbox is authorised, however long the
\* call waited in between.
PostsWithValidAcceptances ==
  \A c \in Posted :
    /\ call[c].posted.contracts = Expected
    /\ call[c].posted.expiresAt > call[c].postedAt + QuoteTtl
    /\ call[c].postedAt < AuthorizedUntil

\* What the service is told of the dispatch is true: "not sent" and "disabled"
\* only if nothing was posted, an acknowledgement only if something was.
OutcomeIsTrue ==
  \A c \in Calls :
    /\ call[c].outcome \in {"PROVEN_NOT_SENT", "ENVIRONMENT_DISABLED"} => c \notin Posted
    /\ call[c].outcome \in {"ACKNOWLEDGED", "PROTOCOL_VIOLATION_AFTER_POSSIBLE_SEND"}
         => c \in Posted
=============================================================================
