----------------------- MODULE SandboxProvider_proofs -----------------------
(***************************************************************************)
(* What holds of SandboxProvider for any calls, contracts, token lives,    *)
(* times to live and authorised period.                                    *)
(*                                                                         *)
(* The reader first: an operation that has settled is cleared before time  *)
(* moves, so whoever still joins it joins it at the moment it settled.     *)
(* Then each call: where it stands determines what it may hold.            *)
(***************************************************************************)
EXTENDS SandboxProvider, TLAPS

Snapshot == [contracts : Contracts, expiresAt : Int, validatedAt : Int]

Operation ==
  [state : {"none", "sent", "ok", "failed"}, snapshot : Snapshot, endedAt : Nat,
   finallyDue : BOOLEAN]

Outcome == {"none", "ENVIRONMENT_DISABLED", "PROVEN_NOT_SENT", "OUTCOME_UNKNOWN",
            "ACKNOWLEDGED", "PROTOCOL_VIOLATION_AFTER_POSSIBLE_SEND"}

Call ==
  [at : {"idle", "await", "read", "failed", "posting", "done"}, from : Nat,
   snapshot : Snapshot, outcome : Outcome, posted : Snapshot, postedAt : Int,
   readEnded : Nat]

TypeInv ==
  /\ now \in Nat /\ now <= MaxTime
  /\ published \in Contracts /\ cached \in Snapshot
  /\ inFlight \in Operation /\ gets \in Nat
  /\ call \in [Calls -> Call]

\* A settled operation is as old as the clock, and what it answered with too.
ReaderInv ==
  /\ gets = IF inFlight.state = "sent" THEN 1 ELSE 0
  /\ inFlight.finallyDue <=> inFlight.state \in {"ok", "failed"}
  /\ inFlight.finallyDue => inFlight.endedAt = now
  /\ inFlight.state = "ok" => inFlight.snapshot.validatedAt = now
  /\ inFlight.state # "ok" => inFlight.snapshot = NoSnapshot

\* What a call brought from its read.
ReadInv(c) ==
  /\ call[c].at = "idle" => call[c] = NewCall
  /\ call[c].at = "await" => inFlight.state = "sent"
  /\ call[c].from <= now
  /\ call[c].at = "failed" => call[c].readEnded >= call[c].from
  /\ call[c].snapshot # NoSnapshot =>
       call[c].snapshot.validatedAt > call[c].from - CacheTtl

\* What a call posted and what it returned, by where it stands.
PostInv(c) ==
  /\ call[c].at \in {"idle", "await", "read", "failed"} => call[c].postedAt = -1
  /\ call[c].at = "posting" => call[c].postedAt >= 0
  /\ call[c].at # "done" => call[c].outcome = "none"
  /\ call[c].postedAt >= 0 =>
       /\ call[c].posted.contracts = Expected
       /\ call[c].posted.expiresAt > call[c].postedAt + QuoteTtl
       /\ call[c].postedAt < AuthorizedUntil
  /\ call[c].outcome \in {"PROVEN_NOT_SENT", "ENVIRONMENT_DISABLED"} =>
       call[c].postedAt < 0
  /\ call[c].outcome \in {"ACKNOWLEDGED", "PROTOCOL_VIOLATION_AFTER_POSSIBLE_SEND"} =>
       call[c].postedAt >= 0

Inv ==
  /\ TypeInv
  /\ ReaderInv
  /\ \A c \in Calls : ReadInv(c) /\ PostInv(c)

-----------------------------------------------------------------------------
(* The invariant holds at the start and is preserved.                      *)

\* What nobody has filled in yet is well typed.
LEMMA BlanksTyped ==
  /\ NoSnapshot \in Snapshot /\ NoOperation \in Operation /\ NewCall \in Call
  /\ [NoOperation EXCEPT !.state = "sent"] \in Operation
<1>1. NoSnapshot \in Snapshot
  BY SandboxAssumption DEF NoSnapshot, Snapshot
<1>2. NoOperation \in Operation
  BY <1>1 DEF NoOperation, Operation
<1>3. [NoOperation EXCEPT !.state = "sent"] \in Operation
  BY <1>2 DEF Operation
<1>4. NewCall \in Call
  BY <1>1 DEF NewCall, Call, Outcome
<1> QED BY <1>1, <1>2, <1>3, <1>4

\* The reader and every call start blank.
LEMMA InvInit == Init => Inv
<1> SUFFICES ASSUME Init PROVE Inv
  OBVIOUS
<1>1. TypeInv
  BY BlanksTyped, SandboxAssumption DEF Init, TypeInv
<1>2. ReaderInv
  BY DEF Init, ReaderInv, NoOperation
<1>3. ASSUME NEW c \in Calls PROVE ReadInv(c) /\ PostInv(c)
  <2>1. call[c] = NewCall /\ now = 0
    BY DEF Init
  <2> QED BY <2>1, SandboxAssumption DEF ReadInv, PostInv, NewCall
<1> QED BY <1>1, <1>2, <1>3 DEF Inv

\* A step of one call disturbs no other, as long as it ends no read.
LEMMA OneCall ==
  ASSUME Inv, NEW c \in Calls, NEW r \in Call, call' = [call EXCEPT ![c] = r],
         now' = now, inFlight.state = "sent" => inFlight'.state = "sent",
         ReadInv(c)', PostInv(c)'
  PROVE  /\ call' \in [Calls -> Call]
         /\ \A d \in Calls : ReadInv(d)' /\ PostInv(d)'
<1>1. call' \in [Calls -> Call]
  BY DEF Inv, TypeInv
<1>2. ASSUME NEW d \in Calls, d # c PROVE ReadInv(d)' /\ PostInv(d)'
  <2>1. call'[d] = call[d] /\ ReadInv(d) /\ PostInv(d)
    BY <1>2 DEF Inv, TypeInv
  <2> QED BY <2>1 DEF ReadInv, PostInv
<1> QED BY <1>1, <1>2

\* The same when the reader is left alone.
LEMMA OneCallStep ==
  ASSUME Inv, NEW c \in Calls, NEW r \in Call, call' = [call EXCEPT ![c] = r],
         UNCHANGED <<now, published, cached, inFlight, gets>>,
         ReadInv(c)', PostInv(c)'
  PROVE  Inv'
<1>1. call' \in [Calls -> Call] /\ \A d \in Calls : ReadInv(d)' /\ PostInv(d)'
  BY OneCall
<1>2. TypeInv'
  BY <1>1 DEF Inv, TypeInv
<1>3. ReaderInv'
  BY DEF Inv, ReaderInv
<1> QED BY <1>1, <1>2, <1>3 DEF Inv

\* A call that asks is served from the cache, or shares an operation.
LEMMA InvReads ==
  ASSUME Inv, NEW c \in Calls, ReadCached(c) \/ JoinRead(c)
  PROVE  Inv'
<1>1. call[c] \in Call /\ call[c] = NewCall /\ now \in Nat
  BY DEF Inv, TypeInv, ReadInv, ReadCached, JoinRead
<1>2. CASE ReadCached(c)
  <2> DEFINE r == [call[c] EXCEPT !.at = "read", !.from = now, !.snapshot = cached]
  <2>1. cached \in Snapshot
    BY DEF Inv, TypeInv
  <2>2. r \in Call
    BY <1>1, <2>1 DEF Call
  <2>3. call' = [call EXCEPT ![c] = r]
    BY <1>2 DEF ReadCached
  <2>4. call'[c] = r /\ now' = now
    BY <1>2, <2>3 DEF ReadCached, Inv, TypeInv
  <2>5. /\ r.at = "read" /\ r.from = now /\ r.snapshot = cached
        /\ r.postedAt = -1 /\ r.outcome = "none"
    BY <1>1 DEF Call, NewCall
  <2>6. cached.validatedAt \in Int /\ cached.validatedAt > now - CacheTtl
    BY <1>1, <1>2, <2>1, SandboxAssumption DEF ReadCached, CacheServes, Snapshot
  <2>7. ReadInv(c)'
    BY <1>1, <2>4, <2>5, <2>6 DEF ReadInv
  <2>8. PostInv(c)'
    BY <2>4, <2>5 DEF PostInv
  <2> HIDE DEF r
  <2> QED BY <1>2, <2>2, <2>3, <2>7, <2>8, OneCallStep DEF ReadCached
<1>3. CASE JoinRead(c)
  <2> DEFINE r == [call[c] EXCEPT !.from = now, !.snapshot = inFlight.snapshot,
                                  !.readEnded = inFlight.endedAt,
                                  !.at = CASE inFlight.state = "sent"   -> "await"
                                           [] inFlight.state = "ok"     -> "read"
                                           [] inFlight.state = "failed" -> "failed"]
  <2>1. inFlight \in Operation /\ inFlight.state \in {"sent", "ok", "failed"}
    BY <1>3 DEF Inv, TypeInv, Operation, JoinRead
  <2>2. r \in Call
    BY <1>1, <2>1 DEF Call, Operation
  <2>3. call' = [call EXCEPT ![c] = r]
    BY <1>3 DEF JoinRead
  <2>4. call'[c] = r /\ now' = now /\ inFlight' = inFlight
    BY <1>3, <2>3 DEF JoinRead, Inv, TypeInv
  <2>5. /\ r.at \in {"await", "read", "failed"} /\ r.from = now /\ r.readEnded = inFlight.endedAt
        /\ r.snapshot = inFlight.snapshot /\ r.postedAt = -1 /\ r.outcome = "none"
        /\ r.at = "await" => inFlight.state = "sent"
        /\ r.at = "failed" => inFlight.state = "failed"
    BY <1>1, <2>1 DEF Call, NewCall
  <2>6. /\ inFlight.state # "sent" => inFlight.endedAt = now
        /\ inFlight.snapshot # NoSnapshot => inFlight.snapshot.validatedAt = now
    BY <2>1 DEF Inv, ReaderInv
  <2>7. inFlight.snapshot # NoSnapshot => inFlight.snapshot.validatedAt > now - CacheTtl
    BY <1>1, <2>6, SandboxAssumption
  <2> HIDE DEF r
  <2>8. ReadInv(c)'
    BY <1>1, <2>4, <2>5, <2>6, <2>7 DEF ReadInv
  <2>9. PostInv(c)'
    BY <2>4, <2>5 DEF PostInv
  <2> QED BY <1>3, <2>2, <2>3, <2>8, <2>9, OneCallStep DEF JoinRead
<1> QED BY <1>2, <1>3

\* A call that finds nothing to share starts a read.
LEMMA InvStartRead ==
  ASSUME Inv, NEW c \in Calls, StartRead(c)
  PROVE  Inv'
<1> DEFINE r == [call[c] EXCEPT !.at = "await", !.from = now]
<1>1. call[c] \in Call /\ call[c] = NewCall /\ now \in Nat /\ call \in [Calls -> Call]
  BY DEF Inv, TypeInv, ReadInv, StartRead
<1>2. r \in Call /\ call' = [call EXCEPT ![c] = r] /\ call'[c] = r /\ now' = now
  BY <1>1 DEF StartRead, Call
<1>3. inFlight' = [NoOperation EXCEPT !.state = "sent"] /\ inFlight'.state = "sent"
      /\ inFlight'.snapshot = NoSnapshot /\ ~inFlight'.finallyDue
  BY DEF StartRead, NoOperation
<1>4. ReadInv(c)' /\ PostInv(c)'
  BY <1>1, <1>2, <1>3 DEF ReadInv, PostInv, NewCall
<1>5. call' \in [Calls -> Call] /\ \A d \in Calls : ReadInv(d)' /\ PostInv(d)'
  BY <1>2, <1>3, <1>4, OneCall
<1>6. gets' = 1
  BY DEF StartRead, Inv, ReaderInv
<1>7. TypeInv'
  BY <1>2, <1>3, <1>5, <1>6, BlanksTyped DEF StartRead, Inv, TypeInv
<1>8. ReaderInv'
  BY <1>3, <1>6 DEF ReaderInv
<1> QED BY <1>5, <1>7, <1>8 DEF Inv


\* A read that settles hands its answer to everybody who awaits it: they asked
\* before now, and what they get was validated now.
LEMMA InvSettle ==
  ASSUME Inv, NEW state \in {"ok", "failed"}, NEW snapshot \in Snapshot,
         Settle(state, snapshot), UNCHANGED <<now, published>>,
         IF state = "ok" THEN snapshot.validatedAt = now ELSE snapshot = NoSnapshot,
         cached' \in Snapshot
  PROVE  Inv'
<1>1. now \in Nat /\ call \in [Calls -> Call] /\ gets = 1
  BY DEF Inv, TypeInv, ReaderInv, Settle
<1>2. /\ inFlight' \in Operation /\ inFlight'.state = state
      /\ inFlight'.snapshot = snapshot /\ inFlight'.endedAt = now /\ inFlight'.finallyDue = TRUE
  BY <1>1 DEF Settle, Inv, TypeInv, Operation
<1>3. gets' = 0
  <2>1. gets' = gets - 1
    BY Zenon DEF Settle
  <2> QED BY <1>1, <2>1
<1>4. ReaderInv'
  <2>1. CASE state = "ok"
    BY <1>2, <1>3, <2>1 DEF ReaderInv
  <2>2. CASE state = "failed"
    BY <1>2, <1>3, <2>2 DEF ReaderInv
  <2> QED BY <2>1, <2>2
<1>5. ASSUME NEW c \in Calls PROVE call'[c] \in Call /\ ReadInv(c)' /\ PostInv(c)'
  <2>1. call[c] \in Call /\ ReadInv(c) /\ PostInv(c)
    BY <1>1 DEF Inv
  <2>2. CASE call[c].at # "await"
    <3>1. call'[c] = call[c]
      BY <2>2 DEF Settle
    <3> QED BY <2>1, <2>2, <3>1 DEF ReadInv, PostInv
  <2>3. CASE call[c].at = "await"
    <3> DEFINE r == [call[c] EXCEPT !.at = IF state = "ok" THEN "read" ELSE "failed",
                                    !.snapshot = snapshot, !.readEnded = now]
    <3>1. call'[c] = r
      BY <2>3 DEF Settle
    <3>2. r \in Call
      BY <1>1, <2>1 DEF Call
    <3>3. /\ r.at \in {"read", "failed"} /\ r.from = call[c].from /\ r.readEnded = now
          /\ r.snapshot = snapshot /\ r.postedAt = call[c].postedAt
          /\ r.outcome = call[c].outcome
      BY <2>1 DEF Call
    <3> HIDE DEF r
    <3>4. call[c].from \in Nat /\ call[c].from <= now
          /\ call[c].postedAt = -1 /\ call[c].outcome = "none"
      BY <2>1, <2>3 DEF Call, ReadInv, PostInv
    <3>5. snapshot # NoSnapshot => snapshot.validatedAt > call[c].from - CacheTtl
      BY <1>1, <3>4, SandboxAssumption
    <3>6. ReadInv(c)'
      BY <1>1, <3>1, <3>3, <3>4, <3>5 DEF ReadInv
    <3>7. PostInv(c)'
      BY <3>1, <3>3, <3>4 DEF PostInv
    <3> QED BY <3>1, <3>2, <3>6, <3>7
  <2> QED BY <2>2, <2>3
<1>6. call' \in [Calls -> Call]
  BY <1>5 DEF Settle
<1>7. TypeInv'
  BY <1>2, <1>3, <1>6 DEF Inv, TypeInv
<1> QED BY <1>4, <1>5, <1>7 DEF Inv

\* A call that ends: what it returns fits what it posted.
LEMMA InvFinished ==
  ASSUME Inv, NEW c \in Calls, NEW outcome \in Outcome, Finished(c, outcome),
         UNCHANGED <<now, published, cached, inFlight, gets>>,
         outcome \in {"PROVEN_NOT_SENT", "ENVIRONMENT_DISABLED"} => call[c].postedAt < 0,
         outcome \in {"ACKNOWLEDGED", "PROTOCOL_VIOLATION_AFTER_POSSIBLE_SEND"} =>
           call[c].postedAt >= 0
  PROVE  Inv'
<1> DEFINE r == [call[c] EXCEPT !.at = "done", !.outcome = outcome]
<1>1. call[c] \in Call /\ call \in [Calls -> Call] /\ ReadInv(c) /\ PostInv(c)
  BY DEF Inv, TypeInv
<1>2. r \in Call /\ call' = [call EXCEPT ![c] = r] /\ call'[c] = r
  BY <1>1 DEF Finished, Call
<1>3. /\ r.at = "done" /\ r.outcome = outcome /\ r.from = call[c].from
      /\ r.snapshot = call[c].snapshot /\ r.posted = call[c].posted
      /\ r.postedAt = call[c].postedAt
  BY <1>1 DEF Call
<1> HIDE DEF r
<1>4. ReadInv(c)'
  BY <1>1, <1>2, <1>3 DEF ReadInv
<1>5. PostInv(c)'
  BY <1>1, <1>2, <1>3 DEF PostInv
<1> QED BY <1>2, <1>4, <1>5, OneCallStep

\* A POST leaves with acceptances that are usable now, or is refused.
LEMMA InvPost ==
  ASSUME Inv, NEW c \in Calls, Post(c)
  PROVE  Inv'
<1>1. call[c] \in Call /\ call \in [Calls -> Call] /\ ReadInv(c) /\ PostInv(c) /\ now \in Nat
  BY DEF Inv, TypeInv
<1>2. CASE Authorized
  <2> DEFINE r == [call[c] EXCEPT !.at = "posting", !.posted = call[c].snapshot,
                                  !.postedAt = now]
  <2>1. call' = [call EXCEPT ![c] = r] /\ call'[c] = r
    BY <1>1, <1>2 DEF Post
  <2>2. call[c].snapshot \in Snapshot /\ now \in Int /\ call[c] \in Call
    BY <1>1 DEF Call
  <2>3. r \in Call
    BY <2>2 DEF Call
  <2>4. /\ r.at = "posting" /\ r.outcome = call[c].outcome /\ r.from = call[c].from
        /\ r.snapshot = call[c].snapshot /\ r.posted = call[c].snapshot /\ r.postedAt = now
    BY <1>1 DEF Call
  <2> HIDE DEF r
  <2>5. call[c].at = "read" /\ call[c].outcome = "none"
    BY <1>1 DEF Post, PostInv
  <2>6. ReadInv(c)'
    BY <1>1, <2>1, <2>4 DEF ReadInv, Post
  <2>7. PostInv(c)'
    BY <1>1, <1>2, <2>1, <2>4, <2>5
    DEF PostInv, Post, SameContracts, Usable, Authorized
  <2> QED BY <2>1, <2>3, <2>6, <2>7, OneCallStep DEF Post
<1>3. CASE ~Authorized
  BY <1>1, <1>3, InvFinished DEF Post, TransportFailed, Outcome
<1> QED BY <1>2, <1>3

\* The reader's finally, the clock and the provider.
LEMMA InvEnvironment ==
  ASSUME Inv, ClearRead \/ TimePasses \/ Publish
  PROVE  Inv'
<1>1. CASE ClearRead
  <2>1. inFlight.state \in {"ok", "failed"} /\ gets = 0 /\ inFlight' = NoOperation
    BY <1>1 DEF ClearRead, Inv, ReaderInv
  <2>2. TypeInv'
    BY <1>1, <2>1, BlanksTyped DEF ClearRead, Inv, TypeInv
  <2>3. ReaderInv'
    BY <1>1, <2>1 DEF ClearRead, ReaderInv, NoOperation
  <2>4. ASSUME NEW c \in Calls PROVE ReadInv(c)' /\ PostInv(c)'
    BY <1>1, <2>1 DEF ClearRead, Inv, ReadInv, PostInv
  <2> QED BY <2>2, <2>3, <2>4 DEF Inv
<1>2. CASE TimePasses
  <2>1. now \in Nat /\ now' = now + 1 /\ now' <= MaxTime
        /\ inFlight.state \in {"none", "sent"}
    BY <1>2, SandboxAssumption DEF TimePasses, Inv, TypeInv, ReaderInv, Operation
  <2>2. TypeInv'
    BY <1>2, <2>1 DEF TimePasses, Inv, TypeInv
  <2>3. ReaderInv'
    BY <1>2, <2>1 DEF TimePasses, Inv, ReaderInv
  <2>4. ASSUME NEW c \in Calls PROVE ReadInv(c)' /\ PostInv(c)'
    <3>1. call[c] \in Call /\ call'[c] = call[c] /\ inFlight' = inFlight
      BY <1>2 DEF TimePasses, Inv, TypeInv
    <3>2. call[c].from \in Nat
      BY <3>1 DEF Call
    <3> QED BY <2>1, <3>1, <3>2 DEF Inv, ReadInv, PostInv
  <2> QED BY <2>2, <2>3, <2>4 DEF Inv
<1>3. CASE Publish
  <2>1. TypeInv'
    BY <1>3 DEF Publish, Inv, TypeInv
  <2>2. ReaderInv'
    BY <1>3 DEF Publish, Inv, ReaderInv
  <2>3. ASSUME NEW c \in Calls PROVE ReadInv(c)' /\ PostInv(c)'
    BY <1>3 DEF Publish, Inv, ReadInv, PostInv
  <2> QED BY <2>1, <2>2, <2>3 DEF Inv
<1> QED BY <1>1, <1>2, <1>3

\* Every step keeps the invariant.
LEMMA InvNext == Inv /\ [Next]_vars => Inv'
<1> SUFFICES ASSUME Inv, [Next]_vars PROVE Inv'
  OBVIOUS
<1>1. ASSUME NEW c \in Calls, Disabled(c) PROVE Inv'
  <2>1. call[c].postedAt = -1
    BY <1>1 DEF Disabled, Inv, PostInv
  <2> QED BY <1>1, <2>1, InvFinished DEF Disabled, Outcome
<1>2. ASSUME NEW c \in Calls, ReadCached(c) \/ JoinRead(c) PROVE Inv'
  BY <1>2, InvReads
<1>3. ASSUME NEW c \in Calls, StartRead(c) PROVE Inv'
  BY <1>3, InvStartRead
<1>4. ASSUME NEW c \in Calls, NotSent(c) PROVE Inv'
  <2>1. call[c].postedAt = -1
    BY <1>4 DEF NotSent, Inv, PostInv
  <2> QED BY <1>4, <2>1, InvFinished DEF NotSent, Outcome
<1>5. ASSUME NEW c \in Calls, Post(c) PROVE Inv'
  BY <1>5, InvPost
<1>6. ASSUME NEW c \in Calls, PostAnswered(c) PROVE Inv'
  <2>1. call[c].postedAt >= 0
    BY <1>6 DEF PostAnswered, Inv, PostInv
  <2>2. PICK outcome \in {"ACKNOWLEDGED", TransportFailed,
                          "PROTOCOL_VIOLATION_AFTER_POSSIBLE_SEND"} : Finished(c, outcome)
    BY <1>6 DEF PostAnswered
  <2> QED BY <1>6, <2>1, <2>2, InvFinished DEF PostAnswered, TransportFailed, Outcome
<1>7. ASSUME ReadAnswered PROVE Inv'
  <2> DEFINE answer(life) ==
        [contracts |-> published, expiresAt |-> now + life, validatedAt |-> now]
  <2>1. PICK life \in TokenLives : Settle("ok", answer(life)) /\ cached' = answer(life)
    BY <1>7 DEF ReadAnswered
  <2>2. answer(life) \in Snapshot
    BY SandboxAssumption DEF Inv, TypeInv, Snapshot
  <2> QED BY <1>7, <2>1, <2>2, InvSettle DEF ReadAnswered
<1>8. ASSUME ReadFailed PROVE Inv'
  <2>1. cached' \in Snapshot
    BY <1>8 DEF ReadFailed, Inv, TypeInv
  <2> QED BY <1>8, <2>1, BlanksTyped, InvSettle DEF ReadFailed
<1>9. ASSUME ClearRead \/ TimePasses \/ Publish PROVE Inv'
  BY <1>9, InvEnvironment
<1>10. ASSUME UNCHANGED vars PROVE Inv'
  BY <1>10 DEF vars, Inv, TypeInv, ReaderInv, ReadInv, PostInv
<1> QED
  BY <1>1, <1>2, <1>3, <1>4, <1>5, <1>6, <1>7, <1>8, <1>9, <1>10 DEF Next

\* The invariant holds in every state.
LEMMA InvAlways == Spec => []Inv
  BY InvInit, InvNext, PTL DEF Spec

-----------------------------------------------------------------------------
(* The properties.                                                         *)

\* The reader has at most one GET on the network, whoever asks and whatever fails
\* (the in-flight promise of the acceptance reader), and its state is well typed.
THEOREM ReaderCorrect == Spec => []TypeOK
<1>1. Inv => TypeOK
  <2> SUFFICES ASSUME Inv PROVE TypeOK
    OBVIOUS
  <2>1. \A c \in Calls : call[c] \in Call
    BY DEF Inv, TypeInv
  <2> QED BY <2>1, SandboxAssumption
          DEF Inv, TypeInv, ReaderInv, ReadInv, TypeOK, Call
<1> QED BY <1>1, InvAlways, PTL

\* Sharing one GET and caching its answer hand no call an older snapshot than the
\* cache allows, and no failure from before it asked.
THEOREM ReadsAreFresh == Spec => []AnswersAreFresh
<1>1. Inv => AnswersAreFresh
  BY DEF Inv, ReadInv, AnswersAreFresh, FailsWithItsOwnRead
<1> QED BY <1>1, InvAlways, PTL

\* Whatever a call waited for, what createOnce posts carries the contracts that the
\* buyer was shown, tokens that outlive the quote, and leaves in authorised time.
THEOREM PostsAreValid == Spec => []PostsWithValidAcceptances
<1>1. Inv => PostsWithValidAcceptances
  BY DEF Inv, PostInv, PostsWithValidAcceptances, Posted
<1> QED BY <1>1, InvAlways, PTL

\* The outcome the service acts on never says "not sent" of a POST that left, nor
\* acknowledges one that did not.
THEOREM OutcomesAreTrue == Spec => []OutcomeIsTrue
<1>1. Inv => OutcomeIsTrue
  <2> SUFFICES ASSUME Inv, NEW c \in Calls PROVE
        /\ call[c].outcome \in {"PROVEN_NOT_SENT", "ENVIRONMENT_DISABLED"} => c \notin Posted
        /\ call[c].outcome \in {"ACKNOWLEDGED", "PROTOCOL_VIOLATION_AFTER_POSSIBLE_SEND"}
             => c \in Posted
    BY DEF OutcomeIsTrue
  <2>1. call[c] \in Call /\ PostInv(c)
    BY DEF Inv, TypeInv
  <2>2. call[c].postedAt \in Int
    BY <2>1 DEF Call
  <2> QED BY <2>1, <2>2 DEF PostInv, Posted
<1> QED BY <1>1, InvAlways, PTL

=============================================================================
