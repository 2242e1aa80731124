---------------------- MODULE TransactionPolling_proofs ----------------------
(***************************************************************************)
(* What holds of TransactionPolling for any transactions, acceptance       *)
(* times, growing delays, window and clock.                                *)
(*                                                                         *)
(* A timer says all that its callback relies on: it is the only one, no    *)
(* poll awaits its GET meanwhile, it was set for what is still shown, and  *)
(* it goes off late enough after the last poll or not before the deadline. *)
(***************************************************************************)
EXTENDS TransactionPolling, FiniteSetTheorems, TLAPS

Shown == [of : Txns, status : {"PENDING", "FINAL"}] \cup {NoData}

TypeInv ==
  /\ now \in Int /\ lastPoll \in Int
  /\ server \in [Txns -> {"PENDING", "FINAL"}]
  /\ tx \in Txns \cup {"none", "closed"}
  /\ data \in Shown /\ cache \in [Txns -> {"none", "PENDING", "FINAL"}]
  /\ fetching \in [Txns -> BOOLEAN]
  /\ attempt \in 0 .. Len(Delays)
  /\ polling \in BOOLEAN /\ stopped \in BOOLEAN /\ gone \subseteq Txns

\* A timer belongs to what is shown, and is due a delay after the last poll or
\* when the window ends.
TimerInv(timer) ==
  /\ Open /\ data.status = "PENDING" /\ ~polling
  /\ timer.at \in Int
  /\ timer.deadline = DeadlineOf(data)
  /\ timer.at >= lastPoll + Delays[1] \/ timer.at >= timer.deadline

Inv ==
  /\ TypeInv
  /\ lastPoll <= now
  /\ timers = {} \/ \E timer : timers = {timer}
  /\ \A timer \in timers : TimerInv(timer)

-----------------------------------------------------------------------------
(* The effect                                                              *)

\* Every delay is at least the first.
LEMMA DelayBounds ==
  ASSUME NEW n \in 0 .. Len(Delays)
  PROVE  Delay(n) \in Int /\ Delays[1] \in Int /\ Delay(n) >= Delays[1] /\ Delays[1] > 0
<1>1. Delays \in Seq(Nat \ {0}) /\ Len(Delays) \in Nat /\ Len(Delays) >= 1
  BY PollingAssumption
<1>2. \A i \in 1 .. Len(Delays) : Delays[i] \in Nat \ {0}
  BY <1>1
<1> DEFINE i == IF n < Len(Delays) THEN n + 1 ELSE Len(Delays)
<1>3. i \in 1 .. Len(Delays) /\ 1 \in 1 .. Len(Delays)
  BY <1>1
<1>4. Delay(n) = Delays[i]
  BY DEF Delay
<1> HIDE DEF i
<1> QED BY <1>2, <1>3, <1>4, DelaysAssumption

\* What is shown has a deadline.
LEMMA DeadlineType ==
  ASSUME NEW shown \in Shown, shown.status = "PENDING"
  PROVE  shown.of \in Txns /\ DeadlineOf(shown) \in Int
<1>1. shown.of \in Txns
  BY DEF Shown, NoData
<1> QED BY <1>1, PollingAssumption DEF DeadlineOf

\* The invariant's parts about timers, polling and the flags.
EffectInv ==
  /\ attempt \in 0 .. Len(Delays) /\ polling \in BOOLEAN /\ stopped \in BOOLEAN
  /\ timers = {} \/ \E timer : timers = {timer}
  /\ \A timer \in timers : TimerInv(timer)

\* The effect leaves no timer, or one that fits what is shown.
LEMMA PollEffectInv ==
  ASSUME now \in Int, lastPoll \in Int, lastPoll <= now,
         NEW t, NEW shown \in Shown, NEW n \in 0 .. Len(Delays), PollEffect(t, shown, n),
         tx' = t, data' = shown, now' = now, lastPoll' = lastPoll
  PROVE  EffectInv'
<1> DEFINE remaining == DeadlineOf(shown) - now
           delay == IF Delay(n) < remaining THEN Delay(n) ELSE remaining
           timer == [at |-> now + delay, deadline |-> DeadlineOf(shown)]
<1>1. polling' = FALSE /\ attempt' = n /\ stopped' \in BOOLEAN
  BY DEF PollEffect
<1>2. \/ timers' = {}
      \/ t \in Txns /\ shown.status = "PENDING" /\ timers' = {timer}
  BY DEF PollEffect, Cleanup
<1>3. CASE timers' = {}
  BY <1>1, <1>3 DEF EffectInv
<1>4. CASE t \in Txns /\ shown.status = "PENDING" /\ timers' = {timer}
  <2>1. DeadlineOf(shown) \in Int
    BY <1>4, DeadlineType
  <2>2. Delay(n) \in Int /\ Delays[1] \in Int /\ Delay(n) >= Delays[1]
    BY DelayBounds
  <2>3. PICK w : w = timer /\ w.at = now + delay /\ w.deadline = DeadlineOf(shown)
    <3>1. timer.at = now + delay /\ timer.deadline = DeadlineOf(shown)
      OBVIOUS
    <3> HIDE DEF delay, timer
    <3> QED BY <3>1
  <2>4. delay \in Int /\ (delay >= Delays[1] \/ delay = DeadlineOf(shown) - now)
    BY <2>1, <2>2
  <2> HIDE DEF delay, timer
  <2>5. /\ w.at \in Int
        /\ w.at >= lastPoll + Delays[1] \/ w.at >= w.deadline
    BY <2>1, <2>2, <2>3, <2>4
  <2>6. TimerInv(w)'
    BY <1>1, <1>4, <2>3, <2>5 DEF TimerInv, Open, DeadlineOf
  <2> QED BY <1>1, <1>4, <2>3, <2>6 DEF EffectInv
<1> QED BY <1>2, <1>3, <1>4

\* A render that changes no dependency leaves the timer for what is still shown.
LEMMA ShowsInv ==
  ASSUME Inv, NEW shown \in Shown, Shows(shown), tx' = tx, now' = now, lastPoll' = lastPoll
  PROVE  EffectInv' /\ data' = shown
<1>1. CASE shown.status = data.status /\ (shown.of = data.of \/ shown.status = "none")
  <2>1. data' = shown /\ UNCHANGED <<attempt, timers, polling, stopped>>
    BY <1>1 DEF Shows
  <2>2. ASSUME NEW timer \in timers PROVE TimerInv(timer)'
    <3>1. TimerInv(timer)
      BY DEF Inv
    <3>2. shown.status = "PENDING" /\ shown.of = data.of
      BY <1>1, <3>1 DEF TimerInv
    <3> QED BY <2>1, <3>1, <3>2 DEF TimerInv, Open, DeadlineOf
  <2> QED BY <2>1, <2>2 DEF Inv, TypeInv, EffectInv
<1>2. CASE ~(shown.status = data.status /\ (shown.of = data.of \/ shown.status = "none"))
  <2>1. data' = shown /\ PollEffect(tx, shown, attempt)
    BY <1>2 DEF Shows
  <2> QED BY <2>1, PollEffectInv DEF Inv, TypeInv
<1> QED BY <1>1, <1>2

\* The end of a GET, whether or not the effect waits for it.
LEMMA EndsInv ==
  ASSUME Inv, NEW t \in Txns, NEW shown \in Shown, Ends(t, shown),
         tx' = tx, now' = now, lastPoll' = lastPoll
  PROVE  EffectInv' /\ data' \in Shown /\ fetching' \in [Txns -> BOOLEAN]
<1>1. fetching' \in [Txns -> BOOLEAN]
  BY DEF Ends, Inv, TypeInv
<1>2. CASE t # tx
  <2>1. UNCHANGED <<data, attempt, timers, polling, stopped>>
    BY <1>2 DEF Ends
  <2> QED BY <1>1, <2>1 DEF Inv, TypeInv, EffectInv, TimerInv, Open, DeadlineOf
<1>3. CASE t = tx /\ polling
  <2>1. CountAttempt(shown)
    BY <1>3 DEF Ends
  <2>2. PICK n \in 0 .. Len(Delays) : PollEffect(tx, shown, n) /\ data' = shown
    <3>1. attempt \in 0 .. Len(Delays) /\ Len(Delays) \in Nat
      BY PollingAssumption DEF Inv, TypeInv
    <3>2. (IF attempt < Len(Delays) THEN attempt + 1 ELSE attempt) \in 0 .. Len(Delays)
      BY <3>1
    <3> QED BY <2>1, <3>1, <3>2 DEF CountAttempt
  <2> QED BY <1>1, <2>2, PollEffectInv DEF Inv, TypeInv
<1>4. CASE t = tx /\ ~polling
  <2>1. Shows(shown)
    BY <1>4 DEF Ends
  <2> QED BY <1>1, <2>1, ShowsInv
<1> QED BY <1>2, <1>3, <1>4

-----------------------------------------------------------------------------
(* The invariant                                                           *)

\* The dialog is closed, nothing is asked.
LEMMA InvInit == Init => Inv
<1> SUFFICES ASSUME Init PROVE Inv
  OBVIOUS
<1>1. Len(Delays) \in Nat /\ 0 \in 0 .. Len(Delays)
  BY PollingAssumption
<1>2. Delays[1] \in Int /\ Delays[1] > 0
  BY <1>1, DelayBounds
<1>3. now \in Int /\ lastPoll \in Int /\ lastPoll <= now
  BY <1>2, PollingAssumption DEF Init
<1> QED BY <1>1, <1>3 DEF Init, Inv, TypeInv, Shown, NoData

\* The dialog opens, or the slice names another transaction.
LEMMA InvShow ==
  ASSUME Inv, NEW t \in Txns, ShowTransaction(t)
  PROVE  Inv'
<1> DEFINE shown == IF cache[t] # "none" THEN [of |-> t, status |-> cache[t]]
                    ELSE IF tx = "closed" THEN NoData ELSE data
<1>1. shown \in Shown
  BY DEF Inv, TypeInv, Shown
<1>2. data' = shown /\ PollEffect(t, shown, 0) /\ tx' = t
  BY DEF ShowTransaction
<1> HIDE DEF shown
<1>3. 0 \in 0 .. Len(Delays)
  BY PollingAssumption
<1>4. EffectInv'
  BY <1>1, <1>2, <1>3, PollEffectInv DEF ShowTransaction, Inv, TypeInv
<1>5. fetching' \in [Txns -> BOOLEAN]
  BY DEF ShowTransaction, Inv, TypeInv
<1> QED BY <1>1, <1>2, <1>4, <1>5 DEF ShowTransaction, Inv, TypeInv, EffectInv

\* The slice forgets its transaction, or the dialog closes.
LEMMA InvForget ==
  ASSUME Inv, NEW place \in {"none", "closed"}, Forget(place)
  PROVE  Inv'
<1>1. data' \in Shown
  BY DEF Forget, Inv, TypeInv, Shown
<1>2. cache' \in [Txns -> {"none", "PENDING", "FINAL"}]
  BY DEF Forget, Inv, TypeInv
<1>3. 0 \in 0 .. Len(Delays)
  BY PollingAssumption
<1> QED BY <1>1, <1>2, <1>3 DEF Forget, Cleanup, Inv, TypeInv

\* The end of a GET.
LEMMA InvEnds ==
  ASSUME Inv, NEW t \in Txns, Answered(t) \/ Failed(t)
  PROVE  Inv'
<1>1. CASE Answered(t)
  <2>1. [of |-> t, status |-> server[t]] \in Shown
    BY DEF Inv, TypeInv, Shown
  <2>2. EffectInv' /\ data' \in Shown /\ fetching' \in [Txns -> BOOLEAN]
    BY <1>1, <2>1, EndsInv DEF Answered
  <2>3. cache' \in [Txns -> {"none", "PENDING", "FINAL"}]
    BY <1>1 DEF Answered, Inv, TypeInv
  <2> QED BY <1>1, <2>2, <2>3 DEF Answered, Inv, TypeInv, EffectInv
<1>2. CASE Failed(t)
  <2>1. data \in Shown
    BY DEF Inv, TypeInv
  <2>2. EffectInv' /\ data' \in Shown /\ fetching' \in [Txns -> BOOLEAN]
    BY <1>2, <2>1, EndsInv DEF Failed
  <2>3. gone' \subseteq Txns
    BY <1>2 DEF Failed, Inv, TypeInv
  <2> QED BY <1>2, <2>2, <2>3 DEF Failed, Inv, TypeInv, EffectInv
<1> QED BY <1>1, <1>2

\* A timer that goes off was the only one.
LEMMA InvTimer ==
  ASSUME Inv, TimerFires
  PROVE  Inv'
<1>1. PICK timer \in timers : timers' = timers \ {timer} /\ Open /\ Fire(timer)
  BY DEF TimerFires
<1>2. timers' = {}
  BY <1>1 DEF Inv
<1>3. fetching' \in [Txns -> BOOLEAN] /\ polling' \in BOOLEAN /\ stopped' \in BOOLEAN
  BY <1>1 DEF Fire, Open, Inv, TypeInv
<1>4. lastPoll' \in Int /\ lastPoll' <= now
  BY <1>1 DEF Fire, Inv, TypeInv
<1> QED BY <1>2, <1>3, <1>4 DEF TimerFires, Inv, TypeInv

\* The buyer asks, the provider decides, time passes: no timer is touched.
LEMMA InvRest ==
  ASSUME Inv, AskManually \/ TimePasses \/ \E t \in Txns : Settle(t)
  PROVE  Inv'
<1>1. UNCHANGED <<tx, data, cache, attempt, timers, polling, stopped, gone, lastPoll>>
  BY DEF AskManually, TimePasses, Settle
<1>2. /\ now' \in Int /\ lastPoll <= now' /\ server' \in [Txns -> {"PENDING", "FINAL"}]
      /\ fetching' \in [Txns -> BOOLEAN]
  <2>1. CASE AskManually
    BY <2>1 DEF AskManually, Open, Inv, TypeInv
  <2>2. CASE TimePasses
    BY <2>2 DEF TimePasses, Inv, TypeInv
  <2>3. CASE \E t \in Txns : Settle(t)
    BY <2>3 DEF Settle, Inv, TypeInv
  <2> QED BY <2>1, <2>2, <2>3
<1>3. ASSUME NEW timer \in timers PROVE TimerInv(timer)'
  BY <1>1 DEF Inv, TimerInv, Open, DeadlineOf
<1> QED BY <1>1, <1>2, <1>3 DEF Inv, TypeInv

\* The invariant holds in every state.
LEMMA InvAlways == Spec => []Inv
<1>1. Inv /\ Next => Inv'
  BY InvShow, InvForget, InvEnds, InvTimer, InvRest DEF Next
<1>2. Inv /\ UNCHANGED vars => Inv'
  BY DEF vars, Inv, TypeInv, TimerInv, Open, DeadlineOf
<1> QED BY <1>1, <1>2, InvInit, PTL DEF Spec

-----------------------------------------------------------------------------
(* The properties                                                          *)

\* An effect of the polling hook that is replaced leaves neither its timer nor its poll
\* behind: there is one of them at most, whatever the buyer does.
THEOREM OneTimerCorrect == Spec => []TypeOK
<1>1. Inv => TypeOK
  <2> SUFFICES ASSUME Inv PROVE TypeOK
    OBVIOUS
  <2>1. data.of \in Txns \cup {"none"}
    BY DEF Inv, TypeInv, Shown, NoData
  <2>2. Cardinality(timers) + (IF polling THEN 1 ELSE 0) <= 1
    <3>1. CASE timers = {}
      BY <3>1, FS_EmptySet
    <3>2. ASSUME NEW timer, timers = {timer}
          PROVE Cardinality(timers) + (IF polling THEN 1 ELSE 0) <= 1
      <4>1. Cardinality(timers) = 1
        BY <3>2, FS_Singleton
      <4>2. ~polling
        BY <3>2 DEF Inv, TimerInv
      <4> QED BY <4>1, <4>2
    <3> QED BY <3>1, <3>2 DEF Inv
  <2> QED BY <2>1, <2>2 DEF Inv, TypeInv, TypeOK
<1> QED BY <1>1, InvAlways, PTL

\* Automatic GETs are asked only for what is shown as pending and within its window,
\* and at least the shortest delay apart, for any delays and any clock skew.
THEOREM PollingCorrect == Spec => PollsWithinWindow
<1> DEFINE Paced ==
      lastPoll' # lastPoll =>
        /\ Open /\ data.status = "PENDING"
        /\ now < DeadlineOf(data)
        /\ lastPoll' - lastPoll >= Delays[1]
<1>1. ASSUME Inv, Next PROVE Paced
  <2>1. CASE TimerFires
    <3>1. PICK timer \in timers : now >= timer.at /\ Fire(timer)
      BY <2>1 DEF TimerFires
    <3>2. /\ Open /\ data.status = "PENDING" /\ timer.at \in Int
          /\ timer.deadline = DeadlineOf(data)
          /\ timer.at >= lastPoll + Delays[1] \/ timer.at >= timer.deadline
      BY <1>1 DEF Inv, TimerInv
    <3>3. now \in Int /\ lastPoll \in Int /\ DeadlineOf(data) \in Int /\ Delays[1] \in Int
      <4>1. 0 \in 0 .. Len(Delays)
        BY PollingAssumption
      <4> QED BY <1>1, <3>2, <4>1, DeadlineType, DelayBounds DEF Inv, TypeInv
    <3>4. lastPoll' # lastPoll => now < timer.deadline /\ lastPoll' = now
      BY <3>1, <3>2, <3>3 DEF Fire
    <3> QED BY <3>1, <3>2, <3>3, <3>4
  <2>2. CASE ~TimerFires
    <3>1. lastPoll' = lastPoll
      BY <1>1, <2>2
      DEF Next, ShowTransaction, Answered, Failed, Settle, Forget, AskManually, TimePasses
    <3> QED BY <3>1
  <2> QED BY <2>1, <2>2
<1>2. UNCHANGED vars => Paced
  BY DEF vars
<1> QED BY <1>1, <1>2, InvAlways, PTL DEF Spec, PollsWithinWindow

=============================================================================
