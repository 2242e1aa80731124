---------------------- MODULE PrereleaseCleanup_proofs ----------------------
(***************************************************************************)
(* Theorems about PrereleaseCleanup, for any number of groups, abandoned   *)
(* ones, leftovers and faults.                                             *)
(*                                                                         *)
(* Both programs act on what they have read. The argument is that what is  *)
(* read of a group that is being removed stays an upper bound of what is   *)
(* there (Covers): nothing is created or published in it any more, unless  *)
(* its release works beyond the expiry, which makes the group late. The    *)
(* last stack that was read then has none after it, and one that was read  *)
(* to be unpublished is.                                                   *)
(***************************************************************************)
EXTENDS PrereleaseCleanup, FiniteSetTheorems, WellFoundedInduction, TLAPS

-----------------------------------------------------------------------------
(* The inductive invariant                                                 *)

\* The stack is published, or will be when its update ends.
Publishes(k) == k.published \/ (k.status = "UPDATING" /\ k.to[2])

\* What comes after and before a stack in the order of deployment.
After(s) == {u \in Suffixes : Position(u) > Position(s)}
Before(s) == {u \in Suffixes : Position(u) < Position(s)}

\* What was read of a group bounds what is there.
Covers(seen, k) ==
  \A s \in Suffixes : /\ k[s] # Absent => seen[s] # Absent
                      /\ Publishes(k[s]) => seen[s].published

\* What a deployment leaves, and deletions from its end.
Ordered(k) ==
  \A s \in Suffixes :
    /\ k[s] # Absent => \A u \in Before(s) : k[u] # Absent
    /\ k[s].status = "DELETING" => \A u \in After(s) : k[u] = Absent

\* Where a release is: at work on what only the window allows, able to be, or
\* at its cleanup, from which it does not come back.
Working(r) == r.at \in {"activating", "restoring"} \/ r.op \in WindowOps
Building(r) == r.at \in {"ready", "failed"} \/ Working(r)
Cleaning(r) == r.at = "cleaning" \/ r.op \in {"disable", "destroy"}

StepFits(r) ==
  /\ r.at \in {"call", "wait"} <=> r.op # "none"
  /\ r.op # "none" => r.on \in Suffixes
  /\ r.op \in {"enable", "disable", "restore"} => r.on \in Public

\* While a release may create, it is the only one at work on its group.
BuildFits(r, k) ==
  /\ \A s \in Suffixes : k[s].status # "DELETING"
  /\ r.at = "call" /\ r.op = "create" => \A u \in Before(r.on) : k[u] # Absent

\* A cleanup never deletes but at the end, nor what is published.
CleanFits(r, k) ==
  /\ Covers(r.seen, k)
  /\ r.op = "destroy" => /\ \A u \in After(r.on) : k[u] = Absent
                         /\ \A u \in Suffixes : ~Publishes(k[u])

ReleaseFits(g, r, k) ==
  /\ StepFits(r)
  /\ g \in expired \ late => ~Working(r)
  /\ g \notin expired /\ Building(r) => BuildFits(r, k)
  /\ Cleaning(r) => CleanFits(r, k)

ReleaseInv == \A g \in Groups : ReleaseFits(g, release[g], stack[g])

\* What the watchdog has listed or copied of a group bounds what is there too.
Acting == {"step", "wait", "unchanged"}

RunFits(g) ==
  /\ run.at = "listed" => \A s \in Suffixes : Exists(g, s) => <<g, s>> \in run.listed
  /\ run.at \in Acting => Covers(run.copy[g], stack[g])

RunInv ==
  /\ run.plan \subseteq expired
  /\ run.at \in Acting => run.plan # {} /\ \A g \in run.plan : Existing(run.copy[g]) # {}
  /\ run.at \in {"wait", "unchanged"} => run.on \in Suffixes
  /\ \A g \in run.plan \ late : RunFits(g)

PublicInv == \A g \in Groups, s \in Suffixes : Publishes(stack[g][s]) => s \in Public

OrderInv == \A g \in Groups \ late : Ordered(stack[g])

Inv == TypeOK /\ PublicInv /\ ReleaseInv /\ RunInv /\ OrderInv

-----------------------------------------------------------------------------
(* The operators                                                           *)

\* The four stacks have the places one to four.
LEMMA Positions ==
  /\ Position("data") = 1 /\ Position("api") = 2
  /\ Position("observability") = 3 /\ Position("web") = 4
<1>1. /\ Order[1] = "data" /\ Order[2] = "api" /\ Order[3] = "observability"
      /\ Order[4] = "web"
  BY DEF Order
<1>2. \A i \in 1 .. 4 : i = 1 \/ i = 2 \/ i = 3 \/ i = 4
  OBVIOUS
<1>3. Position("data") = 1
  BY <1>1, <1>2 DEF Position
<1>4. Position("api") = 2
  BY <1>1, <1>2 DEF Position
<1>5. Position("observability") = 3
  BY <1>1, <1>2 DEF Position
<1>6. Position("web") = 4
  BY <1>1, <1>2 DEF Position
<1> QED BY <1>3, <1>4, <1>5, <1>6

\* Of two stacks one comes before the other.
LEMMA Places ==
  ASSUME NEW s \in Suffixes
  PROVE  /\ Position(s) \in 1 .. 4
         /\ \A u \in Suffixes : u \in Before(s) <=> s \in After(u)
         /\ \A u \in Suffixes : u \in Before(s) \/ u = s \/ u \in After(s)
         /\ s \notin Before(s) /\ s \notin After(s)
         /\ Before(s) = {Order[i] : i \in 1 .. Position(s) - 1}
<1>1. s \in {"data", "api", "observability", "web"}
  BY DEF Suffixes
<1>2. Position(s) \in 1 .. 4
  BY <1>1, Positions
<1>3. \A u \in Suffixes : u \in Before(s) <=> s \in After(u)
  <2> SUFFICES ASSUME NEW u \in Suffixes
               PROVE  u \in Before(s) <=> s \in After(u)
    OBVIOUS
  <2> QED BY <1>1, Positions DEF Before, After, Suffixes
<1>4. \A u \in Suffixes : u \in Before(s) \/ u = s \/ u \in After(s)
  <2> SUFFICES ASSUME NEW u \in Suffixes
               PROVE  u \in Before(s) \/ u = s \/ u \in After(s)
    OBVIOUS
  <2> QED BY <1>1, Positions DEF Before, After, Suffixes
<1>5. s \notin Before(s) /\ s \notin After(s)
  BY <1>2 DEF Before, After
<1>6. Before(s) = {Order[i] : i \in 1 .. Position(s) - 1}
  <2>1. /\ Order[1] = "data" /\ Order[2] = "api" /\ Order[3] = "observability"
        /\ Order[4] = "web"
    BY DEF Order
  <2>2. CASE s = "data"
    BY <2>1, <2>2, Positions DEF Before, Suffixes
  <2>3. CASE s = "api"
    BY <2>1, <2>3, Positions DEF Before, Suffixes
  <2>4. CASE s = "observability"
    BY <2>1, <2>4, Positions DEF Before, Suffixes
  <2>5. CASE s = "web"
    BY <2>1, <2>5, Positions DEF Before, Suffixes
  <2> QED BY <1>1, <2>2, <2>3, <2>4, <2>5
<1> QED BY <1>2, <1>3, <1>4, <1>5, <1>6

\* The last of some stacks is one of them, with none of them after it.
LEMMA LastOfIs ==
  ASSUME NEW S \in SUBSET Suffixes, S # {}
  PROVE  LastOf(S) \in S /\ \A u \in After(LastOf(S)) : u \notin S
<1>0. \A u \in S : u \in {"data", "api", "observability", "web"}
  BY DEF Suffixes
<1>1. \E s \in S : \A u \in S : Position(u) <= Position(s)
  <2>1. CASE "web" \in S
    BY <1>0, <2>1, Positions
  <2>2. CASE "web" \notin S /\ "observability" \in S
    BY <1>0, <2>2, Positions
  <2>3. CASE "web" \notin S /\ "observability" \notin S /\ "api" \in S
    BY <1>0, <2>3, Positions
  <2>4. CASE S = {"data"}
    BY <2>4, Positions
  <2>5. "web" \in S \/ "observability" \in S \/ "api" \in S \/ S = {"data"}
    BY <1>0
  <2> QED BY <2>1, <2>2, <2>3, <2>4, <2>5
<1>2. LastOf(S) \in S /\ \A u \in S : Position(u) <= Position(LastOf(S))
  BY <1>1 DEF LastOf
<1>3. \A u \in After(LastOf(S)) : Position(u) > Position(LastOf(S)) /\ u \in Suffixes
  BY DEF After
<1>4. \A u \in Suffixes : Position(u) \in 1 .. 4
  BY Places
<1> QED BY <1>2, <1>3, <1>4

\* The first of some stacks is one of them.
LEMMA FirstOfIs ==
  ASSUME NEW S \in SUBSET Suffixes, S # {}
  PROVE  FirstOf(S) \in S
<1>0. \A u \in S : u \in {"data", "api", "observability", "web"}
  BY DEF Suffixes
<1>1. \E s \in S : \A u \in S : Position(s) <= Position(u)
  <2>1. CASE "data" \in S
    BY <1>0, <2>1, Positions
  <2>2. CASE "data" \notin S /\ "api" \in S
    BY <1>0, <2>2, Positions
  <2>3. CASE "data" \notin S /\ "api" \notin S /\ "observability" \in S
    BY <1>0, <2>3, Positions
  <2>4. CASE S = {"web"}
    BY <2>4, Positions
  <2>5. "data" \in S \/ "api" \in S \/ "observability" \in S \/ S = {"web"}
    BY <1>0
  <2> QED BY <2>1, <2>2, <2>3, <2>4, <2>5
<1> QED BY <1>1 DEF FirstOf

\* The group that is being deleted is one of the plan.
LEMMA CurrentIs ==
  ASSUME TypeOK, run.plan # {}
  PROVE  Current \in run.plan
<1>1. run.plan \subseteq Nat
  BY CleanupAssumption DEF TypeOK, RunState
<1>2. PICK m \in run.plan : \A k \in run.plan : <<k, m>> \notin OpToRel(<, Nat)
  BY <1>1, WFMin, NatLessThanWellFounded, Zenon
<1>3. \A k \in run.plan : ~(k < m)
  BY <1>1, <1>2, Zenon DEF OpToRel
<1>4. \A k \in run.plan : m <= k
  BY <1>1, <1>3
<1> QED BY <1>4 DEF Current
-----------------------------------------------------------------------------
(* One stack changes                                                       *)

\* Nothing is a stack too.
LEMMA AbsentIs ==
  /\ Absent \in StackState /\ Absent.status = "ABSENT"
  /\ ~Absent.published /\ ~Publishes(Absent)
  BY DEF Absent, Stack, StackState, Publishes, StableStatuses, InProgress

\* The fields of a stack.
LEMMA StackIs ==
  ASSUME NEW status \in StableStatuses \cup InProgress \cup {"ABSENT", "DELETE_FAILED"},
         NEW marked \in BOOLEAN, NEW published \in BOOLEAN, NEW to \in BOOLEAN \X BOOLEAN
  PROVE  /\ Stack(status, marked, published, to) \in StackState
         /\ Stack(status, marked, published, to).status = status
         /\ Stack(status, marked, published, to).marked = marked
         /\ Stack(status, marked, published, to).published = published
         /\ Stack(status, marked, published, to).to = to
  BY DEF Stack, StackState

\* Neither more of the stack is there than before nor more of it published.
Shrinks(k, x) == (x # Absent => k # Absent) /\ (Publishes(x) => Publishes(k))

\* The stack is neither created nor removed, but by a removal under way.
Stays(k, x) ==
  /\ x # Absent => k # Absent
  /\ x.status = "DELETING" => k.status = "DELETING"
  /\ x = Absent => k = Absent \/ k.status = "DELETING"

Wanes(k, x) == Shrinks(k, x) /\ Stays(k, x)

\* What was read still bounds a group of which one stack shrinks, and what a
\* cleanup relies on stays.
LEMMA ShrinkKeeps ==
  ASSUME NEW k \in GroupState, NEW s \in Suffixes, NEW x \in StackState, Shrinks(k[s], x)
  PROVE  /\ \A seen : Covers(seen, k) => Covers(seen, [k EXCEPT ![s] = x])
         /\ \A r : CleanFits(r, k) => CleanFits(r, [k EXCEPT ![s] = x])
<1> DEFINE k2 == [k EXCEPT ![s] = x]
<1>1. k2[s] = x /\ \A u \in Suffixes : u # s => k2[u] = k[u]
  BY DEF GroupState
<1> HIDE DEF k2
<1>2. \A u \in Suffixes : Shrinks(k[u], k2[u])
  BY <1>1 DEF Shrinks
<1>3. \A seen : Covers(seen, k) => Covers(seen, k2)
  BY <1>2 DEF Covers, Shrinks
<1>4. ASSUME NEW r, CleanFits(r, k)
      PROVE  CleanFits(r, k2)
  <2>1. Covers(r.seen, k2)
    BY <1>3, <1>4 DEF CleanFits
  <2>2. ASSUME r.op = "destroy"
        PROVE  /\ \A u \in After(r.on) : k2[u] = Absent
               /\ \A u \in Suffixes : ~Publishes(k2[u])
    <3>1. After(r.on) \subseteq Suffixes
      BY DEF After
    <3> QED BY <1>2, <1>4, <2>2, <3>1 DEF CleanFits, Shrinks
  <2> QED BY <2>1, <2>2 DEF CleanFits
<1> QED BY <1>3, <1>4 DEF k2

\* A group of which one stack changes so keeps its order, and what a release
\* that may create relies on.
LEMMA StayKeeps ==
  ASSUME NEW k \in GroupState, NEW s \in Suffixes, NEW x \in StackState, Stays(k[s], x)
  PROVE  /\ Ordered(k) => Ordered([k EXCEPT ![s] = x])
         /\ \A r : BuildFits(r, k) => BuildFits(r, [k EXCEPT ![s] = x])
<1> DEFINE k2 == [k EXCEPT ![s] = x]
<1>1. k2[s] = x /\ \A u \in Suffixes : u # s => k2[u] = k[u]
  BY DEF GroupState
<1> HIDE DEF k2
<1>2. \A u \in Suffixes : Stays(k[u], k2[u])
  BY <1>1 DEF Stays
<1>3. \A t, u \in Suffixes : u \in Before(t) <=> t \in After(u)
  BY Places
<1>4. \A t : Before(t) \subseteq Suffixes /\ After(t) \subseteq Suffixes
  BY DEF Before, After
<1>5. ASSUME Ordered(k), NEW t \in Suffixes
      PROVE  /\ k2[t] # Absent => \A u \in Before(t) : k2[u] # Absent
             /\ k2[t].status = "DELETING" => \A u \in After(t) : k2[u] = Absent
  <2>1. ASSUME k2[t] # Absent, NEW u \in Before(t), k2[u] = Absent
        PROVE  FALSE
    <3>1. u \in Suffixes /\ t \in After(u)
      BY <1>3, <1>4, <2>1
    <3>2. k[t] # Absent
      BY <1>2, <2>1 DEF Stays
    <3>3. k[u] # Absent
      BY <1>5, <2>1, <3>2 DEF Ordered
    <3>4. k[u].status = "DELETING"
      BY <1>2, <2>1, <3>1, <3>3 DEF Stays
    <3> QED BY <1>5, <3>1, <3>2, <3>4 DEF Ordered
  <2>2. ASSUME k2[t].status = "DELETING", NEW u \in After(t)
        PROVE  k2[u] = Absent
    BY <1>2, <1>4, <1>5, <2>2 DEF Ordered, Stays
  <2> QED BY <2>1, <2>2
<1>6. ASSUME NEW r, BuildFits(r, k)
      PROVE  BuildFits(r, k2)
  <2>1. Before(r.on) \subseteq Suffixes
    BY <1>4
  <2> QED BY <1>2, <1>6, <2>1 DEF BuildFits, Stays
<1> QED BY <1>5, <1>6 DEF k2, Ordered

\* A deletion that begins with nothing after it keeps the order.
LEMMA DeletionKeepsOrder ==
  ASSUME NEW k \in GroupState, NEW s \in Suffixes, NEW x \in StackState,
         Ordered(k), Shrinks(k[s], x), x # Absent, \A u \in After(s) : k[u] = Absent
  PROVE  Ordered([k EXCEPT ![s] = x])
<1> DEFINE k2 == [k EXCEPT ![s] = x]
<1>1. k2[s] = x /\ \A u \in Suffixes : u # s => k2[u] = k[u]
  BY DEF GroupState
<1> HIDE DEF k2
<1>2. \A t, u \in Suffixes : u \in Before(t) <=> t \in After(u)
  BY Places
<1>3. \A t : Before(t) \subseteq Suffixes /\ After(t) \subseteq Suffixes
  BY DEF Before, After
<1>4. \A u \in Suffixes : k2[u] = Absent <=> k[u] = Absent
  BY <1>1 DEF Shrinks
<1>5. \A t \in Suffixes : k2[t] # Absent => \A u \in Before(t) : k2[u] # Absent
  BY <1>3, <1>4 DEF Ordered
<1>6. \A t \in Suffixes : k2[t].status = "DELETING" => \A u \in After(t) : k2[u] = Absent
  BY <1>1, <1>3, <1>4 DEF Ordered
<1> QED BY <1>5, <1>6 DEF k2, Ordered

\* So does a creation after all that comes before it.
LEMMA CreationKeepsOrder ==
  ASSUME NEW k \in GroupState, NEW s \in Suffixes, NEW x \in StackState, Ordered(k),
         k[s] = Absent, x # Absent, x.status # "DELETING",
         \A u \in Suffixes : k[u].status # "DELETING", \A u \in Before(s) : k[u] # Absent
  PROVE  Ordered([k EXCEPT ![s] = x])
<1> DEFINE k2 == [k EXCEPT ![s] = x]
<1>1. k2[s] = x /\ \A u \in Suffixes : u # s => k2[u] = k[u]
  BY DEF GroupState
<1> HIDE DEF k2
<1>2. \A t \in Suffixes : k2[t].status # "DELETING"
  BY <1>1
<1>3. ASSUME NEW t \in Suffixes, k2[t] # Absent, NEW u \in Before(t)
      PROVE  k2[u] # Absent
  <2>1. u \in Suffixes
    BY DEF Before
  <2>2. CASE u = s
    BY <1>1, <2>2
  <2>3. CASE u # s /\ t = s
    BY <1>1, <1>3, <2>1, <2>3
  <2>4. CASE u # s /\ t # s
    BY <1>1, <1>3, <2>1, <2>4 DEF Ordered
  <2> QED BY <2>2, <2>3, <2>4
<1> QED BY <1>2, <1>3 DEF k2, Ordered

-----------------------------------------------------------------------------
(* The steps, by what they change                                          *)

\* A step that changes one stack.
Sets(g, s, x) == stack' = [stack EXCEPT ![g] = [stack[g] EXCEPT ![s] = x]]

\* What it leaves.
Leaves(g, s, x) ==
  /\ stack[g] \in GroupState
  /\ [stack[g] EXCEPT ![s] = x] \in GroupState
  /\ [stack[g] EXCEPT ![s] = x][s] = x
  /\ stack' \in [Groups -> GroupState]
  /\ stack'[g] = [stack[g] EXCEPT ![s] = x]
  /\ \A h \in Groups : h # g => stack'[h] = stack[h]
  /\ \A h \in Groups, u \in Suffixes : h # g \/ u # s => stack'[h][u] = stack[h][u]

\* And that is all it changes of the stacks.
LEMMA StackChange ==
  ASSUME TypeOK, NEW g \in Groups, NEW s \in Suffixes, NEW x \in StackState, Sets(g, s, x)
  PROVE  Leaves(g, s, x)
<1>1. stack \in [Groups -> GroupState] /\ stack[g] \in GroupState
  BY DEF TypeOK
<1>2. [stack[g] EXCEPT ![s] = x] \in GroupState /\ [stack[g] EXCEPT ![s] = x][s] = x
  BY <1>1 DEF GroupState
<1>3. \A u \in Suffixes : u # s => [stack[g] EXCEPT ![s] = x][u] = stack[g][u]
  BY <1>1 DEF GroupState
<1> DEFINE k2 == [stack[g] EXCEPT ![s] = x]
<1>4. k2 \in GroupState /\ k2[s] = x /\ \A u \in Suffixes : u # s => k2[u] = stack[g][u]
  BY <1>2, <1>3
<1>5. stack' = [stack EXCEPT ![g] = k2]
  BY DEF Sets
<1> HIDE DEF k2
<1>6. /\ stack' \in [Groups -> GroupState] /\ stack'[g] = k2
      /\ \A h \in Groups : h # g => stack'[h] = stack[h]
  BY <1>1, <1>4, <1>5
<1>7. \A h \in Groups, u \in Suffixes : h # g \/ u # s => stack'[h][u] = stack[h][u]
  <2> SUFFICES ASSUME NEW h \in Groups, NEW u \in Suffixes, h # g \/ u # s
               PROVE  stack'[h][u] = stack[h][u]
    OBVIOUS
  <2> QED BY <1>4, <1>6
<1> QED BY <1>1, <1>2, <1>6, <1>7 DEF k2, Leaves

\* A step of one release that leaves the stacks alone.
LEMMA ReleaseMoves ==
  ASSUME Inv, NEW g \in Groups, NEW r \in ReleaseState,
         release' = [release EXCEPT ![g] = r], UNCHANGED <<stack, expired, late, run>>,
         faults' \in 0 .. MaxFaults, ReleaseFits(g, r, stack[g])
  PROVE  Inv'
<1>1. release \in [Groups -> ReleaseState]
  BY DEF Inv, TypeOK
<1>2. /\ release' \in [Groups -> ReleaseState] /\ release'[g] = r
      /\ \A h \in Groups : h # g => release'[h] = release[h]
  BY <1>1
<1>3. TypeOK'
  BY <1>2 DEF Inv, TypeOK
<1>4. ReleaseInv'
  BY <1>2 DEF Inv, ReleaseInv, ReleaseFits
<1>5. PublicInv' /\ OrderInv'
  BY DEF Inv, PublicInv, OrderInv
<1>6. RunInv'
  BY DEF Inv, RunInv, RunFits, Exists
<1> QED BY <1>3, <1>4, <1>5, <1>6 DEF Inv

\* A step that changes one stack.
LEMMA StackMoves ==
  ASSUME Inv, NEW g \in Groups, NEW s \in Suffixes, NEW x \in StackState,
         NEW r \in ReleaseState, release' = [release EXCEPT ![g] = r],
         Sets(g, s, x),
         UNCHANGED <<expired, late>>, faults' \in 0 .. MaxFaults, run' \in RunState,
         Publishes(x) => s \in Public,
         ReleaseFits(g, r, [stack[g] EXCEPT ![s] = x]),
         g \notin late => Ordered([stack[g] EXCEPT ![s] = x]),
         RunInv'
  PROVE  Inv'
<1> DEFINE k2 == [stack[g] EXCEPT ![s] = x]
<1>0. TypeOK /\ release \in [Groups -> ReleaseState]
  BY DEF Inv, TypeOK
<1>1. /\ stack' \in [Groups -> GroupState] /\ stack'[g] = k2 /\ k2[s] = x
      /\ \A h \in Groups : h # g => stack'[h] = stack[h]
      /\ \A h \in Groups, u \in Suffixes : h # g \/ u # s => stack'[h][u] = stack[h][u]
  BY <1>0, StackChange DEF Leaves
<1>2. ReleaseFits(g, r, k2) /\ (g \notin late => Ordered(k2))
  OBVIOUS
<1> HIDE DEF k2
<1>3. /\ release' \in [Groups -> ReleaseState] /\ release'[g] = r
      /\ \A h \in Groups : h # g => release'[h] = release[h]
  BY <1>0
<1>4. ASSUME NEW h \in Groups, NEW u \in Suffixes
      PROVE  /\ stack'[h][u].published => u \in Public
             /\ Publishes(stack'[h][u]) => u \in Public
  <2>1. CASE h = g /\ u = s
    BY <1>1, <2>1 DEF Publishes
  <2>2. CASE h # g \/ u # s
    BY <1>1, <2>2 DEF Inv, PublicInv, Publishes
  <2> QED BY <2>1, <2>2
<1>5. TypeOK'
  BY <1>0, <1>1, <1>3, <1>4 DEF TypeOK
<1>6. PublicInv'
  BY <1>4 DEF PublicInv, Publishes
<1>7. ReleaseInv'
  <2> SUFFICES ASSUME NEW h \in Groups
               PROVE  ReleaseFits(h, release[h], stack[h])'
    BY DEF ReleaseInv
  <2>1. CASE h = g
    BY <1>1, <1>2, <1>3, <2>1 DEF ReleaseFits
  <2>2. CASE h # g
    BY <1>1, <1>3, <2>2 DEF Inv, ReleaseInv, ReleaseFits
  <2> QED BY <2>1, <2>2
<1>8. OrderInv'
  <2> SUFFICES ASSUME NEW h \in Groups \ late
               PROVE  Ordered(stack'[h])
    BY DEF OrderInv
  <2>1. CASE h = g
    BY <1>1, <1>2, <2>1
  <2>2. CASE h # g
    BY <1>1, <2>2 DEF Inv, OrderInv
  <2> QED BY <2>1, <2>2
<1> QED BY <1>5, <1>6, <1>7, <1>8 DEF Inv

\* What the watchdog has read of the other groups, and of one that shrinks,
\* bounds them as before.
LEMMA RunFitsStay ==
  ASSUME Inv, NEW g \in Groups, NEW s \in Suffixes, NEW x \in StackState,
         Sets(g, s, x),
         UNCHANGED late, g \in run.plan \ late => Shrinks(stack[g][s], x)
  PROVE  \A h \in run.plan \ late :
           /\ run.at = "listed" => \A u \in Suffixes : Exists(h, u)' => <<h, u>> \in run.listed
           /\ run.at \in Acting => Covers(run.copy[h], stack'[h])
<1> SUFFICES ASSUME NEW h \in run.plan \ late
             PROVE  /\ run.at = "listed" =>
                         \A u \in Suffixes : Exists(h, u)' => <<h, u>> \in run.listed
                    /\ run.at \in Acting => Covers(run.copy[h], stack'[h])
  OBVIOUS
<1>0. TypeOK /\ h \in Groups /\ RunFits(h)
  BY DEF Inv, TypeOK, RunState, RunInv
<1>1. /\ stack[g] \in GroupState /\ stack'[g] = [stack[g] EXCEPT ![s] = x]
      /\ [stack[g] EXCEPT ![s] = x][s] = x
      /\ \A f \in Groups : f # g => stack'[f] = stack[f]
      /\ \A f \in Groups, u \in Suffixes : f # g \/ u # s => stack'[f][u] = stack[f][u]
  BY <1>0, StackChange DEF Leaves
<1>2. ASSUME run.at = "listed", NEW u \in Suffixes, Exists(h, u)'
      PROVE  <<h, u>> \in run.listed
  <2>1. CASE h = g /\ u = s
    <3>1. stack'[g][s] = x /\ stack'[g][s] # Absent
      BY <1>1, <1>2, <2>1 DEF Exists
    <3>2. Exists(g, s)
      BY <2>1, <3>1 DEF Exists, Shrinks
    <3> QED BY <1>0, <1>2, <2>1, <3>2 DEF RunFits
  <2>2. CASE h # g \/ u # s
    BY <1>0, <1>1, <1>2, <2>2 DEF RunFits, Exists
  <2> QED BY <2>1, <2>2
<1>3. ASSUME run.at \in Acting
      PROVE  Covers(run.copy[h], stack'[h])
  <2>1. CASE h = g
    <3>1. Shrinks(stack[g][s], x)
      BY <2>1
    <3>2. Covers(run.copy[g], stack[g])
      BY <1>0, <1>3, <2>1 DEF RunFits
    <3> QED BY <1>1, <2>1, <3>1, <3>2, ShrinkKeeps
  <2>2. CASE h # g
    BY <1>0, <1>1, <1>3, <2>2 DEF RunFits
  <2> QED BY <2>1, <2>2
<1> QED BY <1>2, <1>3

\* So a step that leaves the watchdog where it is keeps what it relies on.
LEMMA RunStays ==
  ASSUME Inv, NEW g \in Groups, NEW s \in Suffixes, NEW x \in StackState,
         Sets(g, s, x),
         UNCHANGED <<expired, late, run>>, g \in run.plan \ late => Shrinks(stack[g][s], x)
  PROVE  RunInv'
<1>1. \A h \in run.plan \ late :
        /\ run.at = "listed" => \A u \in Suffixes : Exists(h, u)' => <<h, u>> \in run.listed
        /\ run.at \in Acting => Covers(run.copy[h], stack'[h])
  BY RunFitsStay
<1>2. \A h \in run.plan \ late : RunFits(h)'
  BY <1>1 DEF RunFits
<1> QED BY <1>2 DEF Inv, RunInv

-----------------------------------------------------------------------------
(* CloudFormation and the clock                                            *)

\* What an operation makes of a stack, as it ends or fails.
Completed(k) ==
  CASE k.status = "DELETING" -> Absent
    [] k.status = "CREATING" -> Settled("COMPLETE", FALSE, FALSE)
    [] k.status = "UPDATING" -> Settled("COMPLETE", k.to[1], k.to[2])

RolledBack(k) ==
  CASE k.status = "DELETING" -> Settled("DELETE_FAILED", k.marked, k.published)
    [] k.status = "CREATING" -> Settled("NOT_CREATED", FALSE, FALSE)
    [] k.status = "UPDATING" -> Settled("NOT_UPDATED", k.marked, k.published)

\* The fields of a stack at rest.
LEMMA SettledIs ==
  ASSUME NEW status \in StableStatuses \cup {"DELETE_FAILED"},
         NEW marked \in BOOLEAN, NEW published \in BOOLEAN
  PROVE  /\ Settled(status, marked, published) \in StackState
         /\ Settled(status, marked, published).status = status
         /\ Settled(status, marked, published).published = published
<1>1. <<marked, published>> \in BOOLEAN \X BOOLEAN
  OBVIOUS
<1> QED BY <1>1, StackIs DEF Settled

\* An operation that ends leaves no more than there was.
LEMMA OperationWanes ==
  ASSUME NEW k \in StackState, k.status \in InProgress
  PROVE  /\ Completed(k) \in StackState /\ Wanes(k, Completed(k))
         /\ RolledBack(k) \in StackState /\ Wanes(k, RolledBack(k))
<1>1. k # Absent /\ Absent.status = "ABSENT" /\ Absent \in StackState /\ ~Publishes(Absent)
  BY AbsentIs DEF InProgress
<1>2. /\ k.marked \in BOOLEAN /\ k.published \in BOOLEAN
      /\ k.to[1] \in BOOLEAN /\ k.to[2] \in BOOLEAN
  BY DEF StackState
<1>3. CASE k.status = "DELETING"
  <2>1. Completed(k) = Absent /\ RolledBack(k) = Settled("DELETE_FAILED", k.marked, k.published)
    BY <1>3 DEF Completed, RolledBack
  <2>2. /\ RolledBack(k) \in StackState /\ RolledBack(k).status = "DELETE_FAILED"
        /\ RolledBack(k).published = k.published
    BY <1>2, <2>1, SettledIs
  <2> HIDE DEF RolledBack
  <2> QED BY <1>1, <1>3, <2>1, <2>2 DEF Wanes, Stays, Shrinks, Publishes
<1>4. CASE k.status = "CREATING"
  <2>1. /\ Completed(k) = Settled("COMPLETE", FALSE, FALSE)
        /\ RolledBack(k) = Settled("NOT_CREATED", FALSE, FALSE)
    BY <1>4 DEF Completed, RolledBack
  <2>2. /\ RolledBack(k) \in StackState /\ RolledBack(k).status = "NOT_CREATED"
        /\ RolledBack(k).published = FALSE
    BY <2>1, SettledIs DEF StableStatuses
  <2>3. /\ Completed(k) \in StackState /\ Completed(k).status = "COMPLETE"
        /\ Completed(k).published = FALSE
    BY <2>1, SettledIs DEF StableStatuses
  <2> QED BY <1>1, <1>4, <2>2, <2>3 DEF Wanes, Stays, Shrinks, Publishes
<1>5. CASE k.status = "UPDATING"
  <2>1. /\ Completed(k) = Settled("COMPLETE", k.to[1], k.to[2])
        /\ RolledBack(k) = Settled("NOT_UPDATED", k.marked, k.published)
    BY <1>5 DEF Completed, RolledBack
  <2>2. /\ RolledBack(k) \in StackState /\ RolledBack(k).status = "NOT_UPDATED"
        /\ RolledBack(k).published = k.published
    BY <1>2, <2>1, SettledIs DEF StableStatuses
  <2>3. /\ Completed(k) \in StackState /\ Completed(k).status = "COMPLETE"
        /\ Completed(k).published = k.to[2]
    BY <1>2, <2>1, SettledIs DEF StableStatuses
  <2> QED BY <1>1, <1>5, <2>2, <2>3 DEF Wanes, Stays, Shrinks, Publishes
<1> QED BY <1>3, <1>4, <1>5 DEF InProgress

\* A release fits a group of which a stack wanes as it did before.
LEMMA FitsAfterWaning ==
  ASSUME NEW g \in Groups, NEW k \in GroupState, NEW s \in Suffixes, NEW x \in StackState,
         Wanes(k[s], x), NEW r, ReleaseFits(g, r, k)
  PROVE  ReleaseFits(g, r, [k EXCEPT ![s] = x])
<1>1. BuildFits(r, k) => BuildFits(r, [k EXCEPT ![s] = x])
  BY StayKeeps DEF Wanes
<1>2. CleanFits(r, k) => CleanFits(r, [k EXCEPT ![s] = x])
  BY ShrinkKeeps DEF Wanes
<1> QED BY <1>1, <1>2 DEF ReleaseFits

\* A stack that wanes by itself keeps the invariant.
LEMMA WaningKeepsInv ==
  ASSUME Inv, NEW g \in Groups, NEW s \in Suffixes, NEW x \in StackState,
         Sets(g, s, x), Wanes(stack[g][s], x),
         UNCHANGED <<expired, release, late, run>>, faults' \in 0 .. MaxFaults
  PROVE  Inv'
<1>1. /\ TypeOK /\ release \in [Groups -> ReleaseState] /\ run \in RunState
      /\ stack[g] \in GroupState
  BY DEF Inv, TypeOK
<1>2. release[g] \in ReleaseState /\ release' = [release EXCEPT ![g] = release[g]]
  BY <1>1
<1>3. ReleaseFits(g, release[g], [stack[g] EXCEPT ![s] = x])
  BY <1>1, FitsAfterWaning DEF Inv, ReleaseInv
<1>4. g \notin late => Ordered([stack[g] EXCEPT ![s] = x])
  BY <1>1, StayKeeps DEF Inv, OrderInv, Wanes
<1>5. Publishes(x) => s \in Public
  BY DEF Inv, PublicInv, Wanes, Shrinks
<1>6. RunInv'
  BY RunStays DEF Wanes
<1> QED BY <1>1, <1>2, <1>3, <1>4, <1>5, <1>6, StackMoves

\* CloudFormation ends an operation, one way or the other.
LEMMA OperationKeepsInv ==
  ASSUME Inv, NEW g \in Groups, NEW s \in Suffixes, OperationEnds(g, s) \/ OperationFails(g, s)
  PROVE  Inv'
<1>1. TypeOK /\ faults \in 0 .. MaxFaults /\ MaxFaults \in Nat
  BY CleanupAssumption DEF Inv, TypeOK
<1>2. stack \in [Groups -> GroupState] /\ stack[g][s] \in StackState
  BY <1>1 DEF TypeOK, GroupState
<1>3. CASE OperationEnds(g, s)
  <2>1. stack[g][s].status \in InProgress /\ UNCHANGED <<expired, release, late, run, faults>>
    BY <1>3 DEF OperationEnds
  <2>2. Sets(g, s, Completed(stack[g][s]))
    BY <1>3 DEF OperationEnds, Completed, Sets
  <2> QED BY <1>1, <1>2, <2>1, <2>2, OperationWanes, WaningKeepsInv
<1>4. CASE OperationFails(g, s)
  <2>1. /\ stack[g][s].status \in InProgress /\ UNCHANGED <<expired, release, late, run>>
        /\ faults < MaxFaults /\ faults' = faults + 1
    BY <1>4 DEF OperationFails
  <2>2. Sets(g, s, RolledBack(stack[g][s]))
    BY <1>4 DEF OperationFails, RolledBack, Sets
  <2>3. faults' \in 0 .. MaxFaults
    BY <1>1, <2>1
  <2> QED BY <1>1, <1>2, <2>1, <2>2, <2>3, OperationWanes, WaningKeepsInv
<1> QED BY <1>3, <1>4

\* A group whose release is at work when it expires is late; of the others no
\* release works any more.
LEMMA ExpireKeepsInv ==
  ASSUME Inv, NEW g \in Groups, Expire(g)
  PROVE  Inv'
<1>1. /\ g \notin expired /\ expired' = expired \cup {g}
      /\ late \subseteq late' /\ late' \subseteq late \cup {g}
      /\ Working(release[g]) => g \in late'
      /\ UNCHANGED <<stack, release, run, faults>>
  BY DEF Expire, Working
<1>2. late \subseteq expired /\ expired \subseteq Groups
  BY DEF Inv, TypeOK
<1>3. TypeOK' /\ PublicInv'
  BY <1>1, <1>2 DEF Inv, TypeOK, PublicInv
<1>4. ReleaseInv'
  BY <1>1 DEF Inv, ReleaseInv, ReleaseFits
<1>5. OrderInv'
  BY <1>1 DEF Inv, OrderInv
<1>6. RunInv'
  BY <1>1, <1>2 DEF Inv, RunInv, RunFits, Exists
<1> QED BY <1>3, <1>4, <1>5, <1>6 DEF Inv

-----------------------------------------------------------------------------
(* The release workflow, where it leaves the stacks alone                  *)

\* Nothing has been read at first.
LEMMA NothingIs == Nothing \in GroupState
  BY AbsentIs DEF Nothing, GroupState

\* Where a release is between its calls.
LEMMA StatesAre ==
  /\ Ready \in ReleaseState /\ Ready.at = "ready" /\ Ready.op = "none"
  /\ Failed \in ReleaseState /\ Failed.at = "failed" /\ Failed.op = "none"
  /\ Ended \in ReleaseState /\ Ended.at = "ended" /\ Ended.op = "none"
  /\ Restoring \in ReleaseState /\ Restoring.at = "restoring" /\ Restoring.op = "none"
<1>1. Ready \in ReleaseState /\ Ready.at = "ready" /\ Ready.op = "none"
  BY NothingIs DEF Ready, ReleaseState, WindowOps
<1> QED BY <1>1 DEF Failed, Ended, Restoring, ReleaseState

\* What is left of a compensation.
LEMMA RestIs ==
  ASSUME NEW left \in SUBSET Public
  PROVE  /\ Rest(left) \in ReleaseState /\ Rest(left).op = "none"
         /\ Rest(left).at \in {"failed", "restoring"}
<1>1. CASE left = {}
  BY <1>1, StatesAre DEF Rest
<1>2. CASE left # {}
  BY <1>2, StatesAre DEF Rest, ReleaseState
<1> QED BY <1>1, <1>2

\* Where a release rests it fits, if it could create before.
LEMMA FitsAtRest ==
  ASSUME NEW g \in Groups, NEW k, NEW q, ReleaseFits(g, q, k),
         NEW r, r.op = "none", r.at \notin {"call", "wait", "cleaning"},
         Building(r) => Building(q), g \in expired \ late => ~Working(r)
  PROVE  ReleaseFits(g, r, k)
  BY DEF ReleaseFits, StepFits, BuildFits, Cleaning

\* A release about to call has the operation and its stack from the step.
CallOf(q, op, s) == [q EXCEPT !.at = "call", !.op = op, !.on = s]

\* The fields of a release about to call.
LEMMA CallIs ==
  ASSUME NEW q \in ReleaseState, NEW op \in WindowOps \cup {"disable", "destroy"},
         NEW s \in Suffixes
  PROVE  /\ CallOf(q, op, s) \in ReleaseState /\ CallOf(q, op, s).at = "call"
         /\ CallOf(q, op, s).op = op /\ CallOf(q, op, s).on = s
         /\ CallOf(q, op, s).seen = q.seen /\ op # "none"
  BY DEF CallOf, ReleaseState, WindowOps

\* Where a release and its group stand.
LEMMA ReleaseTypes ==
  ASSUME Inv, NEW g \in Groups
  PROVE  /\ release[g] \in ReleaseState /\ release[g].left \in SUBSET Public
         /\ release[g].seen \in GroupState
         /\ stack[g] \in GroupState /\ \A s \in Suffixes : stack[g][s] \in StackState
         /\ ReleaseFits(g, release[g], stack[g])
         /\ faults \in 0 .. MaxFaults
<1>1. /\ release[g] \in ReleaseState /\ stack[g] \in GroupState /\ faults \in 0 .. MaxFaults
      /\ ReleaseFits(g, release[g], stack[g])
  BY DEF Inv, TypeOK, ReleaseInv
<1> QED BY <1>1 DEF ReleaseState, GroupState

\* The next stack is deployed.
LEMMA DeployKeepsInv ==
  ASSUME Inv, NEW g \in Groups, NEW s \in Suffixes, DeployStack(g, s)
  PROVE  Inv'
<1> DEFINE r == CallOf(release[g], "create", s)
<1>1. /\ release[g].at = "ready" /\ g \notin expired
      /\ \A i \in 1 .. Position(s) - 1 : stack[g][Order[i]].status = "COMPLETE"
      /\ release' = [release EXCEPT ![g] = r]
      /\ UNCHANGED <<stack, expired, late, run, faults>>
  BY DEF DeployStack, Calls, CallOf
<1>2. /\ release[g] \in ReleaseState /\ ReleaseFits(g, release[g], stack[g])
      /\ faults \in 0 .. MaxFaults
  BY ReleaseTypes
<1>3. /\ r \in ReleaseState /\ r.at = "call" /\ r.op = "create" /\ r.on = s
  BY <1>2, CallIs DEF WindowOps
<1> HIDE DEF r
<1>4. \A u \in Suffixes : stack[g][u].status # "DELETING"
  BY <1>1, <1>2 DEF ReleaseFits, Building, BuildFits
<1>5. \A u \in Before(s) : stack[g][u] # Absent
  <2> TAKE u \in Before(s)
  <2>1. PICK i \in 1 .. Position(s) - 1 : u = Order[i]
    BY Places
  <2> QED BY <1>1, <2>1, AbsentIs
<1>6. BuildFits(r, stack[g])
  BY <1>3, <1>4, <1>5 DEF BuildFits
<1>7. ReleaseFits(g, r, stack[g])
  BY <1>1, <1>3, <1>6 DEF ReleaseFits, StepFits, Cleaning
<1> QED BY <1>1, <1>2, <1>3, <1>7, ReleaseMoves

\* An activation begins.
LEMMA ActivateKeepsInv ==
  ASSUME Inv, NEW g \in Groups, Activate(g)
  PROVE  Inv'
<1> DEFINE r == [Ready EXCEPT !.at = "activating", !.seen = stack[g]]
<1>1. /\ release[g].at = "ready" /\ g \notin expired
      /\ release' = [release EXCEPT ![g] = r]
      /\ UNCHANGED <<stack, expired, late, run, faults>>
  BY DEF Activate
<1>2. /\ ReleaseFits(g, release[g], stack[g]) /\ stack[g] \in GroupState
      /\ faults \in 0 .. MaxFaults
  BY ReleaseTypes
<1>3. r \in ReleaseState /\ r.at = "activating" /\ r.op = "none"
  BY <1>2, StatesAre DEF ReleaseState
<1> HIDE DEF r
<1>4. ReleaseFits(g, r, stack[g])
  BY <1>1, <1>2, <1>3, FitsAtRest DEF Building
<1> QED BY <1>1, <1>2, <1>3, <1>4, ReleaseMoves

\* A release that works calls for something that only the window allows.
LEMMA WorkFits ==
  ASSUME NEW g \in Groups, NEW k, NEW q, ReleaseFits(g, q, k), Working(q),
         NEW r, r.at = "call", r.op \in {"enable", "restore"}, r.on \in Public
  PROVE  ReleaseFits(g, r, k)
<1>1. r.on \in Suffixes
  BY DEF Public, Suffixes
<1> QED BY <1>1 DEF ReleaseFits, StepFits, BuildFits, Cleaning, Building

\* An activation publishes a stack, or begins to compensate.
LEMMA ActivationStepKeepsInv ==
  ASSUME Inv, NEW g \in Groups, ActivationStep(g)
  PROVE  Inv'
<1> DEFINE on == IF "api" \in Published(release[g].seen) THEN "web" ELSE "api"
           r == CallOf(release[g], "enable", on)
<1>1. /\ release[g].at = "activating" /\ UNCHANGED <<stack, expired, late, run, faults>>
      /\ \/ release' = [release EXCEPT ![g] = r]
         \/ release' = [release EXCEPT ![g] = Restoring]
  BY DEF ActivationStep, Calls, CallOf
<1>2. /\ release[g] \in ReleaseState /\ ReleaseFits(g, release[g], stack[g])
      /\ faults \in 0 .. MaxFaults
  BY ReleaseTypes
<1>3. on \in Public /\ on \in Suffixes
  BY DEF Public, Suffixes
<1> HIDE DEF on
<1>4. r \in ReleaseState /\ r.at = "call" /\ r.op = "enable" /\ r.on = on
  BY <1>2, <1>3, CallIs DEF WindowOps
<1> HIDE DEF r
<1>5. Working(release[g])
  BY <1>1 DEF Working
<1>6. ReleaseFits(g, r, stack[g])
  BY <1>2, <1>3, <1>4, <1>5, WorkFits
<1>7. ReleaseFits(g, Restoring, stack[g])
  BY <1>2, <1>5, StatesAre, FitsAtRest DEF Building, ReleaseFits
<1> QED BY <1>1, <1>2, <1>4, <1>6, <1>7, StatesAre, ReleaseMoves

\* A compensation unpublishes a stack, or passes it over.
LEMMA RestoreStepKeepsInv ==
  ASSUME Inv, NEW g \in Groups, RestoreStep(g)
  PROVE  Inv'
<1> DEFINE on == IF "web" \in release[g].left THEN "web" ELSE "api"
           next == Rest(release[g].left \ {on})
           r == CallOf(next, "restore", on)
<1>1. /\ release[g].at = "restoring" /\ UNCHANGED <<stack, expired, late, run, faults>>
      /\ \/ release' = [release EXCEPT ![g] = r]
         \/ release' = [release EXCEPT ![g] = next]
  BY DEF RestoreStep, CallOf
<1>2. /\ release[g].left \in SUBSET Public /\ ReleaseFits(g, release[g], stack[g])
      /\ faults \in 0 .. MaxFaults
  BY ReleaseTypes
<1>3. on \in Public /\ on \in Suffixes
  BY DEF Public, Suffixes
<1>4. next \in ReleaseState /\ next.op = "none" /\ next.at \in {"failed", "restoring"}
  <2>1. release[g].left \ {on} \in SUBSET Public
    BY <1>2
  <2> QED BY <2>1, RestIs
<1> HIDE DEF next, on
<1>5. r \in ReleaseState /\ r.at = "call" /\ r.op = "restore" /\ r.on = on
  BY <1>3, <1>4, CallIs DEF WindowOps
<1> HIDE DEF r
<1>6. Working(release[g])
  BY <1>1 DEF Working
<1>7. ReleaseFits(g, r, stack[g])
  BY <1>2, <1>3, <1>5, <1>6, WorkFits
<1>8. ReleaseFits(g, next, stack[g])
  BY <1>2, <1>4, <1>6, FitsAtRest DEF Building, ReleaseFits
<1> QED BY <1>1, <1>2, <1>4, <1>5, <1>7, <1>8, ReleaseMoves

\* A stack at rest is published or not.
LEMMA AtRest ==
  ASSUME NEW k \in StackState, k.status \notin InProgress, Publishes(k)
  PROVE  k.published
  BY DEF Publishes, InProgress

\* The mandatory cleanup begins with what is there.
LEMMA CleanupKeepsInv ==
  ASSUME Inv, NEW g \in Groups, CleanupRelease(g)
  PROVE  Inv'
<1> DEFINE r == [Ready EXCEPT !.at = "cleaning", !.seen = stack[g]]
<1>1. /\ release[g].at \in {"ready", "failed"}
      /\ UNCHANGED <<stack, expired, late, run, faults>>
      /\ release' = [release EXCEPT ![g] =
           IF \A s \in Present(g) : AsReleased(stack[g][s]) THEN r ELSE Ended]
  BY DEF CleanupRelease
<1>2. /\ ReleaseFits(g, release[g], stack[g]) /\ stack[g] \in GroupState
      /\ \A s \in Suffixes : stack[g][s] \in StackState
      /\ faults \in 0 .. MaxFaults
  BY ReleaseTypes
<1>3. r \in ReleaseState /\ r.at = "cleaning" /\ r.op = "none" /\ r.seen = stack[g]
  BY <1>2, StatesAre DEF ReleaseState
<1> HIDE DEF r
<1>4. CASE \A s \in Present(g) : AsReleased(stack[g][s])
  <2>1. Covers(stack[g], stack[g])
    <3> SUFFICES ASSUME NEW s \in Suffixes, Publishes(stack[g][s])
                 PROVE  stack[g][s].published
      BY DEF Covers
    <3>1. stack[g][s] # Absent
      BY AbsentIs
    <3>2. stack[g][s].status = "COMPLETE"
      BY <1>4, <3>1 DEF Present, Exists, AsReleased
    <3> QED BY <3>2 DEF Publishes
  <2>2. ReleaseFits(g, r, stack[g])
    BY <1>1, <1>3, <2>1 DEF ReleaseFits, StepFits, Working, Building, Cleaning, CleanFits,
                            WindowOps
  <2>3. release' = [release EXCEPT ![g] = r]
    BY <1>1, <1>4
  <2> QED BY <1>1, <1>2, <1>3, <2>2, <2>3, ReleaseMoves
<1>5. CASE ~\A s \in Present(g) : AsReleased(stack[g][s])
  <2>1. ReleaseFits(g, Ended, stack[g])
    BY <1>2, StatesAre, FitsAtRest DEF Building, Working, WindowOps
  <2>2. release' = [release EXCEPT ![g] = Ended]
    BY <1>1, <1>5
  <2> QED BY <1>1, <1>2, <2>1, <2>2, StatesAre, ReleaseMoves
<1> QED BY <1>4, <1>5

\* It unpublishes, or deletes the last stack it has read, or gives up.
LEMMA CleanupStepKeepsInv ==
  ASSUME Inv, NEW g \in Groups, CleanupStep(g)
  PROVE  Inv'
<1> DEFINE seen == release[g].seen
           op == IF Published(seen) # {} THEN "disable" ELSE "destroy"
           on == LastOf(IF Published(seen) # {} THEN Published(seen) ELSE Existing(seen))
           r == CallOf(release[g], op, on)
<1>1. /\ release[g].at = "cleaning" /\ UNCHANGED <<stack, expired, late, run, faults>>
      /\ \/ release' = [release EXCEPT ![g] = Ended]
         \/ Existing(seen) # {} /\ release' = [release EXCEPT ![g] = r]
  BY DEF CleanupStep, Calls, CallOf
<1>2. /\ release[g] \in ReleaseState /\ ReleaseFits(g, release[g], stack[g])
      /\ seen \in GroupState /\ faults \in 0 .. MaxFaults
  BY ReleaseTypes
<1>3. ReleaseFits(g, Ended, stack[g])
  BY <1>2, StatesAre, FitsAtRest DEF Building, Working, WindowOps
<1>4. Covers(seen, stack[g])
  BY <1>1, <1>2 DEF ReleaseFits, Cleaning, CleanFits
<1>5. /\ Published(seen) \in SUBSET Suffixes /\ Published(seen) \subseteq Public
      /\ Existing(seen) \in SUBSET Suffixes
  BY DEF Published, Existing, Public, Suffixes
<1>6. ASSUME Existing(seen) # {}
      PROVE  r \in ReleaseState /\ ReleaseFits(g, r, stack[g])
  <2>1. CASE Published(seen) # {}
    <3>1. op = "disable" /\ on = LastOf(Published(seen))
      BY <2>1
    <3>2. on \in Public /\ on \in Suffixes
      BY <1>5, <2>1, <3>1, LastOfIs
    <3> HIDE DEF op, on
    <3>a. op \in WindowOps \cup {"disable", "destroy"} /\ op = "disable"
      BY <3>1
    <3>b. on \in Suffixes
      BY <3>2
    <3>3. r \in ReleaseState /\ r.at = "call" /\ r.op = "disable" /\ r.on = on /\ r.seen = seen
      BY <1>2, <3>a, <3>b, CallIs
    <3> HIDE DEF r, seen
    <3>4. ReleaseFits(g, r, stack[g])
      BY <1>4, <3>2, <3>3
         DEF ReleaseFits, StepFits, Working, Building, Cleaning, CleanFits, WindowOps
    <3> QED BY <3>3, <3>4
  <2>2. CASE Published(seen) = {}
    <3>1. op = "destroy" /\ on = LastOf(Existing(seen))
      BY <2>2
    <3>2. on \in Suffixes /\ \A u \in After(on) : u \notin Existing(seen)
      BY <1>5, <1>6, <3>1, LastOfIs
    <3> HIDE DEF op, on
    <3>3. r \in ReleaseState /\ r.at = "call" /\ r.op = "destroy" /\ r.on = on /\ r.seen = seen
      BY <1>2, <3>1, <3>2, CallIs
    <3> HIDE DEF r, seen
    <3>4. \A u \in After(on) : stack[g][u] = Absent
      BY <1>4, <3>2 DEF Covers, Existing, After
    <3>5. ASSUME NEW u \in Suffixes, Publishes(stack[g][u])
          PROVE  FALSE
      <4>1. u \in Public
        BY <3>5 DEF Inv, PublicInv
      <4>2. release[g].seen[u].published
        BY <1>4, <3>5 DEF Covers, seen
      <4> QED BY <2>2, <4>1, <4>2 DEF Published, seen
    <3>6. ReleaseFits(g, r, stack[g])
      BY <1>4, <3>2, <3>3, <3>4, <3>5
         DEF ReleaseFits, StepFits, Working, Building, Cleaning, CleanFits, WindowOps
    <3> QED BY <3>3, <3>6
  <2> QED BY <2>1, <2>2
<1> HIDE DEF r
<1>7. CASE release' = [release EXCEPT ![g] = Ended]
  BY <1>1, <1>2, <1>3, <1>7, StatesAre, ReleaseMoves
<1>8. CASE Existing(seen) # {} /\ release' = [release EXCEPT ![g] = r]
  BY <1>1, <1>2, <1>6, <1>8, ReleaseMoves
<1> QED BY <1>1, <1>7, <1>8

\* The workflow sees the end of what it asked for.
LEMMA WaitEndsKeepsInv ==
  ASSUME Inv, NEW g \in Groups, ReleaseWaitEnds(g)
  PROVE  Inv'
<1> DEFINE on == release[g].on
           k == stack[g][on]
           seen == [release[g].seen EXCEPT ![on] = k]
           active == [Ready EXCEPT !.at = "activating", !.seen = seen]
           clean == [Ready EXCEPT !.at = "cleaning", !.seen = seen]
<1>1. /\ release[g].at = "wait" /\ k.status \notin InProgress
      /\ UNCHANGED <<stack, expired, late, run, faults>>
  BY DEF ReleaseWaitEnds
<1>2. /\ release[g] \in ReleaseState /\ ReleaseFits(g, release[g], stack[g])
      /\ release[g].seen \in GroupState /\ faults \in 0 .. MaxFaults
      /\ release[g].left \in SUBSET Public
      /\ \A s \in Suffixes : stack[g][s] \in StackState
  BY ReleaseTypes
<1>3. /\ release[g].op \in {"create", "enable", "restore", "disable", "destroy"}
      /\ on \in Suffixes
  BY <1>1, <1>2 DEF ReleaseFits, StepFits, ReleaseState, WindowOps
<1>4. k \in StackState /\ seen \in GroupState
  BY <1>2, <1>3 DEF GroupState
<1>5. /\ seen[on] = k /\ \A u \in Suffixes : u # on => seen[u] = release[g].seen[u]
  BY <1>2, <1>3 DEF GroupState
<1>6. /\ active \in ReleaseState /\ active.at = "activating" /\ active.op = "none"
      /\ clean \in ReleaseState /\ clean.at = "cleaning" /\ clean.op = "none"
      /\ clean.seen = seen
  BY <1>4, StatesAre DEF ReleaseState
<1>7. \/ /\ release[g].op = "create"
         /\ \/ release' = [release EXCEPT ![g] = Ready]
            \/ release' = [release EXCEPT ![g] = Failed]
      \/ /\ release[g].op = "restore"
         /\ release' = [release EXCEPT ![g] = Rest(release[g].left)]
      \/ /\ release[g].op = "enable"
         /\ \/ release' = [release EXCEPT ![g] = Restoring]
            \/ release' = [release EXCEPT ![g] = Ready]
            \/ release' = [release EXCEPT ![g] = active]
      \/ /\ release[g].op \in {"disable", "destroy"}
         /\ \/ release' = [release EXCEPT ![g] = clean]
            \/ release' = [release EXCEPT ![g] = Ended]
  BY <1>3 DEF ReleaseWaitEnds
<1> HIDE DEF seen, active, clean
<1>8. /\ ReleaseFits(g, Ended, stack[g])
  BY <1>2, StatesAre, FitsAtRest DEF Building, Working, WindowOps
<1>9. ASSUME release[g].op \in WindowOps,
             NEW r \in {Ready, Failed, Restoring, active, Rest(release[g].left)}
      PROVE  r \in ReleaseState /\ ReleaseFits(g, r, stack[g])
  <2>1. Working(release[g]) /\ ~(g \in expired \ late)
    BY <1>2, <1>9 DEF Working, ReleaseFits
  <2>2. /\ r \in ReleaseState /\ r.op = "none" /\ r.at \notin {"call", "wait", "cleaning"}
    BY <1>2, <1>6, StatesAre, RestIs
  <2> QED BY <1>2, <2>1, <2>2, FitsAtRest DEF Building
<1>10. ASSUME release[g].op \in {"disable", "destroy"}
       PROVE  ReleaseFits(g, clean, stack[g])
  <2>1. Covers(release[g].seen, stack[g])
    BY <1>2, <1>10 DEF ReleaseFits, Cleaning, CleanFits
  <2>2. Publishes(k) => k.published
    BY <1>1, <1>4, AtRest
  <2>3. Covers(seen, stack[g])
    BY <1>5, <2>1, <2>2 DEF Covers
  <2> QED BY <1>6, <2>3
        DEF ReleaseFits, StepFits, Working, Building, Cleaning, CleanFits, WindowOps
<1>11. CASE release[g].op \in WindowOps
  <2>1. \E r \in {Ready, Failed, Restoring, active, Rest(release[g].left)} :
          release' = [release EXCEPT ![g] = r]
    BY <1>7, <1>11 DEF WindowOps
  <2> QED BY <1>1, <1>2, <1>9, <1>11, <2>1, ReleaseMoves
<1>12. CASE release[g].op \in {"disable", "destroy"}
  <2>1. \/ release' = [release EXCEPT ![g] = clean]
        \/ release' = [release EXCEPT ![g] = Ended]
    BY <1>7, <1>12
  <2> QED BY <1>1, <1>2, <1>6, <1>8, <1>10, <1>12, <2>1, StatesAre, ReleaseMoves
<1> QED BY <1>3, <1>11, <1>12 DEF WindowOps

\* The job is cut off.
LEMMA CutKeepsInv ==
  ASSUME Inv, NEW g \in Groups, ReleaseCut(g)
  PROVE  Inv'
<1>1. /\ faults < MaxFaults /\ faults' = faults + 1 /\ UNCHANGED <<stack, expired, late, run>>
      /\ \/ Working(release[g]) /\ release' = [release EXCEPT ![g] = Failed]
         \/ release' = [release EXCEPT ![g] = Ended]
  BY DEF ReleaseCut, Working
<1>2. ReleaseFits(g, release[g], stack[g]) /\ faults \in 0 .. MaxFaults
  BY ReleaseTypes
<1>3. faults' \in 0 .. MaxFaults
  BY <1>1, <1>2, CleanupAssumption
<1>4. ReleaseFits(g, Ended, stack[g])
  BY <1>2, StatesAre, FitsAtRest DEF Building, Working, WindowOps
<1>5. ASSUME Working(release[g])
      PROVE  ReleaseFits(g, Failed, stack[g])
  BY <1>2, <1>5, StatesAre, FitsAtRest DEF Building, ReleaseFits
<1>6. CASE Working(release[g]) /\ release' = [release EXCEPT ![g] = Failed]
  BY <1>1, <1>3, <1>5, <1>6, StatesAre, ReleaseMoves
<1>7. CASE release' = [release EXCEPT ![g] = Ended]
  BY <1>1, <1>3, <1>4, <1>7, StatesAre, ReleaseMoves
<1> QED BY <1>1, <1>6, <1>7

-----------------------------------------------------------------------------
(* The release workflow calls CloudFormation                               *)

\* The fields of a stack being updated; it goes on to be there.
LEMMA UpdatingIs ==
  ASSUME NEW k \in StackState, Updatable(k), NEW to \in BOOLEAN \X BOOLEAN
  PROVE  /\ Updating(k, to) \in StackState /\ Updating(k, to).status = "UPDATING"
         /\ Updating(k, to).published = k.published /\ Updating(k, to).to = to
         /\ Stays(k, Updating(k, to))
         /\ (to[2] => k.published) => Wanes(k, Updating(k, to))
<1>1. k.marked \in BOOLEAN /\ k.published \in BOOLEAN /\ k.status \in {"COMPLETE", "NOT_UPDATED"}
  BY DEF StackState, Updatable
<1>2. /\ Updating(k, to) \in StackState /\ Updating(k, to).status = "UPDATING"
      /\ Updating(k, to).published = k.published /\ Updating(k, to).to = to
  BY <1>1, StackIs DEF Updating, InProgress
<1>3. k # Absent /\ Updating(k, to) # Absent
  BY <1>1, <1>2, AbsentIs
<1> QED BY <1>1, <1>2, <1>3 DEF Wanes, Stays, Shrinks, Publishes

\* The fields of a stack whose deletion begins.
DeletionOf(k) == [k EXCEPT !.status = "DELETING"]

LEMMA DeletionIs ==
  ASSUME NEW k \in StackState, Deletable(k)
  PROVE  /\ DeletionOf(k) \in StackState /\ DeletionOf(k).status = "DELETING"
         /\ DeletionOf(k) # Absent /\ Shrinks(k, DeletionOf(k))
<1>1. k.status \in {"COMPLETE", "NOT_UPDATED", "NOT_CREATED"}
  BY DEF Deletable, StableStatuses
<1>2. /\ DeletionOf(k) \in StackState /\ DeletionOf(k).status = "DELETING"
      /\ DeletionOf(k).published = k.published
  BY DEF DeletionOf, StackState, InProgress
<1>3. k # Absent /\ DeletionOf(k) # Absent
  BY <1>1, <1>2, AbsentIs
<1> QED BY <1>2, <1>3 DEF Shrinks, Publishes

\* A creation is taken: nothing of its group is being removed, and what comes
\* before it is there.
LEMMA CreateTaken ==
  ASSUME Inv, NEW g \in Groups, NEW s \in Suffixes, NEW x \in StackState,
         NEW r \in ReleaseState,
         release[g].at = "call", release[g].op = "create", release[g].on = s,
         stack[g][s] = Absent, x.status = "CREATING", ~x.published,
         r.at = "wait", r.op = "create", r.on = s, release' = [release EXCEPT ![g] = r],
         Sets(g, s, x), UNCHANGED <<expired, late, run, faults>>
  PROVE  Inv'
<1>1. /\ stack[g] \in GroupState /\ ReleaseFits(g, release[g], stack[g])
      /\ faults \in 0 .. MaxFaults
  BY ReleaseTypes
<1>2. run \in RunState /\ run.plan \subseteq expired /\ late \subseteq expired
  BY DEF Inv, TypeOK, RunInv
<1>3. Working(release[g]) /\ Building(release[g])
  BY DEF Working, Building, WindowOps
<1>4. g \notin expired \/ g \in late
  BY <1>1, <1>3 DEF ReleaseFits
<1>5. g \notin expired => BuildFits(release[g], stack[g])
  BY <1>1, <1>3 DEF ReleaseFits
<1>6. x # Absent /\ ~Publishes(x)
  BY AbsentIs DEF Publishes
<1> DEFINE k2 == [stack[g] EXCEPT ![s] = x]
<1>7. k2[s] = x /\ \A u \in Suffixes : u # s => k2[u] = stack[g][u]
  BY <1>1 DEF GroupState
<1>8. g \notin late => Ordered(k2)
  <2> SUFFICES ASSUME g \notin late
               PROVE  Ordered(k2)
    OBVIOUS
  <2>1. Ordered(stack[g])
    BY DEF Inv, OrderInv
  <2>2. BuildFits(release[g], stack[g])
    BY <1>4, <1>5
  <2>3. /\ \A u \in Suffixes : stack[g][u].status # "DELETING"
        /\ \A u \in Before(s) : stack[g][u] # Absent
    BY <2>2 DEF BuildFits
  <2> QED BY <1>1, <1>6, <2>1, <2>3, CreationKeepsOrder
<1> HIDE DEF k2
<1>9. ReleaseFits(g, r, k2)
  <2>1. g \notin expired => BuildFits(r, k2)
    BY <1>5, <1>7 DEF BuildFits
  <2> QED BY <1>4, <2>1 DEF ReleaseFits, StepFits, Cleaning
<1>10. RunInv'
  BY <1>2, <1>4, RunStays
<1> QED BY <1>1, <1>2, <1>6, <1>8, <1>9, <1>10, StackMoves DEF k2

\* An update is taken: only what works in its window publishes.
LEMMA UpdateTaken ==
  ASSUME Inv, NEW g \in Groups, NEW s \in Suffixes, NEW r \in ReleaseState,
         release[g].at = "call", release[g].op \in {"enable", "restore", "disable"},
         release[g].on = s, Updatable(stack[g][s]),
         r.at = "wait", r.op = release[g].op, r.on = s, r.seen = release[g].seen,
         release' = [release EXCEPT ![g] = r],
         Sets(g, s, Updating(stack[g][s], <<stack[g][s].marked, release[g].op = "enable">>)),
         UNCHANGED <<expired, late, run, faults>>
  PROVE  Inv'
<1> DEFINE to == <<stack[g][s].marked, release[g].op = "enable">>
           x == Updating(stack[g][s], to)
           k2 == [stack[g] EXCEPT ![s] = x]
<1>1. /\ stack[g] \in GroupState /\ ReleaseFits(g, release[g], stack[g])
      /\ faults \in 0 .. MaxFaults /\ stack[g][s] \in StackState
  BY ReleaseTypes
<1>2. run \in RunState /\ run.plan \subseteq expired /\ late \subseteq expired
  BY DEF Inv, TypeOK, RunInv
<1>3. to \in BOOLEAN \X BOOLEAN /\ (to[2] <=> release[g].op = "enable")
  <2>1. stack[g][s].marked \in BOOLEAN /\ (release[g].op = "enable") \in BOOLEAN
    BY <1>1 DEF StackState
  <2> QED BY <2>1
<1>4. Sets(g, s, x)
  OBVIOUS
<1> HIDE DEF to
<1>5. /\ x \in StackState /\ x.status = "UPDATING" /\ x.published = stack[g][s].published
      /\ x.to = to /\ Stays(stack[g][s], x)
      /\ (to[2] => stack[g][s].published) => Wanes(stack[g][s], x)
  BY <1>1, <1>3, UpdatingIs
<1> HIDE DEF x
<1>6. s \in Public
  BY <1>1 DEF ReleaseFits, StepFits
<1>7. g \notin late => Ordered(k2)
  BY <1>1, <1>5, StayKeeps DEF Inv, OrderInv
<1>8. BuildFits(release[g], stack[g]) => BuildFits(release[g], k2)
  BY <1>1, <1>5, StayKeeps
<1>9. release[g].op # "enable" => Shrinks(stack[g][s], x)
  BY <1>3, <1>5 DEF Wanes
<1>10. CleanFits(release[g], stack[g]) /\ release[g].op # "enable" => CleanFits(release[g], k2)
  BY <1>1, <1>5, <1>9, ShrinkKeeps
<1>11. CASE release[g].op \in {"enable", "restore"}
  <2>1. Working(release[g]) /\ Building(release[g])
    BY <1>11 DEF Working, Building, WindowOps
  <2>2. g \notin expired \/ g \in late
    BY <1>1, <2>1 DEF ReleaseFits
  <2>3. g \notin expired => BuildFits(release[g], k2)
    BY <1>1, <1>8, <2>1 DEF ReleaseFits
  <2>4. g \notin expired => BuildFits(r, k2)
    BY <2>3 DEF BuildFits
  <2>5. ReleaseFits(g, r, k2)
    BY <1>6, <1>11, <2>2, <2>4 DEF ReleaseFits, StepFits, Cleaning, Public, Suffixes
  <2>6. RunInv'
    BY <1>2, <1>4, <1>5, <2>2, RunStays
  <2> QED BY <1>1, <1>2, <1>4, <1>5, <1>6, <1>7, <2>5, <2>6, StackMoves
<1>12. CASE release[g].op = "disable"
  <2>1. CleanFits(release[g], k2)
    BY <1>1, <1>10, <1>12 DEF ReleaseFits, Cleaning
  <2>2. CleanFits(r, k2)
    BY <1>12, <2>1 DEF CleanFits
  <2>3. ReleaseFits(g, r, k2)
    BY <1>6, <1>12, <2>2
       DEF ReleaseFits, StepFits, Working, Building, WindowOps, Public, Suffixes
  <2>4. RunInv'
    BY <1>4, <1>5, <1>9, <1>12, RunStays
  <2> QED BY <1>1, <1>2, <1>4, <1>5, <1>6, <1>7, <2>3, <2>4, StackMoves
<1> QED BY <1>11, <1>12

\* A deletion is taken: nothing comes after it.
LEMMA DestroyTaken ==
  ASSUME Inv, NEW g \in Groups, NEW s \in Suffixes, NEW r \in ReleaseState,
         release[g].at = "call", release[g].op = "destroy",
         release[g].on = s, Deletable(stack[g][s]),
         r.at = "wait", r.op = "destroy", r.on = s, r.seen = release[g].seen,
         release' = [release EXCEPT ![g] = r],
         Sets(g, s, DeletionOf(stack[g][s])),
         UNCHANGED <<expired, late, run, faults>>
  PROVE  Inv'
<1> DEFINE x == DeletionOf(stack[g][s])
           k2 == [stack[g] EXCEPT ![s] = x]
<1>1. /\ stack[g] \in GroupState /\ ReleaseFits(g, release[g], stack[g])
      /\ faults \in 0 .. MaxFaults /\ stack[g][s] \in StackState
  BY ReleaseTypes
<1>2. run \in RunState
  BY DEF Inv, TypeOK
<1>3. /\ x \in StackState /\ x.status = "DELETING" /\ x # Absent /\ Shrinks(stack[g][s], x)
  BY <1>1, DeletionIs
<1>4. Sets(g, s, x)
  OBVIOUS
<1> HIDE DEF x
<1>5. CleanFits(release[g], stack[g])
  BY <1>1 DEF ReleaseFits, Cleaning
<1>6. CleanFits(release[g], k2)
  BY <1>1, <1>3, <1>5, ShrinkKeeps
<1>7. CleanFits(r, k2)
  BY <1>6 DEF CleanFits
<1>8. ReleaseFits(g, r, k2)
  BY <1>7 DEF ReleaseFits, StepFits, Working, Building, WindowOps
<1>9. g \notin late => Ordered(k2)
  BY <1>1, <1>3, <1>5, DeletionKeepsOrder DEF CleanFits, Inv, OrderInv
<1>10. Publishes(x) => s \in Public
  BY <1>3 DEF Shrinks, Inv, PublicInv
<1>11. RunInv'
  BY <1>3, <1>4, RunStays
<1> QED BY <1>1, <1>2, <1>3, <1>4, <1>8, <1>9, <1>10, <1>11, StackMoves

\* CloudFormation takes a call of the workflow, or refuses it.
LEMMA ReleaseCallKeepsInv ==
  ASSUME Inv, NEW g \in Groups, ReleaseCall(g)
  PROVE  Inv'
<1> DEFINE s == release[g].on
           k == stack[g][s]
           r == [release[g] EXCEPT !.at = "wait"]
<1>1. release[g].at = "call" /\ UNCHANGED <<expired, late, run, faults>>
  BY DEF ReleaseCall
<1>2. /\ release[g] \in ReleaseState /\ ReleaseFits(g, release[g], stack[g])
      /\ faults \in 0 .. MaxFaults /\ release[g].left \in SUBSET Public
      /\ \A u \in Suffixes : stack[g][u] \in StackState
  BY ReleaseTypes
<1>3. /\ release[g].op \in {"create", "enable", "restore", "disable", "destroy"}
      /\ s \in Suffixes
  BY <1>1, <1>2 DEF ReleaseFits, StepFits, ReleaseState, WindowOps
<1>4. /\ r \in ReleaseState /\ r.at = "wait" /\ r.op = release[g].op /\ r.on = s
      /\ r.seen = release[g].seen
  BY <1>2 DEF ReleaseState
<1>5. \/ /\ release[g].op = "create" /\ k = Absent
         /\ release' = [release EXCEPT ![g] = r]
         /\ Sets(g, s, Stack("CREATING", FALSE, FALSE, <<FALSE, FALSE>>))
      \/ /\ release[g].op \in {"enable", "restore", "disable"} /\ Updatable(k)
         /\ release' = [release EXCEPT ![g] = r]
         /\ Sets(g, s, Updating(k, <<k.marked, release[g].op = "enable">>))
      \/ /\ release[g].op = "destroy" /\ Deletable(k)
         /\ release' = [release EXCEPT ![g] = r]
         /\ Sets(g, s, DeletionOf(k))
      \/ /\ release[g].op = "destroy"
         /\ release' = [release EXCEPT ![g] = r]
         /\ Sets(g, s, k)
      \/ /\ UNCHANGED stack
         /\ \/ /\ release[g].op \in WindowOps
               /\ \E q \in {Failed, Restoring, Rest(release[g].left)} :
                    release' = [release EXCEPT ![g] = q]
            \/ release' = [release EXCEPT ![g] = Ended]
  <2>1. CASE release[g].op = "create"
    BY <1>1, <2>1 DEF ReleaseCall, Sets, WindowOps
  <2>2. CASE release[g].op = "enable"
    BY <1>1, <2>2 DEF ReleaseCall, Sets, WindowOps
  <2>3. CASE release[g].op = "restore"
    BY <1>1, <2>3 DEF ReleaseCall, Sets, WindowOps
  <2>4. CASE release[g].op = "disable"
    BY <1>1, <2>4 DEF ReleaseCall, Sets
  <2>5. CASE release[g].op = "destroy"
    BY <1>1, <2>5 DEF ReleaseCall, Sets, DeletionOf, Deleted
  <2> QED BY <1>3, <2>1, <2>2, <2>3, <2>4, <2>5
<1> HIDE DEF s, r
<1>6. CASE /\ release[g].op = "create" /\ k = Absent
           /\ release' = [release EXCEPT ![g] = r]
           /\ Sets(g, s, Stack("CREATING", FALSE, FALSE, <<FALSE, FALSE>>))
  <2> DEFINE x == Stack("CREATING", FALSE, FALSE, <<FALSE, FALSE>>)
  <2>1. x \in StackState /\ x.status = "CREATING" /\ ~x.published
    BY DEF Stack, StackState, InProgress
  <2>2. Sets(g, s, x)
    BY <1>6
  <2> HIDE DEF x
  <2> QED BY <1>1, <1>3, <1>4, <1>6, <2>1, <2>2, CreateTaken DEF s
<1>7. CASE /\ release[g].op \in {"enable", "restore", "disable"} /\ Updatable(k)
           /\ release' = [release EXCEPT ![g] = r]
           /\ Sets(g, s, Updating(k, <<k.marked, release[g].op = "enable">>))
  BY <1>1, <1>3, <1>4, <1>7, UpdateTaken DEF s
<1>8. CASE /\ release[g].op = "destroy" /\ Deletable(k)
           /\ release' = [release EXCEPT ![g] = r]
           /\ Sets(g, s, DeletionOf(k))
  BY <1>1, <1>3, <1>4, <1>8, DestroyTaken DEF s
<1>9. CASE /\ release[g].op = "destroy"
            /\ release' = [release EXCEPT ![g] = r]
            /\ Sets(g, s, k)
  <2>1. UNCHANGED stack
    <3>1. stack \in [Groups -> GroupState]
      BY DEF Inv, TypeOK
    <3> QED BY <1>3, <1>9, <3>1 DEF Sets, GroupState
  <2>2. ReleaseFits(g, r, stack[g])
    <3>1. CleanFits(release[g], stack[g])
      BY <1>2, <1>9 DEF ReleaseFits, Cleaning
    <3>2. CleanFits(r, stack[g])
      BY <1>4, <3>1 DEF CleanFits, s
    <3> QED
      BY <1>3, <1>4, <1>9, <3>2 DEF ReleaseFits, StepFits, Working, Building, WindowOps
  <2> QED BY <1>1, <1>2, <1>4, <1>9, <2>1, <2>2, ReleaseMoves
<1>10. ReleaseFits(g, Ended, stack[g])
  BY <1>2, StatesAre, FitsAtRest DEF Building, Working, WindowOps
<1>11. ASSUME release[g].op \in WindowOps,
              NEW q \in {Failed, Restoring, Rest(release[g].left)}
       PROVE  q \in ReleaseState /\ ReleaseFits(g, q, stack[g])
  <2>1. Working(release[g]) /\ ~(g \in expired \ late)
    BY <1>2, <1>11 DEF Working, ReleaseFits
  <2>2. q \in ReleaseState /\ q.op = "none" /\ q.at \notin {"call", "wait", "cleaning"}
    BY <1>2, StatesAre, RestIs
  <2> QED BY <1>2, <2>1, <2>2, FitsAtRest DEF Building
<1>12. CASE UNCHANGED stack /\ release' = [release EXCEPT ![g] = Ended]
  BY <1>1, <1>2, <1>10, <1>12, StatesAre, ReleaseMoves
<1>13. CASE /\ UNCHANGED stack /\ release[g].op \in WindowOps
            /\ \E q \in {Failed, Restoring, Rest(release[g].left)} :
                 release' = [release EXCEPT ![g] = q]
  BY <1>1, <1>2, <1>11, <1>13, ReleaseMoves
<1> QED BY <1>5, <1>6, <1>7, <1>8, <1>9, <1>12, <1>13

-----------------------------------------------------------------------------
(* The watchdog                                                            *)

\* Where the watchdog is when it does nothing.
LEMMA IdleIs == Idle \in RunState /\ Idle.at = "idle" /\ Idle.plan = {}
<1>1. [g \in Groups |-> Nothing] \in [Groups -> GroupState]
  BY NothingIs
<1> QED BY <1>1 DEF Idle, RunState

\* A step of the watchdog that leaves the stacks alone.
LEMMA RunMoves ==
  ASSUME Inv, run' \in RunState, UNCHANGED <<stack, expired, release, late>>,
         faults' \in 0 .. MaxFaults, RunInv'
  PROVE  Inv'
<1>1. TypeOK'
  BY DEF Inv, TypeOK
<1>2. ReleaseInv'
  BY DEF Inv, ReleaseInv, ReleaseFits
<1>3. PublicInv' /\ OrderInv'
  BY DEF Inv, PublicInv, OrderInv
<1> QED BY <1>1, <1>2, <1>3 DEF Inv

\* A run may end at any time.
LEMMA EndKeepsInv ==
  ASSUME Inv, run' = Idle, UNCHANGED <<stack, expired, release, late>>,
         faults' \in 0 .. MaxFaults
  PROVE  Inv'
<1>1. run' \in RunState /\ run'.at = "idle" /\ run'.plan = {}
  BY IdleIs
<1>2. RunInv'
  BY <1>1 DEF RunInv, Acting
<1> QED BY <1>1, <1>2, RunMoves

\* A run lists what is there.
LEMMA ListKeepsInv ==
  ASSUME Inv, ListTaggedStackMappings
  PROVE  Inv'
<1>1. expired \subseteq Groups /\ faults \in 0 .. MaxFaults
  BY DEF Inv, TypeOK
<1> DEFINE listed == {e \in Groups \X Suffixes : Exists(e[1], e[2])}
           next == [Idle EXCEPT !.at = "listed", !.plan = expired, !.listed = listed]
<1>2. run' = next /\ UNCHANGED <<stack, expired, release, late, faults>>
  BY DEF ListTaggedStackMappings
<1>3. /\ next \in RunState /\ next.at = "listed" /\ next.plan = expired
      /\ next.listed = listed
  <2>1. listed \in SUBSET (Groups \X Suffixes) /\ expired \in SUBSET Groups
    BY <1>1
  <2> HIDE DEF listed
  <2> QED BY <2>1, IdleIs DEF RunState
<1>4. \A g \in Groups, s \in Suffixes : Exists(g, s) => <<g, s>> \in listed
  OBVIOUS
<1> HIDE DEF next, listed
<1>5. \A g \in expired \ late : RunFits(g)'
  BY <1>1, <1>2, <1>3, <1>4 DEF RunFits, Acting, Exists
<1>6. RunInv'
  BY <1>2, <1>3, <1>5 DEF RunInv, Acting
<1> QED BY <1>1, <1>2, <1>3, <1>6, RunMoves

\* What it reads of what it listed bounds what is there: nothing is created in
\* what has expired in time, and what is read is at rest.
LEMMA DiscoveryKeepsInv ==
  ASSUME Inv, Discovery
  PROVE  Inv'
<1> DEFINE copy == [g \in Groups |-> [s \in Suffixes |->
                     IF <<g, s>> \in run.listed THEN stack[g][s] ELSE Absent]]
           next == [Idle EXCEPT !.at = "step", !.copy = copy, !.plan = ToDelete(copy)]
<1>1. run.at = "listed" /\ UNCHANGED <<stack, expired, release, late, faults>>
  BY DEF Discovery
<1>2. /\ run \in RunState /\ run.plan \subseteq expired /\ expired \subseteq Groups
      /\ stack \in [Groups -> GroupState] /\ faults \in 0 .. MaxFaults
      /\ \A g \in run.plan \ late : RunFits(g)
  BY DEF Inv, TypeOK, RunInv
<1>3. \A g \in Groups, s \in Suffixes : stack[g][s] \in StackState
  BY <1>2 DEF GroupState
<1>4. copy \in [Groups -> GroupState]
  BY <1>3, AbsentIs DEF GroupState
<1>5. \A g \in Groups, s \in Suffixes :
        copy[g][s] = IF <<g, s>> \in run.listed THEN stack[g][s] ELSE Absent
  OBVIOUS
<1> HIDE DEF copy
<1>6. ToDelete(copy) \subseteq run.plan /\ \A g \in ToDelete(copy) : Existing(copy[g]) # {}
  BY DEF ToDelete, Mine, Existing
<1>7. ToDelete(copy) \in SUBSET Groups
  BY <1>2, <1>6
<1>8. next \in RunState /\ next.at = "step" /\ next.copy = copy /\ next.plan = ToDelete(copy)
  BY <1>4, <1>7, IdleIs DEF RunState
<1>9. \/ run' = Idle
      \/ /\ run' = next /\ ToDelete(copy) # {}
         /\ \A e \in run.listed : Hydrates(stack[e[1]][e[2]])
  BY DEF Discovery, copy
<1> HIDE DEF next
<1>10. CASE run' = Idle
  BY <1>1, <1>2, <1>10, EndKeepsInv
<1>11. CASE /\ run' = next /\ ToDelete(copy) # {}
            /\ \A e \in run.listed : Hydrates(stack[e[1]][e[2]])
  <2>1. ASSUME NEW g \in ToDelete(copy) \ late, NEW s \in Suffixes
        PROVE  /\ stack[g][s] # Absent => copy[g][s] # Absent
               /\ Publishes(stack[g][s]) => copy[g][s].published
    <3>1. g \in Groups /\ RunFits(g)
      BY <1>2, <1>6
    <3>2. CASE <<g, s>> \in run.listed
      <4>1. copy[g][s] = stack[g][s]
        BY <1>5, <3>1, <3>2
      <4>2. Hydrates(stack[<<g, s>>[1]][<<g, s>>[2]])
        BY <1>11, <3>2
      <4>3. stack[g][s].status \notin InProgress
        BY <4>2 DEF Hydrates, StableStatuses, InProgress
      <4>4. stack[g][s] \in StackState
        BY <1>3, <3>1
      <4> QED BY <4>1, <4>3, <4>4, AtRest
    <3>3. CASE <<g, s>> \notin run.listed
      <4>1. stack[g][s] = Absent
        BY <1>1, <3>1, <3>3 DEF RunFits, Exists
      <4> QED BY <4>1, AbsentIs
    <3> QED BY <3>2, <3>3
  <2>2. \A g \in ToDelete(copy) \ late : Covers(copy[g], stack[g])
    BY <2>1 DEF Covers
  <2>3. \A g \in ToDelete(copy) \ late : RunFits(g)'
    BY <1>1, <1>8, <1>11, <2>2 DEF RunFits, Exists
  <2>4. RunInv'
    BY <1>1, <1>2, <1>6, <1>8, <1>11, <2>3 DEF RunInv
  <2> QED BY <1>1, <1>2, <1>8, <1>11, <2>4, RunMoves
<1> QED BY <1>9, <1>10, <1>11

\* What the watchdog does next, by what it has read: what it deletes it has read
\* to be unpublished, and with nothing after it.
LEMMA NextOpIs ==
  ASSUME NEW copy \in GroupState, Existing(copy) # {}
  PROVE  /\ NextOp(copy)[1] \in {"mark", "unpublish", "delete"}
         /\ NextOp(copy)[2] \in Suffixes
         /\ NextOp(copy)[1] = "delete" =>
              /\ \A u \in Public : ~copy[u].published
              /\ \A u \in After(NextOp(copy)[2]) : copy[u] = Absent
<1>0. /\ Unmarked(copy) \in SUBSET Suffixes /\ Published(copy) \in SUBSET Suffixes
      /\ Existing(copy) \in SUBSET Suffixes
  BY DEF Unmarked, Published, Existing, Public, Suffixes
<1>1. CASE Unmarked(copy) # {}
  <2>1. NextOp(copy) = <<"mark", FirstOf(Unmarked(copy))>>
    BY <1>1 DEF NextOp
  <2>2. FirstOf(Unmarked(copy)) \in Suffixes
    BY <1>0, <1>1, FirstOfIs
  <2> QED BY <2>1, <2>2
<1>2. CASE Unmarked(copy) = {} /\ Published(copy) # {}
  <2>1. NextOp(copy) = <<"unpublish", LastOf(Published(copy))>>
    BY <1>2 DEF NextOp
  <2>2. LastOf(Published(copy)) \in Suffixes
    BY <1>0, <1>2, LastOfIs
  <2> QED BY <2>1, <2>2
<1>3. CASE Unmarked(copy) = {} /\ Published(copy) = {}
  <2>1. NextOp(copy) = <<"delete", LastOf(Existing(copy))>>
    BY <1>3 DEF NextOp, NextToDelete
  <2>2. /\ LastOf(Existing(copy)) \in Existing(copy)
        /\ \A u \in After(LastOf(Existing(copy))) : u \notin Existing(copy)
    BY <1>0, LastOfIs
  <2>3. LastOf(Existing(copy)) \in Suffixes
    BY <1>0, <2>2
  <2>4. \A u \in After(LastOf(Existing(copy))) : copy[u] = Absent
    BY <2>2 DEF Existing, After
  <2>5. \A u \in Public : ~copy[u].published
    BY <1>3 DEF Published
  <2> QED BY <2>1, <2>3, <2>4, <2>5
<1> QED BY <1>1, <1>2, <1>3

\* So nothing publishes in what it deletes from, and nothing is after what it
\* deletes, unless the group is late.
LEMMA NextDeletionIs ==
  ASSUME Inv, NEW g \in run.plan \ late, run.at = "step", NextOp(run.copy[g])[1] = "delete"
  PROVE  /\ \A u \in Suffixes : ~Publishes(stack[g][u])
         /\ \A u \in After(NextOp(run.copy[g])[2]) : stack[g][u] = Absent
<1>1. /\ g \in Groups /\ run.copy[g] \in GroupState
      /\ Existing(run.copy[g]) # {} /\ Covers(run.copy[g], stack[g])
  BY DEF Inv, TypeOK, RunState, RunInv, RunFits, Acting
<1>2. /\ \A u \in Public : ~run.copy[g][u].published
      /\ \A u \in After(NextOp(run.copy[g])[2]) : run.copy[g][u] = Absent
  BY <1>1, NextOpIs
<1>3. \A u \in Suffixes : ~Publishes(stack[g][u])
  BY <1>1, <1>2 DEF Covers, Inv, PublicInv
<1>4. After(NextOp(run.copy[g])[2]) \subseteq Suffixes
  BY DEF After
<1> QED BY <1>1, <1>2, <1>3, <1>4 DEF Covers

\* A call of the watchdog is taken: the stack shrinks, in a group that expired.
LEMMA CallTaken ==
  ASSUME Inv, run.at = "step", NEW g \in run.plan, NEW s \in Suffixes, NEW x \in StackState,
         Sets(g, s, x), Shrinks(stack[g][s], x),
         g \notin late => Ordered([stack[g] EXCEPT ![s] = x]),
         NEW op \in {"mark", "unpublish", "delete"}, NEW at \in {"wait", "unchanged"},
         run' = [run EXCEPT !.at = at, !.op = op, !.on = s],
         UNCHANGED <<expired, release, late, faults>>
  PROVE  Inv'
<1>1. /\ run \in RunState /\ run.plan \subseteq expired /\ g \in Groups /\ g \in expired
      /\ release \in [Groups -> ReleaseState] /\ TypeOK
  BY DEF Inv, TypeOK, RunState, RunInv
<1>2. /\ stack[g] \in GroupState /\ ReleaseFits(g, release[g], stack[g])
      /\ faults \in 0 .. MaxFaults /\ release[g] \in ReleaseState
  BY <1>1, ReleaseTypes
<1>3. /\ run' \in RunState /\ run'.at = at /\ run'.on = s /\ run'.plan = run.plan
      /\ run'.copy = run.copy
  BY <1>1 DEF RunState
<1>4. \A h \in run.plan \ late : Covers(run.copy[h], stack'[h])
  BY <1>1, RunFitsStay DEF Acting
<1>5. RunInv'
  <2>1. \A h \in run'.plan \ late' : RunFits(h)'
    BY <1>3, <1>4 DEF RunFits
  <2> QED BY <1>3, <2>1 DEF Inv, RunInv, Acting
<1>6. ReleaseFits(g, release[g], [stack[g] EXCEPT ![s] = x])
  <2>1. Cleaning(release[g]) => CleanFits(release[g], [stack[g] EXCEPT ![s] = x])
    BY <1>2, ShrinkKeeps DEF ReleaseFits
  <2> QED BY <1>1, <1>2, <2>1 DEF ReleaseFits
<1>7. Publishes(x) => s \in Public
  BY <1>1 DEF Shrinks, Inv, PublicInv
<1>8. release' = [release EXCEPT ![g] = release[g]] /\ faults' \in 0 .. MaxFaults
  BY <1>1, <1>2
<1> QED BY <1>1, <1>2, <1>3, <1>5, <1>6, <1>7, <1>8, StackMoves

\* The watchdog calls.
LEMMA CallKeepsInv ==
  ASSUME Inv, Call
  PROVE  Inv'
<1> DEFINE g == Current
           op == NextOp(run.copy[g])[1]
           on == NextOp(run.copy[g])[2]
           k == stack[g][on]
           to == <<TRUE, op = "mark" /\ k.published>>
           same == to = <<k.marked, k.published>>
<1>1. run.at = "step" /\ UNCHANGED <<expired, release, late, faults>>
  BY DEF Call
<1>2. /\ TypeOK /\ run.plan # {} /\ \A h \in run.plan : Existing(run.copy[h]) # {}
      /\ faults \in 0 .. MaxFaults /\ run.plan \subseteq Groups
      /\ stack \in [Groups -> GroupState] /\ run.copy \in [Groups -> GroupState]
  BY <1>1 DEF Inv, TypeOK, RunState, RunInv, Acting
<1>3. g \in run.plan /\ g \in Groups
  BY <1>2, CurrentIs
<1>4. op \in {"mark", "unpublish", "delete"} /\ on \in Suffixes
  BY <1>2, <1>3, NextOpIs
<1>5. stack[g] \in GroupState /\ k \in StackState
  BY <1>2, <1>3, <1>4 DEF GroupState
<1>6. \/ run' = Idle /\ UNCHANGED stack
      \/ /\ op = "delete" /\ Deletable(k) /\ Sets(g, on, DeletionOf(k))
         /\ run' = [run EXCEPT !.at = "wait", !.op = op, !.on = on]
      \/ /\ op = "delete" /\ Sets(g, on, k)
         /\ run' = [run EXCEPT !.at = "wait", !.op = op, !.on = on]
      \/ /\ op # "delete" /\ same /\ stack' = [stack EXCEPT ![g][on] = @]
         /\ run' = [run EXCEPT !.at = "unchanged", !.op = op, !.on = on]
      \/ /\ op # "delete" /\ Updatable(k) /\ Sets(g, on, Updating(k, to))
         /\ run' = [run EXCEPT !.at = "wait", !.op = op, !.on = on]
  BY DEF Call, Sets, DeletionOf, Deleted
<1>7. to \in BOOLEAN \X BOOLEAN /\ (to[2] => k.published)
  OBVIOUS
<1>8. op = "delete" /\ g \notin late => \A u \in After(on) : stack[g][u] = Absent
  BY <1>1, <1>3, NextDeletionIs
<1>9. g \notin late => Ordered(stack[g])
  BY <1>3 DEF Inv, OrderInv
<1> HIDE DEF g, op, on, to, same
<1>10. CASE run' = Idle /\ UNCHANGED stack
  BY <1>1, <1>2, <1>10, EndKeepsInv
<1>11. CASE /\ op = "delete" /\ Deletable(k) /\ Sets(g, on, DeletionOf(k))
            /\ run' = [run EXCEPT !.at = "wait", !.op = op, !.on = on]
  <2>1. /\ DeletionOf(k) \in StackState /\ DeletionOf(k) # Absent
        /\ Shrinks(k, DeletionOf(k))
    BY <1>5, <1>11, DeletionIs
  <2>2. g \notin late => Ordered([stack[g] EXCEPT ![on] = DeletionOf(k)])
    BY <1>4, <1>5, <1>8, <1>9, <1>11, <2>1, DeletionKeepsOrder
  <2> QED BY <1>1, <1>3, <1>4, <1>11, <2>1, <2>2, CallTaken
<1>12. CASE /\ op # "delete" /\ stack' = [stack EXCEPT ![g][on] = @]
            /\ run' = [run EXCEPT !.at = "unchanged", !.op = op, !.on = on]
  <2>1. Sets(g, on, k)
    BY <1>12 DEF Sets
  <2>2. Shrinks(k, k) /\ [stack[g] EXCEPT ![on] = k] = stack[g]
    BY <1>4, <1>5 DEF Shrinks, GroupState
  <2> QED BY <1>1, <1>3, <1>4, <1>5, <1>9, <1>12, <2>1, <2>2, CallTaken
<1>13. CASE /\ op = "delete" /\ Sets(g, on, k)
            /\ run' = [run EXCEPT !.at = "wait", !.op = op, !.on = on]
  <2>1. Shrinks(k, k) /\ [stack[g] EXCEPT ![on] = k] = stack[g]
    BY <1>4, <1>5 DEF Shrinks, GroupState
  <2> QED BY <1>1, <1>3, <1>4, <1>5, <1>9, <1>13, <2>1, CallTaken
<1>14. CASE /\ op # "delete" /\ Updatable(k) /\ Sets(g, on, Updating(k, to))
            /\ run' = [run EXCEPT !.at = "wait", !.op = op, !.on = on]
  <2>1. Updating(k, to) \in StackState /\ Wanes(k, Updating(k, to))
    BY <1>5, <1>7, <1>14, UpdatingIs
  <2>2. g \notin late => Ordered([stack[g] EXCEPT ![on] = Updating(k, to)])
    BY <1>4, <1>5, <1>9, <2>1, StayKeeps DEF Wanes
  <2>3. Shrinks(k, Updating(k, to))
    BY <2>1 DEF Wanes
  <2> QED BY <1>1, <1>3, <1>4, <1>14, <2>1, <2>2, <2>3, CallTaken
<1> QED BY <1>6, <1>10, <1>11, <1>12, <1>13, <1>14

\* What the watchdog reads after the wait is at rest, so it bounds what is
\* there; a group with nothing left in it leaves the plan.
LEMMA RefreshKeepsInv ==
  ASSUME Inv, RefreshStack
  PROVE  Inv'
<1> DEFINE g == Current
           on == run.on
           k == stack[g][on]
           read == [run.copy[g] EXCEPT ![on] = k]
           copy == [run.copy EXCEPT ![g] = read]
           plan == IF Mine(g, copy) = {} THEN run.plan \ {g} ELSE run.plan
           next == [run EXCEPT !.at = "step", !.op = "none", !.on = "none", !.copy = copy,
                               !.plan = plan]
<1>1. run.at \in {"wait", "unchanged"} /\ UNCHANGED <<stack, expired, release, late, faults>>
  BY DEF RefreshStack
<1>2. /\ TypeOK /\ run.plan # {} /\ \A h \in run.plan : Existing(run.copy[h]) # {}
      /\ faults \in 0 .. MaxFaults /\ run.plan \subseteq Groups /\ run \in RunState
      /\ stack \in [Groups -> GroupState] /\ run.copy \in [Groups -> GroupState]
      /\ on \in Suffixes
  BY <1>1 DEF Inv, TypeOK, RunState, RunInv, Acting
<1>3. g \in run.plan /\ g \in Groups
  BY <1>2, CurrentIs
<1>4. /\ stack[g] \in GroupState /\ k \in StackState /\ run.copy[g] \in GroupState
  BY <1>2, <1>3 DEF GroupState
<1>5. \/ run' = Idle
      \/ /\ run' = next /\ ~(Mine(g, copy) = {} /\ run.plan = {g})
         /\ k.status \notin InProgress
  <2>1. \/ run.at = "wait" /\ k.status \notin InProgress
        \/ run.at = "unchanged"
    BY DEF RefreshStack
  <2>2. \/ run' = Idle
        \/ /\ run' = next /\ ~(Mine(g, copy) = {} /\ run.plan = {g})
           /\ k = Absent \/ k.status = "COMPLETE" \/ k.status \in StableStatuses
    BY DEF RefreshStack
  <2> QED BY <2>1, <2>2, AbsentIs DEF StableStatuses, InProgress
<1>6. /\ read \in GroupState /\ read[on] = k
      /\ \A s \in Suffixes : s # on => read[s] = run.copy[g][s]
  BY <1>2, <1>4 DEF GroupState
<1> HIDE DEF g, on, read
<1>7. /\ copy \in [Groups -> GroupState] /\ copy[g] = read
      /\ \A h \in Groups : h # g => copy[h] = run.copy[h]
  BY <1>2, <1>3, <1>6
<1>8. Mine(g, copy) = Existing(copy[g])
  BY DEF Mine, Existing
<1> HIDE DEF copy
<1>9. /\ plan \subseteq run.plan /\ \A h \in plan : Existing(copy[h]) # {}
  BY <1>2, <1>7, <1>8
<1>10. next \in RunState /\ next.at = "step" /\ next.copy = copy /\ next.plan = plan
  BY <1>2, <1>7, <1>9 DEF RunState
<1> HIDE DEF next
<1>11. CASE run' = Idle
  BY <1>1, <1>2, <1>11, EndKeepsInv
<1>12. CASE /\ run' = next /\ ~(Mine(g, copy) = {} /\ run.plan = {g})
            /\ k.status \notin InProgress
  <2>1. plan # {}
    BY <1>2, <1>12
  <2>2. ASSUME NEW h \in plan \ late, NEW s \in Suffixes
        PROVE  /\ stack[h][s] # Absent => copy[h][s] # Absent
               /\ Publishes(stack[h][s]) => copy[h][s].published
    <3>1. Covers(run.copy[h], stack[h]) /\ h \in Groups
      BY <1>1, <1>2, <1>9 DEF Inv, RunInv, RunFits, Acting
    <3>2. CASE h = g /\ s = on
      <4>1. copy[h][s] = stack[h][s]
        BY <1>6, <1>7, <3>2
      <4>2. Publishes(stack[h][s]) => stack[h][s].published
        BY <1>4, <1>12, <3>2, AtRest
      <4> QED BY <4>1, <4>2
    <3>3. CASE h # g \/ s # on
      <4>1. copy[h][s] = run.copy[h][s]
        BY <1>6, <1>7, <3>1, <3>3
      <4> QED BY <3>1, <4>1 DEF Covers
    <3> QED BY <3>2, <3>3
  <2>3. \A h \in plan \ late : Covers(copy[h], stack[h])
    BY <2>2 DEF Covers
  <2>4. \A h \in plan \ late : RunFits(h)'
    BY <1>1, <1>10, <1>12, <2>3 DEF RunFits
  <2> HIDE DEF plan
  <2>5. RunInv'
    BY <1>1, <1>9, <1>10, <1>12, <2>1, <2>4 DEF Inv, RunInv
  <2> QED BY <1>1, <1>2, <1>10, <1>12, <2>5, RunMoves
<1> QED BY <1>5, <1>11, <1>12

\* A run is cut off.
LEMMA RunCutKeepsInv ==
  ASSUME Inv, RunCut
  PROVE  Inv'
<1>1. /\ faults < MaxFaults /\ faults' = faults + 1 /\ run' = Idle
      /\ UNCHANGED <<stack, expired, release, late>>
  BY DEF RunCut
<1>2. faults \in 0 .. MaxFaults
  BY DEF Inv, TypeOK
<1>3. faults' \in 0 .. MaxFaults
  BY <1>1, <1>2, CleanupAssumption
<1> QED BY <1>1, <1>3, EndKeepsInv

-----------------------------------------------------------------------------
(* The invariant                                                           *)

\* What an abandoned group starts with is what a deployment left.
LEMMA PrefixIsOrdered ==
  ASSUME NEW n \in 0 .. 4, NEW k \in GroupState,
         \A s \in Suffixes : k[s] # Absent <=> s \in PrefixOf(n),
         \A s \in Suffixes : k[s].status # "DELETING"
  PROVE  Ordered(k)
<1>1. /\ Order[1] = "data" /\ Order[2] = "api" /\ Order[3] = "observability"
      /\ Order[4] = "web"
  BY DEF Order
<1>2. ASSUME NEW s \in Suffixes, s \in PrefixOf(n), NEW u \in Before(s)
      PROVE  u \in PrefixOf(n)
  <2>1. PICK i \in 1 .. n : s = Order[i]
    BY <1>2 DEF PrefixOf
  <2>2. i \in 1 .. 4 /\ Position(s) = i
    <3>1. i = 1 \/ i = 2 \/ i = 3 \/ i = 4
      OBVIOUS
    <3> QED BY <1>1, <2>1, <3>1, Positions
  <2>3. PICK j \in 1 .. Position(s) - 1 : u = Order[j]
    BY <1>2, Places
  <2> QED BY <2>2, <2>3 DEF PrefixOf
<1>3. \A s : Before(s) \subseteq Suffixes
  BY DEF Before
<1> QED BY <1>2, <1>3 DEF Ordered

\* The invariant holds at first.
LEMMA InitInv ==
  ASSUME Init
  PROVE  Inv
<1>1. /\ expired = {} /\ late = {} /\ run = Idle /\ faults = 0
      /\ release = [g \in Groups |-> IF g \in Abandoned THEN Ended ELSE Ready]
  BY DEF Init
<1>2. PICK n \in [Groups -> 0 .. 4], active \in SUBSET Groups :
        stack = [g \in Groups |-> [s \in Suffixes |->
                   IF s \in PrefixOf(n[g])
                   THEN Settled("COMPLETE", FALSE, g \in active /\ s \in Public)
                   ELSE Absent]]
  BY DEF Init
<1>3. ASSUME NEW g \in Groups, NEW s \in Suffixes
      PROVE  /\ stack[g][s] \in StackState
             /\ stack[g][s] # Absent <=> s \in PrefixOf(n[g])
             /\ stack[g][s].status # "DELETING"
             /\ stack[g][s].published => s \in Public
             /\ Publishes(stack[g][s]) => s \in Public
  <2>1. CASE s \in PrefixOf(n[g])
    <3> DEFINE p == g \in active /\ s \in Public
    <3>1. stack[g][s] = Settled("COMPLETE", FALSE, p) /\ (p => s \in Public) /\ p \in BOOLEAN
      BY <1>2, <2>1
    <3> HIDE DEF p
    <3>2. /\ Settled("COMPLETE", FALSE, p) \in StackState
          /\ Settled("COMPLETE", FALSE, p).status = "COMPLETE"
          /\ Settled("COMPLETE", FALSE, p).published = p
      BY <3>1, SettledIs DEF StableStatuses
    <3> QED BY <2>1, <3>1, <3>2, AbsentIs DEF Publishes
  <2>2. CASE s \notin PrefixOf(n[g])
    <3>1. stack[g][s] = Absent
      BY <1>2, <2>2
    <3> QED BY <2>2, <3>1, AbsentIs
  <2> QED BY <2>1, <2>2
<1>4. \A g \in Groups : stack[g] \in GroupState
  <2> TAKE g \in Groups
  <2>1. stack[g] = [s \in Suffixes |-> stack[g][s]]
    BY <1>2
  <2> QED BY <1>3, <2>1 DEF GroupState
<1>5. stack \in [Groups -> GroupState]
  BY <1>2, <1>4
<1>6. release \in [Groups -> ReleaseState]
  BY <1>1, StatesAre
<1>7. TypeOK
  BY <1>1, <1>3, <1>5, <1>6, IdleIs, CleanupAssumption DEF TypeOK
<1>8. PublicInv
  BY <1>3 DEF PublicInv
<1>9. ReleaseInv
  <2> SUFFICES ASSUME NEW g \in Groups
               PROVE  ReleaseFits(g, release[g], stack[g])
    BY DEF ReleaseInv
  <2>1. release[g].at \in {"ready", "ended"} /\ release[g].op = "none"
    BY <1>1, StatesAre
  <2> QED BY <1>1, <1>3, <2>1
          DEF ReleaseFits, StepFits, BuildFits, Working, Cleaning, WindowOps
<1>10. RunInv
  BY <1>1, IdleIs DEF RunInv, Acting
<1>11. OrderInv
  <2> SUFFICES ASSUME NEW g \in Groups
               PROVE  Ordered(stack[g])
    BY DEF OrderInv
  <2> QED BY <1>3, <1>4, PrefixIsOrdered
<1> QED BY <1>7, <1>8, <1>9, <1>10, <1>11 DEF Inv

\* Every step keeps it.
LEMMA StepKeepsInv ==
  ASSUME Inv, [Next]_vars
  PROVE  Inv'
<1>1. CASE Watchdog
  BY <1>1, ListKeepsInv, DiscoveryKeepsInv, CallKeepsInv, RefreshKeepsInv DEF Watchdog
<1>2. CASE RunCut
  BY <1>2, RunCutKeepsInv
<1>3. ASSUME NEW g \in Groups,
             \/ Expire(g) \/ Activate(g) \/ ActivationStep(g) \/ RestoreStep(g)
             \/ CleanupRelease(g) \/ CleanupStep(g)
             \/ ReleaseCall(g) \/ ReleaseWaitEnds(g) \/ ReleaseCut(g)
      PROVE  Inv'
  BY <1>3, ExpireKeepsInv, ActivateKeepsInv, ActivationStepKeepsInv, RestoreStepKeepsInv,
     CleanupKeepsInv, CleanupStepKeepsInv, ReleaseCallKeepsInv, WaitEndsKeepsInv, CutKeepsInv
<1>4. ASSUME NEW g \in Groups, NEW s \in Suffixes,
             DeployStack(g, s) \/ OperationEnds(g, s) \/ OperationFails(g, s)
      PROVE  Inv'
  BY <1>4, DeployKeepsInv, OperationKeepsInv
<1>5. CASE UNCHANGED vars
  BY <1>5 DEF vars, Inv, TypeOK, PublicInv, ReleaseInv, ReleaseFits, RunInv, RunFits, Exists,
              OrderInv
<1> QED BY <1>1, <1>2, <1>3, <1>4, <1>5 DEF Next

\* It holds always.
LEMMA AlwaysInv == Spec => []Inv
<1>1. Init => Inv
  BY InitInv
<1>2. Inv /\ [Next]_vars => Inv'
  BY StepKeepsInv
<1> QED BY <1>1, <1>2, PTL DEF Spec

-----------------------------------------------------------------------------
(* The theorems                                                            *)

\* The prefixes of the order of deployment.
LEMMA Prefixes ==
  /\ PrefixOf(0) = {} /\ PrefixOf(1) = {"data"} /\ PrefixOf(2) = {"data", "api"}
  /\ PrefixOf(3) = {"data", "api", "observability"} /\ PrefixOf(4) = Suffixes
<1>1. /\ Order[1] = "data" /\ Order[2] = "api" /\ Order[3] = "observability"
      /\ Order[4] = "web"
  BY DEF Order
<1>2. /\ \A i \in 1 .. 2 : i = 1 \/ i = 2
      /\ \A i \in 1 .. 3 : i = 1 \/ i = 2 \/ i = 3
      /\ \A i \in 1 .. 4 : i = 1 \/ i = 2 \/ i = 3 \/ i = 4
  OBVIOUS
<1>3. PrefixOf(0) = {} /\ PrefixOf(1) = {"data"}
  BY <1>1 DEF PrefixOf
<1>4. PrefixOf(2) = {"data", "api"}
  BY <1>1, <1>2 DEF PrefixOf
<1>5. PrefixOf(3) = {"data", "api", "observability"}
  BY <1>1, <1>2 DEF PrefixOf
<1>6. PrefixOf(4) = Suffixes
  BY <1>1, <1>2 DEF PrefixOf, Suffixes
<1> QED BY <1>3, <1>4, <1>5, <1>6

\* Stacks with whatever comes before them are a prefix of the order.
LEMMA ClosedIsPrefix ==
  ASSUME NEW S \in SUBSET Suffixes, \A s \in S : Before(s) \subseteq S
  PROVE  IsDeployPrefix(S)
<1>1. /\ "data" \in Before("api") /\ "api" \in Before("observability")
      /\ "observability" \in Before("web")
  BY Positions DEF Before, Suffixes
<1>2. /\ Cardinality({}) = 0 /\ Cardinality({"data"}) = 1
      /\ Cardinality({"data", "api"}) = 2
      /\ Cardinality({"data", "api", "observability"}) = 3
      /\ Cardinality(Suffixes) = 4
  <2>1. Cardinality({}) = 0 /\ IsFiniteSet({})
    BY FS_EmptySet
  <2>2. Cardinality({"data"}) = 1 /\ IsFiniteSet({"data"})
    BY FS_Singleton
  <2>3. Cardinality({"data", "api"}) = 2 /\ IsFiniteSet({"data", "api"})
    <3>1. {"data", "api"} = {"data"} \cup {"api"}
      OBVIOUS
    <3> QED BY <2>2, <3>1, FS_AddElement
  <2>4. /\ Cardinality({"data", "api", "observability"}) = 3
        /\ IsFiniteSet({"data", "api", "observability"})
    <3>1. {"data", "api", "observability"} = {"data", "api"} \cup {"observability"}
      OBVIOUS
    <3> QED BY <2>3, <3>1, FS_AddElement
  <2>5. Cardinality(Suffixes) = 4
    <3>1. Suffixes = {"data", "api", "observability"} \cup {"web"}
      BY DEF Suffixes
    <3> QED BY <2>4, <3>1, FS_AddElement
  <2> QED BY <2>1, <2>2, <2>3, <2>4, <2>5
<1>3. /\ "web" \in S => "observability" \in S
      /\ "observability" \in S => "api" \in S
      /\ "api" \in S => "data" \in S
  BY <1>1
<1>4. \/ S = {} \/ S = {"data"} \/ S = {"data", "api"}
      \/ S = {"data", "api", "observability"} \/ S = Suffixes
  <2>1. CASE "web" \in S
    BY <1>3, <2>1 DEF Suffixes
  <2>2. CASE "web" \notin S /\ "observability" \in S
    BY <1>3, <2>2 DEF Suffixes
  <2>3. CASE "web" \notin S /\ "observability" \notin S /\ "api" \in S
    BY <1>3, <2>3 DEF Suffixes
  <2>4. CASE "web" \notin S /\ "observability" \notin S /\ "api" \notin S
    BY <2>4 DEF Suffixes
  <2> QED BY <2>1, <2>2, <2>3, <2>4
<1> QED BY <1>2, <1>4, Prefixes DEF IsDeployPrefix

\* The watchdog or a cleanup begins a deletion only in a group of which nothing
\* is published.
LEMMA DeletionsAreUnpublished ==
  ASSUME Inv, [Next]_vars, NEW g \in Groups \ late', NEW s \in Suffixes,
         stack'[g][s].status = "DELETING", stack[g][s].status # "DELETING"
  PROVE  \A u \in Suffixes : ~stack[g][u].published
<1>0. /\ stack \in [Groups -> GroupState] /\ TypeOK /\ g \in Groups
      /\ \A h \in Groups, u \in Suffixes : stack[h][u] \in StackState
  BY DEF Inv, TypeOK, GroupState
<1>1. SUFFICES \A u \in Suffixes : ~Publishes(stack[g][u])
  BY DEF Publishes
<1>2. \A h \in Groups, t \in Suffixes, x \in StackState :
        Sets(h, t, x) => g = h /\ s = t /\ x.status = "DELETING"
  <2> TAKE h \in Groups, t \in Suffixes, x \in StackState
  <2> HAVE Sets(h, t, x)
  <2>1. Leaves(h, t, x)
    BY <1>0, StackChange
  <2> QED BY <1>0, <2>1 DEF Leaves
<1>3. CASE UNCHANGED stack
  BY <1>3
<1>4. CASE Call
  <2> DEFINE h == Current
             op == NextOp(run.copy[h])[1]
             on == NextOp(run.copy[h])[2]
             k == stack[h][on]
             to == <<TRUE, op = "mark" /\ k.published>>
  <2>1. run.at = "step" /\ late' = late
    BY <1>4 DEF Call
  <2>2. /\ run.plan # {} /\ \A f \in run.plan : Existing(run.copy[f]) # {}
        /\ run.plan \subseteq Groups /\ run.copy \in [Groups -> GroupState]
    BY <2>1 DEF Inv, TypeOK, RunState, RunInv, Acting
  <2>3. h \in run.plan /\ h \in Groups
    BY <1>0, <2>2, CurrentIs
  <2>4. on \in Suffixes /\ k \in StackState
    BY <1>0, <2>2, <2>3, NextOpIs
  <2>5. \/ UNCHANGED stack
        \/ op = "delete" /\ Deletable(k) /\ Sets(h, on, DeletionOf(k))
        \/ Updatable(k) /\ Sets(h, on, Updating(k, to))
        \/ Sets(h, on, k)
    BY <1>4 DEF Call, Sets, DeletionOf, Deleted
  <2>6. to \in BOOLEAN \X BOOLEAN
    OBVIOUS
  <2>7. op = "delete" /\ h \notin late => \A u \in Suffixes : ~Publishes(stack[h][u])
    BY <2>1, <2>3, NextDeletionIs
  <2> HIDE DEF h, op, on, to
  <2>8. CASE op = "delete" /\ Deletable(k) /\ Sets(h, on, DeletionOf(k))
    BY <1>2, <2>1, <2>3, <2>4, <2>7, <2>8, DeletionIs
  <2>9. CASE Updatable(k) /\ Sets(h, on, Updating(k, to))
    BY <1>2, <2>3, <2>4, <2>6, <2>9, UpdatingIs
  <2>10. CASE Sets(h, on, k)
    BY <1>2, <2>3, <2>4, <2>10
  <2> QED BY <1>3, <2>5, <2>8, <2>9, <2>10
<1>5. ASSUME NEW h \in Groups, ReleaseCall(h)
      PROVE  \A u \in Suffixes : ~Publishes(stack[g][u])
  <2> DEFINE on == release[h].on
             k == stack[h][on]
             to == <<k.marked, release[h].op = "enable">>
             created == Stack("CREATING", FALSE, FALSE, <<FALSE, FALSE>>)
  <2>1. release[h].at = "call"
    BY <1>5 DEF ReleaseCall
  <2>2. release[h] \in ReleaseState /\ ReleaseFits(h, release[h], stack[h])
    BY ReleaseTypes
  <2>3. on \in Suffixes /\ k \in StackState
    BY <1>0, <2>1, <2>2 DEF ReleaseFits, StepFits
  <2>4. \/ UNCHANGED stack
        \/ release[h].op = "destroy" /\ Deletable(k) /\ Sets(h, on, DeletionOf(k))
        \/ Sets(h, on, created)
        \/ Updatable(k) /\ Sets(h, on, Updating(k, to))
        \/ Sets(h, on, k)
    BY <1>5 DEF ReleaseCall, Sets, DeletionOf, Deleted
  <2>5. to \in BOOLEAN \X BOOLEAN
    <3>1. k.marked \in BOOLEAN /\ (release[h].op = "enable") \in BOOLEAN
      BY <2>3 DEF StackState
    <3> QED BY <3>1
  <2>6. created \in StackState /\ created.status = "CREATING"
    BY DEF Stack, StackState, InProgress
  <2> HIDE DEF on, to, created
  <2>7. CASE release[h].op = "destroy" /\ Deletable(k) /\ Sets(h, on, DeletionOf(k))
    <3>1. g = h
      BY <1>2, <2>3, <2>7, DeletionIs
    <3> QED BY <2>2, <2>7, <3>1 DEF ReleaseFits, Cleaning, CleanFits
  <2>8. CASE Sets(h, on, created)
    BY <1>2, <2>3, <2>6, <2>8
  <2>9. CASE Updatable(k) /\ Sets(h, on, Updating(k, to))
    BY <1>2, <2>3, <2>5, <2>9, UpdatingIs
  <2>10. CASE Sets(h, on, k)
    BY <1>2, <2>3, <2>10
  <2> QED BY <1>3, <2>4, <2>7, <2>8, <2>9, <2>10
<1>6. ASSUME NEW h \in Groups, NEW t \in Suffixes, OperationEnds(h, t) \/ OperationFails(h, t)
      PROVE  \A u \in Suffixes : ~Publishes(stack[g][u])
  <2>1. /\ stack[h][t].status \in InProgress /\ stack[h][t] \in StackState
        /\ \/ Sets(h, t, Completed(stack[h][t]))
           \/ Sets(h, t, RolledBack(stack[h][t]))
    BY <1>0, <1>6 DEF OperationEnds, OperationFails, Completed, RolledBack, Sets
  <2>2. PICK x \in StackState : Sets(h, t, x) /\ Wanes(stack[h][t], x)
    BY <2>1, OperationWanes
  <2>3. g = h /\ s = t /\ x.status = "DELETING"
    BY <1>2, <2>2
  <2> QED BY <2>2, <2>3 DEF Wanes, Stays
<1>7. \/ UNCHANGED stack \/ Call
      \/ \E h \in Groups : ReleaseCall(h)
      \/ \E h \in Groups, t \in Suffixes : OperationEnds(h, t) \/ OperationFails(h, t)
  <2>1. CASE Watchdog \/ RunCut
    BY <2>1 DEF Watchdog, ListTaggedStackMappings, Discovery, RefreshStack, RunCut
  <2>2. ASSUME NEW h \in Groups,
               \/ Expire(h) \/ Activate(h) \/ ActivationStep(h) \/ RestoreStep(h)
               \/ CleanupRelease(h) \/ CleanupStep(h) \/ ReleaseWaitEnds(h) \/ ReleaseCut(h)
        PROVE  UNCHANGED stack
    BY <2>2 DEF Expire, Activate, ActivationStep, RestoreStep, CleanupRelease, CleanupStep,
                ReleaseWaitEnds, ReleaseCut, Calls
  <2>3. ASSUME NEW h \in Groups, NEW t \in Suffixes, DeployStack(h, t)
        PROVE  UNCHANGED stack
    BY <2>3 DEF DeployStack, Calls
  <2>4. CASE UNCHANGED vars
    BY <2>4 DEF vars
  <2> QED BY <2>1, <2>2, <2>3, <2>4 DEF Next
<1> QED BY <1>3, <1>4, <1>5, <1>6, <1>7

\* The variables hold what their types say, in every state.
THEOREM CleanupTypeCorrect == Spec => []TypeOK
<1>1. Inv => TypeOK
  BY DEF Inv
<1> QED BY <1>1, AlwaysInv, PTL

\* What is left of a group is always what a deployment leaves, whichever of the
\* two programs is cut off and wherever they meet, unless the group is late.
THEOREM PrefixesCorrect == Spec => []LeavesDeployPrefixes
<1>1. ASSUME Inv
      PROVE  LeavesDeployPrefixes
  <2> SUFFICES ASSUME NEW g \in Groups \ late
               PROVE  IsDeployPrefix(Present(g))
    BY DEF LeavesDeployPrefixes
  <2>1. Ordered(stack[g])
    BY <1>1 DEF Inv, OrderInv
  <2>2. \A s \in Present(g) : Before(s) \subseteq Present(g)
    BY <2>1 DEF Ordered, Present, Exists, Before
  <2>3. Present(g) \in SUBSET Suffixes
    BY DEF Present
  <2> QED BY <2>2, <2>3, ClosedIsPrefix
<1> QED BY <1>1, AlwaysInv, PTL

\* No step begins to delete a stack of a group of which the api or the web is
\* published, unless the group is late.
THEOREM UnpublishCorrect == Spec => UnpublishesBeforeDeleting
<1>1. ASSUME Inv, [Next]_vars
      PROVE  [\A g \in Groups \ late', s \in Suffixes :
                stack'[g][s].status = "DELETING" /\ stack[g][s].status # "DELETING" =>
                  \A u \in Suffixes : ~stack[g][u].published]_vars
  BY <1>1, DeletionsAreUnpublished
<1> QED BY <1>1, AlwaysInv, PTL DEF Spec, UnpublishesBeforeDeleting

=============================================================================
