-------------------------- MODULE PrereleaseCleanup --------------------------
(* The hourly watchdog that removes the stacks of expired prereleases           *)
(* (scripts/stage7/prerelease-cleanup-recovery.mjs), and the release workflow   *)
(* it races: its deployments, its activation and its own mandatory cleanup      *)
(* (scripts/stage7/aws-operations.mjs).                                         *)
(*                                                                              *)
(* A prerelease is a group of four stacks, deployed in one order and deleted in *)
(* the other. Nothing is shared by the two programs but the stacks themselves:  *)
(* each reads them, decides, calls CloudFormation, waits and reads again, and   *)
(* either may be cut off between any two of those, by its job's time limit or   *)
(* by a call that fails, while CloudFormation goes on.                          *)
(*                                                                              *)
(* CloudFormation is external: an update or a deletion is a request, refused    *)
(* while another one is under way, and an end that comes later.                 *)
EXTENDS Integers, Sequences, FiniteSets

CONSTANTS
  Groups,      \* the environments, numbered in the order of their names
  Abandoned,   \* those whose workflow has ended before the model starts
  Leftovers,   \* with how many of their stacks
  MaxFaults    \* how many operations fail or jobs are cut off

ASSUME CleanupAssumption ==
  /\ Groups \subseteq Nat /\ IsFiniteSet(Groups)
  /\ Abandoned \subseteq Groups /\ Leftovers \subseteq 0 .. 4
  /\ MaxFaults \in Nat

Order == <<"data", "api", "observability", "web">>
Suffixes == {"data", "api", "observability", "web"}
Public == {"api", "web"}
Position(s) == CHOOSE i \in 1 .. 4 : Order[i] = s

VARIABLES
  stack,     \* [Groups -> [Suffixes -> a stack or Absent]]
  expired,   \* the groups whose CleanupExpiresAtUtc has passed
  release,   \* [Groups -> where the release workflow of the group is]
  late,      \* the groups that expired during a deployment or an activation
  run,       \* where the watchdog is, and what it has read
  faults
vars == <<stack, expired, release, late, run, faults>>

\* A stack: its status, its two cleanup tags, its PublicationState parameter,
\* and what the update under way makes of the last two.
Stack(status, marked, published, to) ==
  [status |-> status, marked |-> marked, published |-> published, to |-> to]
Absent == Stack("ABSENT", FALSE, FALSE, <<FALSE, FALSE>>)
Settled(status, marked, published) == Stack(status, marked, published, <<marked, published>>)

\* COMPLETE is CREATE_COMPLETE or UPDATE_COMPLETE, NOT_UPDATED is
\* UPDATE_ROLLBACK_COMPLETE, NOT_CREATED is ROLLBACK_COMPLETE.
StableStatuses == {"COMPLETE", "NOT_UPDATED", "NOT_CREATED"}
InProgress == {"CREATING", "UPDATING", "DELETING"}

Exists(g, s) == stack[g][s] # Absent
PrefixOf(n) == {Order[i] : i \in 1 .. n}
IsDeployPrefix(present) == present = PrefixOf(Cardinality(present))
Present(g) == {s \in Suffixes : Exists(g, s)}

\* Where a program is, and what it has read: nothing at first.
Nothing == [s \in Suffixes |-> Absent]
Idle == [at |-> "idle", listed |-> {}, plan |-> {}, copy |-> [g \in Groups |-> Nothing],
         op |-> "none", on |-> "none"]
Ready == [at |-> "ready", op |-> "none", on |-> "none", seen |-> Nothing, left |-> {}]
WindowOps == {"create", "enable", "restore"}
Failed == [Ready EXCEPT !.at = "failed"]
Restoring == [Ready EXCEPT !.at = "restoring", !.left = Public]
Rest(left) == IF left = {} THEN Failed ELSE [Restoring EXCEPT !.left = left]
Ended == [Ready EXCEPT !.at = "ended"]

\* A group starts with nothing, or was abandoned with some of its stacks, or
\* all of them, perhaps active.
Init ==
  /\ \E n \in [Groups -> 0 .. 4], active \in SUBSET Groups :
       /\ \A g \in Groups : n[g] \in IF g \in Abandoned THEN Leftovers ELSE {0}
       /\ \A g \in active : n[g] = 4
       /\ stack = [g \in Groups |-> [s \in Suffixes |->
            IF s \in PrefixOf(n[g])
            THEN Settled("COMPLETE", FALSE, g \in active /\ s \in Public)
            ELSE Absent]]
  /\ expired = {} /\ late = {}
  /\ release = [g \in Groups |-> IF g \in Abandoned THEN Ended ELSE Ready]
  /\ run = Idle /\ faults = 0

---------------------------------------------------------------------------
(* CloudFormation, as both programs use it.                                     *)

\* update-stack is refused unless the stack is at rest, and when it would change
\* nothing. A stack whose creation was rolled back can only be deleted.
Updatable(k) == k.status \in {"COMPLETE", "NOT_UPDATED"}
Updating(k, to) == Stack("UPDATING", k.marked, k.published, to)

\* delete-stack is refused while the stack is created or updated; one that is
\* going, or gone, it leaves as it is.
Deletable(k) == k.status \in StableStatuses
Going(k) == k.status \in {"DELETING", "ABSENT"}
Deleted(k) == IF Deletable(k) THEN [k EXCEPT !.status = "DELETING"] ELSE k

\* The operation under way in a stack ends as asked.
OperationEnds(g, s) ==
  /\ stack[g][s].status \in InProgress
  /\ stack' = [stack EXCEPT ![g][s] =
       CASE @.status = "DELETING" -> Absent
         [] @.status = "CREATING" -> Settled("COMPLETE", FALSE, FALSE)
         [] @.status = "UPDATING" -> Settled("COMPLETE", @.to[1], @.to[2])]
  /\ UNCHANGED <<expired, release, late, run, faults>>

\* Or it fails: what was created or updated is rolled back, what could not be
\* deleted needs somebody to see to it.
OperationFails(g, s) ==
  /\ faults < MaxFaults /\ faults' = faults + 1
  /\ stack[g][s].status \in InProgress
  /\ stack' = [stack EXCEPT ![g][s] =
       CASE @.status = "DELETING" -> Settled("DELETE_FAILED", @.marked, @.published)
         [] @.status = "CREATING" -> Settled("NOT_CREATED", FALSE, FALSE)
         [] @.status = "UPDATING" -> Settled("NOT_UPDATED", @.marked, @.published)]
  /\ UNCHANGED <<expired, release, late, run>>

\* The prerelease's time is up. Its window has closed before, but a step that
\* began in the window may still be at work.
Expire(g) ==
  /\ g \notin expired
  /\ expired' = expired \cup {g}
  /\ late' = IF release[g].at \in {"activating", "restoring"} \/ release[g].op \in WindowOps
             THEN late \cup {g} ELSE late
  /\ UNCHANGED <<stack, release, run, faults>>

---------------------------------------------------------------------------
(* The release workflow of a group.                                             *)

\* What every step of it wants to see: complete, and no tag but the release's.
AsReleased(k) == k.status = "COMPLETE" /\ ~k.marked

Calls(g, op, s) ==
  /\ release' = [release EXCEPT ![g] = [@ EXCEPT !.at = "call", !.op = op, !.on = s]]
  /\ UNCHANGED <<stack, expired, late, run, faults>>

\* The next stack is deployed if those before it are complete and the window is
\* open. The checks come first, the change set later.
DeployStack(g, s) ==
  /\ release[g].at = "ready" /\ g \notin expired
  /\ ~Exists(g, s)
  /\ \A i \in 1 .. Position(s) - 1 : stack[g][Order[i]].status = "COMPLETE"
  /\ Calls(g, "create", s)

\* Activation takes the four stacks as they were released, unpublished, and
\* publishes the api and then the web, each if it is as it was read. It looks at
\* the window once.
Published(seen) == {s \in Public : seen[s].published}
Existing(seen) == {s \in Suffixes : seen[s] # Absent}

Activate(g) ==
  /\ release[g].at = "ready" /\ g \notin expired
  /\ \A s \in Suffixes : AsReleased(stack[g][s]) /\ ~stack[g][s].published
  /\ release' = [release EXCEPT ![g] = [Ready EXCEPT !.at = "activating", !.seen = stack[g]]]
  /\ UNCHANGED <<stack, expired, late, run, faults>>

ActivationStep(g) ==
  LET seen == release[g].seen
      on == IF "api" \in Published(seen) THEN "web" ELSE "api" IN
  /\ release[g].at = "activating"
  /\ IF stack[g][on] = seen[on] /\ (on = "web" => stack[g]["api"].published)
     THEN Calls(g, "enable", on)
     ELSE /\ release' = [release EXCEPT ![g] = Restoring]
          /\ UNCHANGED <<stack, expired, late, run, faults>>

\* An activation that fails unpublishes the web and the api again, as far as
\* they still are as released; the job has failed then.
RestoreStep(g) ==
  LET left == release[g].left
      on == IF "web" \in left THEN "web" ELSE "api"
      next == Rest(left \ {on}) IN
  /\ release[g].at = "restoring"
  /\ IF AsReleased(stack[g][on]) /\ stack[g][on].published
     THEN release' = [release EXCEPT ![g] =
            [next EXCEPT !.at = "call", !.op = "restore", !.on = on]]
     ELSE release' = [release EXCEPT ![g] = next]
  /\ UNCHANGED <<stack, expired, late, run, faults>>

\* The mandatory cleanup, in the window or enforced after the expiry, reads the
\* four stacks and refuses one that is not as it was released.
CleanupRelease(g) ==
  /\ release[g].at \in {"ready", "failed"}
  /\ release' = [release EXCEPT ![g] =
       IF \A s \in Present(g) : AsReleased(stack[g][s])
       THEN [Ready EXCEPT !.at = "cleaning", !.seen = stack[g]]
       ELSE Ended]
  /\ UNCHANGED <<stack, expired, late, run, faults>>

\* What is left to do with what was read: unpublish the web and the api, then
\* delete from the last stack deployed to the first.
LastOf(set) == CHOOSE s \in set : \A u \in set : Position(u) <= Position(s)

\* Each of its steps compares the stack with what was read of it, then calls.
CleanupStep(g) ==
  LET seen == release[g].seen
      op == IF Published(seen) # {} THEN "disable" ELSE "destroy"
      on == LastOf(IF Published(seen) # {} THEN Published(seen) ELSE Existing(seen)) IN
  /\ release[g].at = "cleaning"
  /\ IF Existing(seen) = {} \/ stack[g][on] # seen[on]
     THEN /\ release' = [release EXCEPT ![g] = Ended]
          /\ UNCHANGED <<stack, expired, late, run, faults>>
     ELSE Calls(g, op, on)

\* CloudFormation takes the call of the workflow, or refuses it.
ReleaseCall(g) ==
  LET op == release[g].op
      on == release[g].on
      k == stack[g][on]
      accepted == CASE op = "create" -> k = Absent
                    [] op = "destroy" -> Deletable(k) \/ Going(k)
                    [] OTHER -> Updatable(k)
      result == CASE op = "create" -> Stack("CREATING", FALSE, FALSE, <<FALSE, FALSE>>)
                  [] op = "destroy" -> Deleted(k)
                  [] OTHER -> Updating(k, <<k.marked, op = "enable">>) IN
  /\ release[g].at = "call"
  /\ IF accepted
     THEN /\ stack' = [stack EXCEPT ![g][on] = result]
          /\ release' = [release EXCEPT ![g].at = "wait"]
     ELSE /\ release' = [release EXCEPT ![g] =
               CASE op = "create" -> Failed
                 [] op = "enable" -> Restoring
                 [] op = "restore" -> Rest(@.left)
                 [] OTHER -> Ended]
          /\ UNCHANGED stack
  /\ UNCHANGED <<expired, late, run, faults>>

\* The wait ends; the stack is read again, and must be what was asked for.
ReleaseWaitEnds(g) ==
  LET op == release[g].op
      on == release[g].on
      k == stack[g][on]
      asked == CASE op = "create" -> k.status = "COMPLETE"
                 [] op = "enable" -> k.status = "COMPLETE" /\ k.published
                 [] op = "restore" -> k.status = "COMPLETE" /\ ~k.published
                 [] op = "disable" -> AsReleased(k) /\ ~k.published
                 [] op = "destroy" -> k = Absent
      seen == [release[g].seen EXCEPT ![on] = k] IN
  /\ release[g].at = "wait" /\ k.status \notin InProgress
  /\ release' = [release EXCEPT ![g] =
       CASE op = "create" -> IF asked THEN Ready ELSE Failed
         [] op = "restore" -> Rest(@.left)   \* asked or not
         [] op = "enable" -> IF ~asked THEN Restoring
                             ELSE IF on = "web" THEN Ready
                             ELSE [Ready EXCEPT !.at = "activating", !.seen = seen]
         [] OTHER -> IF asked THEN [Ready EXCEPT !.at = "cleaning", !.seen = seen] ELSE Ended]
  /\ UNCHANGED <<stack, expired, late, run, faults>>

\* The job is cut off; the cleanup job comes after the others.
ReleaseCut(g) ==
  /\ faults < MaxFaults /\ faults' = faults + 1
  /\ release[g].at \in {"call", "wait", "cleaning", "activating", "restoring"}
  /\ release' = [release EXCEPT ![g] =
       IF @.at \in {"activating", "restoring"} \/ @.op \in WindowOps THEN Failed ELSE Ended]
  /\ UNCHANGED <<stack, expired, late, run>>

---------------------------------------------------------------------------
(* The watchdog. One run at a time: the workflow's concurrency group queues the *)
(* next one.                                                                    *)

Mine(g, copy) == {s \in Suffixes : copy[g][s] # Absent}

\* A run starts: it takes the time, once, and lists the stacks. (A run that
\* finds none changes nothing and is left out.)
ListTaggedStackMappings ==
  /\ run.at = "idle" /\ \E g \in Groups : Present(g) # {}
  /\ run' = [Idle EXCEPT !.at = "listed", !.plan = expired,
                         !.listed = {e \in Groups \X Suffixes : Exists(e[1], e[2])}]
  /\ UNCHANGED <<stack, expired, release, late, faults>>

\* One of them in a state the run does not expect ends it: gone since, busy,
\* failed, or created without the outputs that name its release.
Hydrates(k) == k.status \in StableStatuses \ {"NOT_CREATED"}

\* A group is what a deployment leaves, in order, and unmarked before its time.
AcceptsWholeGroups(g, copy) == Mine(g, copy) \in {{}, Suffixes}   \* faulty: no part of one
Accepts(g, copy) ==
  /\ IsDeployPrefix(Mine(g, copy))
  /\ g \notin run.plan => \A s \in Suffixes : ~copy[g][s].marked

\* What is to be deleted is planned only if every stack of every group is well.
ToDelete(copy) == {g \in run.plan : Mine(g, copy) # {}}

Discovery ==
  LET copy == [g \in Groups |-> [s \in Suffixes |->
                 IF <<g, s>> \in run.listed THEN stack[g][s] ELSE Absent]] IN
  /\ run.at = "listed"
  /\ run' = IF /\ \A e \in run.listed : Hydrates(stack[e[1]][e[2]])
               /\ \A g \in Groups : Accepts(g, copy)
               /\ ToDelete(copy) # {}
            THEN [Idle EXCEPT !.at = "step", !.copy = copy, !.plan = ToDelete(copy)]
            ELSE Idle
  /\ UNCHANGED <<stack, expired, release, late, faults>>

\* The group being deleted, and what is next in it: mark the stacks from the
\* first deployed to the last, then unpublish the web and the api, then delete
\* from the last to the first; by what was last read of each.
Current == CHOOSE g \in run.plan : \A h \in run.plan : g <= h
Unmarked(copy) == {s \in Suffixes : copy[s] # Absent /\ ~copy[s].marked}
FirstOf(set) == CHOOSE s \in set : \A u \in set : Position(s) <= Position(u)
NextToDeleteFirst(copy) == FirstOf(Existing(copy))   \* faulty: in the order of deployment
NextToDelete(copy) == LastOf(Existing(copy))

NextOpOnceMarked(copy) ==   \* faulty: what is marked is taken to be unpublished
  IF Unmarked(copy) # {} THEN <<"mark", FirstOf(Unmarked(copy))>>
                         ELSE <<"delete", NextToDelete(copy)>>

NextOp(copy) ==
  CASE Unmarked(copy) # {} -> <<"mark", FirstOf(Unmarked(copy))>>
    [] Unmarked(copy) = {} /\ Published(copy) # {} -> <<"unpublish", LastOf(Published(copy))>>
    [] OTHER -> <<"delete", NextToDelete(copy)>>

\* update-stack and delete-stack. An update that would change nothing is not
\* waited for; a call that is refused ends the run.
Call ==
  LET g == Current
      op == NextOp(run.copy[g])[1]
      on == NextOp(run.copy[g])[2]
      k == stack[g][on]
      to == <<TRUE, op = "mark" /\ k.published>>
      same == to = <<k.marked, k.published>> IN
  /\ run.at = "step"
  /\ IF (op = "delete" /\ (Deletable(k) \/ Going(k))) \/ (op # "delete" /\ Updatable(k))
     THEN /\ stack' = [stack EXCEPT ![g][on] =
               IF op = "delete" THEN Deleted(@)
               ELSE IF same THEN @ ELSE Updating(@, to)]
          /\ run' = [run EXCEPT !.at = IF op # "delete" /\ same THEN "unchanged" ELSE "wait",
                                !.op = op, !.on = on]
     ELSE run' = Idle /\ UNCHANGED stack
  /\ UNCHANGED <<expired, release, late, faults>>

\* What the run reads after the wait replaces its copy; a deleted stack must be
\* gone.
RefreshStack ==
  LET g == Current
      on == run.on
      k == stack[g][on]
      done == CASE run.op = "delete" -> k = Absent
                [] run.op = "mark" -> k.marked
                [] run.op = "unpublish" -> k.marked /\ ~k.published
      copy == [run.copy EXCEPT ![g][on] = k] IN
  /\ \/ run.at = "wait" /\ k.status \notin InProgress
     \/ run.at = "unchanged"
  /\ run' = IF done /\ (\/ k = Absent
                        \/ k.status = "COMPLETE"
                        \/ run.at = "unchanged" /\ k.status \in StableStatuses)
            THEN IF Mine(g, copy) = {} /\ run.plan = {g}
                 THEN Idle
                 ELSE [run EXCEPT !.at = "step", !.op = "none", !.on = "none", !.copy = copy,
                                  !.plan = IF Mine(g, copy) = {} THEN @ \ {g} ELSE @]
            ELSE Idle
  /\ UNCHANGED <<stack, expired, release, late, faults>>

\* The job's time is up, its credentials expire, or one of its calls fails.
RunCut ==
  /\ faults < MaxFaults /\ faults' = faults + 1
  /\ run.at # "idle" /\ run' = Idle
  /\ UNCHANGED <<stack, expired, release, late>>

---------------------------------------------------------------------------
Watchdog == ListTaggedStackMappings \/ Discovery \/ Call \/ RefreshStack

Next ==
  \/ Watchdog \/ RunCut
  \/ \E g \in Groups :
       \/ Expire(g) \/ Activate(g) \/ ActivationStep(g) \/ RestoreStep(g)
       \/ CleanupRelease(g) \/ CleanupStep(g)
       \/ ReleaseCall(g) \/ ReleaseWaitEnds(g) \/ ReleaseCut(g)
       \/ \E s \in Suffixes :
            DeployStack(g, s) \/ OperationEnds(g, s) \/ OperationFails(g, s)

\* The schedule starts a run every hour and a run goes on until it ends;
\* CloudFormation ends what it began.
Fairness ==
  /\ WF_vars(Watchdog)
  /\ WF_vars(\E g \in Groups, s \in Suffixes : OperationEnds(g, s))

Spec == Init /\ [][Next]_vars
FairSpec == Spec /\ Fairness

---------------------------------------------------------------------------
(* Properties.                                                                  *)

StackState ==
  [status : StableStatuses \cup InProgress \cup {"ABSENT", "DELETE_FAILED"},
   marked : BOOLEAN, published : BOOLEAN, to : BOOLEAN \X BOOLEAN]
GroupState == [Suffixes -> StackState]

ReleaseState ==
  [at : {"ready", "activating", "restoring", "call", "wait", "failed", "cleaning", "ended"},
   op : WindowOps \cup {"none", "disable", "destroy"}, on : Suffixes \cup {"none"},
   seen : GroupState, left : SUBSET Public]

RunState ==
  [at : {"idle", "listed", "step", "wait", "unchanged"}, listed : SUBSET (Groups \X Suffixes),
   plan : SUBSET Groups, copy : [Groups -> GroupState],
   op : {"none", "mark", "unpublish", "delete"}, on : Suffixes \cup {"none"}]

\* The stacks and the variables hold what their types say; nothing but the api
\* and the web is ever published.
TypeOK ==
  /\ stack \in [Groups -> GroupState]
  /\ \A g \in Groups, s \in Suffixes : stack[g][s].published => s \in Public
  /\ expired \subseteq Groups /\ late \subseteq expired
  /\ release \in [Groups -> ReleaseState]
  /\ run \in RunState
  /\ faults \in 0 .. MaxFaults

\* A deployment or an activation that began in the window and outlived the
\* expiry acts on a group that is being deleted: the two programs check nothing
\* against that, and the properties below are about the other groups.

\* Wherever runs and cleanups are cut off, fail or meet, what is left of a group
\* is what a deployment leaves: the next run can take it up.
LeavesDeployPrefixes ==
  \A g \in Groups \ late : IsDeployPrefix(Present(g))

\* No stack of a group is deleted while the web or the api of the group is
\* published, by the watchdog or by the mandatory cleanup.
UnpublishesBeforeDeleting ==
  [][\A g \in Groups \ late', s \in Suffixes :
       stack'[g][s].status = "DELETING" /\ stack[g][s].status # "DELETING" =>
         \A u \in Suffixes : ~stack[g][u].published]_vars

\* A group that needs somebody: a deletion or a creation failed in it, or it is
\* no longer what a deployment leaves.
NeedsOperator(g) ==
  \/ \E s \in Suffixes : stack[g][s].status \in {"DELETE_FAILED", "NOT_CREATED"}
  \/ ~IsDeployPrefix(Present(g))

\* Every group is removed after its expiry, unless some group, this one or
\* another, needs an operator: one such group stops the runs for all of them.
ExpiredAreRemoved ==
  \A g \in Groups :
    (g \in expired) ~> (Present(g) = {} \/ \E h \in Groups : NeedsOperator(h))
=============================================================================
