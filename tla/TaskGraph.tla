----------------------------- MODULE TaskGraph -----------------------------
(***************************************************************************)
(* MissionTaskGraph (mission_control/tasks.py): the tasks of one mission,  *)
(* their dependencies, the approval decisions taken on them, the results   *)
(* recorded for them and the failure propagation that walks the graph.     *)
(*                                                                         *)
(* A call that raises before it has changed anything is not a step.  A     *)
(* call that raises half way is one: Cascade keeps whatever the breadth-   *)
(* first walk had already written, and torn records that it happened.      *)
(***************************************************************************)
EXTENDS Naturals, TaskLifecycle

CONSTANTS
  Task,        \* the task identifiers of the graph
  Deps,        \* Deps[t]: the dependencies list of t
  MaxRetries,  \* max_retries
  Retryable    \* Retryable[t]: the retryable flag of t

ASSUME GraphAssumption ==
  /\ Deps \in [Task -> SUBSET Task]
  /\ MaxRetries \in Nat
  /\ Retryable \in [Task -> BOOLEAN]

VARIABLES
  state,      \* task_state
  approval,   \* approval_state
  retries,    \* retry_count
  prevented,  \* terminally_prevented
  starts,     \* history: how often the task entered in_progress
  torn        \* history: some call raised after it had changed the graph

vars == <<state, approval, retries, prevented, starts, torn>>

TypeOK ==
  /\ state \in [Task -> TaskState]
  /\ approval \in [Task -> ApprovalState]
  /\ retries \in [Task -> Nat]
  /\ prevented \in [Task -> BOOLEAN]
  /\ starts \in [Task -> Nat]
  /\ torn \in BOOLEAN

-----------------------------------------------------------------------------
(* from_execution_plan: every task is pending; a step that needs approval  *)
(* carries the decision already taken on the whole plan.                   *)

Init ==
  /\ state = [t \in Task |-> "pending"]
  /\ \E planApproved \in BOOLEAN, needsApproval \in SUBSET Task :
       approval = [t \in Task |->
         CASE t \notin needsApproval -> "not_required"
           [] t \in needsApproval /\ planApproved -> "approved"
           [] OTHER -> "pending"]
  /\ retries = [t \in Task |-> 0]
  /\ prevented = [t \in Task |-> FALSE]
  /\ starts = [t \in Task |-> 0]
  /\ torn = FALSE

-----------------------------------------------------------------------------
(* transition_to, under transition_task's set of completed tasks.          *)

\* Wrong on purpose: a dependency only stops the task while it has not started.
StartedIsEnough(t) ==
  ~prevented[t] /\ \A d \in Deps[t] : state[d] \in {"in_progress", "completed"}

DependenciesMet(t) == ~prevented[t] /\ \A d \in Deps[t] : state[d] = "completed"

\* Wrong on purpose: one retry too many.
OneRetryTooMany(t) == Retryable[t] /\ retries[t] <= MaxRetries

CanRetry(t) == Retryable[t] /\ retries[t] < MaxRetries

\* Wrong on purpose: the proposed approval is not compared with the new state.
ApprovalUnchecked(t, new, ap) ==
  /\ new \in NextStates(state[t])
  /\ new \in GatedStates => DependenciesMet(t)
  /\ new = "retry_pending" => CanRetry(t)

\* Wrong on purpose: a failed task is retried whatever is left of its budget.
RetryUnchecked(t, new, ap) ==
  /\ new \in NextStates(state[t])
  /\ ap \in CompatibleApprovals(new)
  /\ new \in GatedStates => DependenciesMet(t)

CanTransition(t, new, ap) ==
  /\ new \in NextStates(state[t])
  /\ ap \in CompatibleApprovals(new)
  /\ new \in GatedStates => DependenciesMet(t)
  /\ new = "retry_pending" => CanRetry(t)

\* Wrong on purpose: the retry counter runs the wrong way.
RetriesCountDown(t, new, ap) ==
  /\ CanTransition(t, new, ap)
  /\ state' = [state EXCEPT ![t] = new]
  /\ approval' = [approval EXCEPT ![t] = ap]
  /\ retries' = [retries EXCEPT ![t] = IF new = "retry_pending" THEN @ - 1 ELSE @]
  /\ starts' = [starts EXCEPT ![t] = IF new = "in_progress" THEN @ + 1 ELSE @]

\* The new_state, approval_state and retry_count one accepted call writes.
Move(t, new, ap) ==
  /\ CanTransition(t, new, ap)
  /\ state' = [state EXCEPT ![t] = new]
  /\ approval' = [approval EXCEPT ![t] = ap]
  /\ retries' = [retries EXCEPT ![t] = IF new = "retry_pending" THEN @ + 1 ELSE @]
  /\ starts' = [starts EXCEPT ![t] = IF new = "in_progress" THEN @ + 1 ELSE @]

\* transition_task: any caller, any target, with or without an approval.
TransitionTask(t) ==
  /\ \E new \in TaskState, ap \in ApprovalState : Move(t, new, ap)
  /\ UNCHANGED <<prevented, torn>>

\* The dispatcher takes a ready or assigned task to in_progress.
StartExecution(t) ==
  /\ state[t] \in {"ready", "assigned"}
  /\ approval[t] \notin {"pending", "rejected", "escalated"}
  /\ DependenciesMet(t)
  /\ state' = [state EXCEPT ![t] = "in_progress"]
  /\ starts' = [starts EXCEPT ![t] = @ + 1]
  /\ UNCHANGED <<approval, retries, prevented, torn>>

-----------------------------------------------------------------------------
(* propagate_failure.                                                      *)

\* Every task the breadth-first walk from a task reaches: the least set with
\* its direct dependents that is closed under dependents.
Downstream == [s \in Task |->
  {t \in Task : \A reach \in SUBSET Task :
     (\A u \in Task : (s \in Deps[u] \/ \E v \in reach : v \in Deps[u]) => u \in reach)
       => t \in reach}]

\* The walk moves a dependent it reaches to blocked unless it is blocked or
\* failed already; the table refuses that for a task in progress.
Refuses(s, t) ==
  /\ s[t] \notin {"blocked", "failed"}
  /\ ~("blocked" \in NextStates(s[t]) /\ approval[t] \in CompatibleApprovals("blocked"))

\* Wrong on purpose: the walk marks the dependents and forgets to block them.
MarkWithoutBlocking(s, source, terminal) ==
  /\ state' = s
  /\ prevented' = [t \in Task |->
       IF t \in Downstream[source] \ {source} /\ s[t] \notin TerminalStates
       THEN terminal ELSE prevented[t]]
  /\ torn' = torn

\* s is the state function the caller has already written.  Terminal tasks are
\* skipped (and walked through).  If a dependent refuses, the ValueError leaves
\* behind what the caller and the walk had written before it; task names, which
\* order the siblings, are abstracted, so any part of the walk may come first.
Cascade(s, source, terminal) ==
  LET live == {t \in Downstream[source] \ {source} : s[t] \notin TerminalStates}
      refusing == {t \in live : Refuses(s, t)}
  IN \E done \in SUBSET live :
       /\ refusing = {} => done = live
       /\ done \cap refusing = {}
       /\ state' = [t \in Task |-> IF t \in done /\ s[t] # "failed" THEN "blocked" ELSE s[t]]
       /\ prevented' = [t \in Task |-> IF t \in done THEN terminal ELSE prevented[t]]
       /\ torn' = (torn \/ (refusing # {} /\ (done # {} \/ s # state)))

-----------------------------------------------------------------------------
(* approve_task, one action per branch (not_required does nothing).        *)

RejectApproval(t) ==
  /\ state[t] \notin TerminalStates
  /\ CanTransition(t, "rejected", "rejected")
  /\ approval' = [approval EXCEPT ![t] = "rejected"]
  /\ Cascade([state EXCEPT ![t] = "rejected"], t, TRUE)
  /\ UNCHANGED <<retries, starts>>

GrantApproval(t) ==
  /\ state[t] \notin TerminalStates
  /\ "approved" \in CompatibleApprovals(state[t])
  /\ approval' = [approval EXCEPT ![t] = "approved"]
  /\ UNCHANGED <<state, retries, prevented, starts, torn>>

\* A blocked task only changes its approval; any other task is blocked first.
RequestApproval(t, ap) ==
  /\ ap \in {"pending", "escalated"}
  /\ state[t] \notin TerminalStates
  /\ state[t] # "blocked" => CanTransition(t, "blocked", ap)
  /\ state' = [state EXCEPT ![t] = "blocked"]
  /\ approval' = [approval EXCEPT ![t] = ap]
  /\ UNCHANGED <<retries, prevented, starts, torn>>

-----------------------------------------------------------------------------
(* mark_task_result.                                                       *)

MarkCompleted(t) ==
  /\ Move(t, "completed", approval[t])
  /\ UNCHANGED <<prevented, torn>>

\* Wrong on purpose: every failure is propagated as terminal.
MarkFailedForGood(t) ==
  /\ CanTransition(t, "failed", approval[t])
  /\ Cascade([state EXCEPT ![t] = "failed"], t, TRUE)
  /\ UNCHANGED <<approval, retries, starts>>

MarkFailed(t) ==
  /\ CanTransition(t, "failed", approval[t])
  /\ Cascade([state EXCEPT ![t] = "failed"], t, ~CanRetry(t))
  /\ UNCHANGED <<approval, retries, starts>>

\* propagate_failure called by itself: it is public, and its callers decide.
PropagateFailure(t, terminal) ==
  /\ Cascade(state, t, terminal)
  /\ UNCHANGED <<approval, retries, starts>>

-----------------------------------------------------------------------------
Next ==
  \E t \in Task :
    \/ TransitionTask(t)
    \/ StartExecution(t)
    \/ RejectApproval(t)
    \/ GrantApproval(t)
    \/ \E ap \in ApprovalState : RequestApproval(t, ap)
    \/ MarkCompleted(t)
    \/ MarkFailed(t)

Spec == Init /\ [][Next]_vars

\* The same graph when callers also call propagate_failure directly.
OpenNext ==
  \/ Next
  \/ \E t \in Task, terminal \in BOOLEAN : PropagateFailure(t, terminal)

OpenSpec == Init /\ [][OpenNext]_vars

-----------------------------------------------------------------------------
(* resolve_mission_state: the first rule that applies.                     *)

\* Wrong on purpose: failures are looked at before rejections.
FailureFirst ==
  LET some(s) == \E t \in Task : state[t] = s
  IN  IF some("failed")                                     THEN "failed"
      ELSE IF some("rejected")                              THEN "rejected"
      ELSE IF \A t \in Task : state[t] = "completed"        THEN "completed"
      ELSE "blocked"

MissionState ==
  LET some(s) == \E t \in Task : state[t] = s
  IN  IF Task = {}                                               THEN "blocked"
      ELSE IF some("rejected")                                   THEN "rejected"
      ELSE IF some("failed")                                     THEN "failed"
      ELSE IF \E t \in Task : state[t] = "blocked" /\ prevented[t] THEN "failed"
      ELSE IF some("cancelled")                                  THEN "cancelled"
      ELSE IF \A t \in Task : state[t] = "completed"             THEN "completed"
      ELSE "blocked"

-----------------------------------------------------------------------------
(* Properties.                                                             *)

\* The states a task can be in only after its dependencies let it go ahead.
Released == {"ready", "assigned", "in_progress", "completed", "failed", "retry_pending"}

\* A task nothing can run any more: closed, or failed with no retry left.
Dead(t) ==
  \/ state[t] \in {"rejected", "cancelled"}
  \/ state[t] = "failed" /\ ~CanRetry(t)

\* Approval gates execution: whatever order decisions, retries and blocks come
\* in, a task never sits in a state its approval does not allow (so nothing runs
\* while its approval is pending, rejected or escalated).
ApprovalGate == \A t \in Task : approval[t] \in CompatibleApprovals(state[t])

\* Dependencies gate execution, and keep doing so: while a task is anywhere from
\* ready to finished, all its dependencies are completed, although they were only
\* looked at when it was released.
DependencyGate ==
  \A t \in Task : state[t] \in Released => \A d \in Deps[t] : state[d] = "completed"

\* Failure propagation reaches tasks that have not started: a task marked
\* terminally prevented is blocked or closed, never one that could run or ran.
PreventedNeverRuns ==
  \A t \in Task : prevented[t] => state[t] \in {"blocked", "rejected", "cancelled"}

\* approve_task and mark_task_result change the task first and walk the graph
\* after: the walk never meets a dependent it cannot block, so neither call ever
\* raises with the graph half updated.
NoTornCall == ~torn

\* A task is written off only because something it depends on, directly or not, is
\* dead for good: recoverable dependency blocks stay clearable.
PreventedHasDeadCause ==
  \A t \in Task : prevented[t] => \E a \in Task : t \in Downstream[a] /\ Dead(a)

\* The retry budget bounds the work: a task that waits was started once per retry,
\* one that runs or ran was started once more, and retries never exceed max_retries,
\* so no order of failures, blocks and approvals buys a start the budget does not.
AttemptsWithinBudget ==
  \A t \in Task :
    /\ retries[t] <= MaxRetries
    /\ starts[t] <= retries[t] + 1
    /\ state[t] \in {"pending", "blocked", "ready", "assigned", "retry_pending"} =>
         starts[t] = retries[t]
    /\ state[t] \in {"in_progress", "completed", "failed"} => starts[t] = retries[t] + 1

\* What is dead stays dead: no approval, retry or transition brings back a task
\* that was closed or ran out of retries.
DeadStaysDead == [][\A t \in Task : Dead(t) => Dead(t)']_vars

\* The verdicts completed and rejected are final: no later call on any task of the
\* graph changes what resolve_mission_state answered.
VerdictIsFinal ==
  [][(MissionState \in {"completed", "rejected"}) => MissionState' = MissionState]_vars

\* A terminal dependency failure is terminal for the tasks downstream of it.
PreventionIsTerminal == [][\A t \in Task : prevented[t] => prevented'[t]]_vars

=============================================================================
