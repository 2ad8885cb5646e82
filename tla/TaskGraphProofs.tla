-------------------------- MODULE TaskGraphProofs --------------------------
(***************************************************************************)
(* Theorems about TaskGraph, for every set of tasks, every dependency      *)
(* relation and every retry budget.                                        *)
(*                                                                         *)
(* The heart is DownstreamNotReleased: while a task is not completed, the  *)
(* dependency gate keeps everything downstream of it from being released.  *)
(* Hence the failure walk only ever meets tasks that it can block, or that *)
(* are closed, and no public call leaves the graph half updated.           *)
(***************************************************************************)
EXTENDS TaskGraph, TLAPS

\* DependencyGate and ApprovalGate of any state function, so that the walk can be
\* reasoned about from the state its caller has already written.
Gate(s) ==
  \A t \in Task : s[t] \in Released => \A d \in Deps[t] : s[d] = "completed"

\* The inductive invariant: the gates alone do not survive the walk, which needs to
\* know that a prevented task is not under way.
IInv ==
  /\ TypeOK
  /\ ApprovalGate
  /\ DependencyGate
  /\ PreventedNeverRuns
  /\ NoTornCall

\* While a task is not completed nothing downstream of it, however far, is released
\* (propagate_failure reaches only tasks that never got past their dependencies).
LEMMA DownstreamNotReleased ==
  ASSUME NEW s \in [Task -> TaskState], Gate(s),
         NEW source \in Task, s[source] # "completed",
         NEW t \in Downstream[source]
  PROVE  t \in Task /\ s[t] \notin Released
<1> DEFINE X == {u \in Task : s[u] \notin Released}
<1>1. X \in SUBSET Task
  OBVIOUS
<1>2. \A u \in Task : source \in Deps[u] => u \in X
  BY DEF Gate
<1>3. \A u \in Task : (\E v \in X : v \in Deps[u]) => u \in X
  <2> SUFFICES ASSUME NEW u \in Task, NEW v \in X, v \in Deps[u]
               PROVE  u \in X
    OBVIOUS
  <2>1. s[v] # "completed"
    BY DEF Released
  <2> QED
    BY <2>1 DEF Gate
<1>4. t \in Task /\ (\A reach \in SUBSET Task :
        (\A u \in Task : (source \in Deps[u] \/ \E v \in reach : v \in Deps[u]) => u \in reach)
          => t \in reach)
  BY DEF Downstream
<1>5. t \in X
  <2> HIDE DEF X
  <2> QED
    BY <1>1, <1>2, <1>3, <1>4
<1> QED
  BY <1>4, <1>5

\* The failure walk completes: from a state that respects the gates, it blocks every
\* task downstream of its source that is not closed, and raises nothing.
LEMMA CascadeCompletes ==
  ASSUME NEW s \in [Task -> TaskState], Gate(s),
         \A u \in Task : s[u] \in {"pending", "blocked"} => approval[u] \in CompatibleApprovals(s[u]),
         NEW source \in Task, s[source] # "completed",
         NEW terminal, ~torn, Cascade(s, source, terminal)
  PROVE  \E live \in SUBSET Task :
           /\ source \notin live
           /\ \A t \in live : s[t] \in {"pending", "blocked"}
           /\ state' = [t \in Task |-> IF t \in live THEN "blocked" ELSE s[t]]
           /\ prevented' = [t \in Task |-> IF t \in live THEN terminal ELSE prevented[t]]
           /\ torn' = FALSE
<1> DEFINE live == {t \in Downstream[source] \ {source} : s[t] \notin TerminalStates}
           refusing == {t \in live : Refuses(s, t)}
<1>1. \A t \in live : t \in Task /\ s[t] \in {"pending", "blocked"}
  BY DownstreamNotReleased DEF Released, TaskState, TerminalStates
<1>2. refusing = {}
  BY <1>1 DEF Refuses, NextStates, CompatibleApprovals
<1>3. PICK done \in SUBSET live :
        /\ refusing = {} => done = live
        /\ done \cap refusing = {}
        /\ state' = [t \in Task |-> IF t \in done /\ s[t] # "failed" THEN "blocked" ELSE s[t]]
        /\ prevented' = [t \in Task |-> IF t \in done THEN terminal ELSE prevented[t]]
        /\ torn' = (torn \/ (refusing # {} /\ (done # {} \/ s # state)))
  BY DEF Cascade
<1>4. done = live
  BY <1>2, <1>3
<1>5. state' = [t \in Task |-> IF t \in live THEN "blocked" ELSE s[t]]
  <2>1. \A t \in Task : (t \in done /\ s[t] # "failed") <=> t \in live
    BY <1>1, <1>4
  <2> HIDE DEF live
  <2> QED
    BY <1>3, <2>1, Zenon
<1>6. torn' = FALSE
  BY <1>2, <1>3, Zenon
<1>7. live \in SUBSET Task /\ source \notin live
  BY <1>1
<1> HIDE DEF live
<1> QED
  BY <1>1, <1>3, <1>4, <1>5, <1>6, <1>7

-----------------------------------------------------------------------------
(* The actions.                                                            *)

\* One task that is not completed changes: the form of every call but the walk.
LEMMA OneTaskChanges ==
  ASSUME IInv, NEW t \in Task, NEW new \in TaskState, NEW ap \in ApprovalState,
         state[t] # "completed",
         ap \in CompatibleApprovals(new),
         new \in Released => \A d \in Deps[t] : state[d] = "completed",
         prevented[t] => new \in {"blocked", "rejected", "cancelled"},
         state' = [state EXCEPT ![t] = new],
         approval' = [approval EXCEPT ![t] = ap],
         retries' \in [Task -> Nat], starts' \in [Task -> Nat],
         UNCHANGED <<prevented, torn>>
  PROVE  IInv'
<1>1. TypeOK'
  BY DEF IInv, TypeOK
<1>2. ApprovalGate'
  <2> SUFFICES ASSUME NEW u \in Task
               PROVE  approval'[u] \in CompatibleApprovals(state'[u])
    BY DEF ApprovalGate
  <2>1. CASE u = t
    <3>1. approval'[u] = ap /\ state'[u] = new
      BY <2>1 DEF IInv, TypeOK
    <3> QED
      BY <3>1
  <2>2. CASE u # t
    <3>1. approval'[u] = approval[u] /\ state'[u] = state[u]
      BY <2>2 DEF IInv, TypeOK
    <3> QED
      BY <3>1 DEF IInv, ApprovalGate
  <2> QED
    BY <2>1, <2>2
<1>3. DependencyGate'
  <2> SUFFICES ASSUME NEW u \in Task, state'[u] \in Released, NEW d \in Deps[u]
               PROVE  state'[d] = "completed"
    BY DEF DependencyGate
  <2>1. state[d] = "completed"
    BY DEF IInv, TypeOK, DependencyGate
  <2> QED
    BY <2>1, GraphAssumption DEF IInv, TypeOK, GraphAssumption
<1>4. PreventedNeverRuns'
  BY DEF IInv, TypeOK, PreventedNeverRuns
<1>5. NoTornCall'
  BY DEF IInv, NoTornCall
<1> QED
  BY <1>1, <1>2, <1>3, <1>4, <1>5 DEF IInv

\* One task fails or is rejected and the walk follows: the form of the two calls that
\* propagate a failure.
LEMMA FailureIsPropagated ==
  ASSUME IInv, NEW t \in Task, NEW new \in {"failed", "rejected"},
         NEW ap \in ApprovalState, NEW terminal \in BOOLEAN,
         state[t] # "completed",
         ap \in CompatibleApprovals(new),
         new = "failed" => state[t] = "in_progress",
         approval' = [approval EXCEPT ![t] = ap],
         Cascade([state EXCEPT ![t] = new], t, terminal),
         UNCHANGED <<retries, starts>>
  PROVE  IInv'
<1> DEFINE s == [state EXCEPT ![t] = new]
<1> USE GraphAssumption DEF GraphAssumption
<1>1. s \in [Task -> TaskState] /\ s[t] # "completed"
  BY DEF IInv, TypeOK, TaskState
<1>2. Gate(s)
  <2> SUFFICES ASSUME NEW u \in Task, s[u] \in Released, NEW d \in Deps[u]
               PROVE  s[d] = "completed"
    BY DEF Gate
  <2>1. state[d] = "completed"
    BY DEF IInv, TypeOK, DependencyGate, Released
  <2> QED
    BY <2>1 DEF IInv, TypeOK
<1>3. \A u \in Task : s[u] \in {"pending", "blocked"} => approval[u] \in CompatibleApprovals(s[u])
  <2> SUFFICES ASSUME NEW u \in Task, s[u] \in {"pending", "blocked"}
               PROVE  approval[u] \in CompatibleApprovals(s[u])
    OBVIOUS
  <2>1. s[u] = state[u]
    BY DEF IInv, TypeOK
  <2> QED
    BY <2>1 DEF IInv, ApprovalGate
<1>4. PICK live \in SUBSET Task :
        /\ t \notin live
        /\ \A u \in live : s[u] \in {"pending", "blocked"}
        /\ state' = [u \in Task |-> IF u \in live THEN "blocked" ELSE s[u]]
        /\ prevented' = [u \in Task |-> IF u \in live THEN terminal ELSE prevented[u]]
        /\ torn' = FALSE
  <2>1. ~torn /\ Cascade(s, t, terminal)
    BY DEF IInv, NoTornCall
  <2> HIDE DEF s
  <2> QED
    BY <1>1, <1>2, <1>3, <2>1, CascadeCompletes
<1>5. TypeOK'
  BY <1>1, <1>4 DEF IInv, TypeOK, TaskState
<1>6. ApprovalGate'
  <2> SUFFICES ASSUME NEW u \in Task
               PROVE  approval'[u] \in CompatibleApprovals(state'[u])
    BY DEF ApprovalGate
  <2>1. CASE u = t
    <3>1. approval'[u] = ap /\ state'[u] = new
      BY <1>4, <2>1 DEF IInv, TypeOK
    <3> QED
      BY <3>1
  <2>2. CASE u \in live
    <3>1. approval'[u] = approval[u] /\ state'[u] = "blocked" /\ s[u] \in {"pending", "blocked"}
      BY <1>4, <2>2 DEF IInv, TypeOK
    <3> QED
      BY <1>3, <3>1 DEF CompatibleApprovals
  <2>3. CASE u # t /\ u \notin live
    <3>1. approval'[u] = approval[u] /\ state'[u] = state[u]
      BY <1>4, <2>3 DEF IInv, TypeOK
    <3> QED
      BY <3>1 DEF IInv, ApprovalGate
  <2> QED
    BY <2>1, <2>2, <2>3
<1>7. DependencyGate'
  <2> SUFFICES ASSUME NEW u \in Task, state'[u] \in Released, NEW d \in Deps[u]
               PROVE  state'[d] = "completed"
    BY DEF DependencyGate
  <2>1. s[u] \in Released
    <3> HIDE DEF s
    <3> QED
      BY <1>4 DEF Released
  <2>2. d \in Task /\ s[d] = "completed"
    <3> HIDE DEF s
    <3> QED
      BY <1>2, <2>1 DEF Gate
  <2> HIDE DEF s
  <2> QED
    BY <1>4, <2>2
<1>8. PreventedNeverRuns'
  <2> SUFFICES ASSUME NEW u \in Task, prevented'[u]
               PROVE  state'[u] \in {"blocked", "rejected", "cancelled"}
    BY DEF PreventedNeverRuns
  <2>1. CASE u \in live
    BY <1>4, <2>1
  <2>2. CASE u \notin live
    <3>1. prevented[u] /\ state[u] \in {"blocked", "rejected", "cancelled"}
      BY <1>4, <2>2 DEF IInv, TypeOK, PreventedNeverRuns
    <3> QED
      BY <1>4, <2>2, <3>1 DEF IInv, TypeOK
  <2> QED
    BY <2>1, <2>2
<1>9. NoTornCall'
  BY <1>4 DEF NoTornCall
<1> QED
  BY <1>5, <1>6, <1>7, <1>8, <1>9 DEF IInv

\* The plan's graph starts inside the invariant: nothing is released, so nothing owes
\* anything to its dependencies.
LEMMA InitEstablishes == Init => IInv
<1> SUFFICES ASSUME Init
             PROVE  IInv
  OBVIOUS
<1>1. PICK planApproved \in BOOLEAN, needsApproval \in SUBSET Task :
        approval = [t \in Task |->
          CASE t \notin needsApproval -> "not_required"
            [] t \in needsApproval /\ planApproved -> "approved"
            [] OTHER -> "pending"]
  BY DEF Init
<1>2. \A t \in Task : approval[t] \in {"not_required", "approved", "pending"}
  BY <1>1
<1>3. TypeOK
  BY <1>1, <1>2 DEF Init, TypeOK, TaskState, ApprovalState
<1>4. ApprovalGate
  BY <1>2 DEF Init, ApprovalGate, CompatibleApprovals
<1>5. DependencyGate /\ PreventedNeverRuns /\ NoTornCall
  BY DEF Init, DependencyGate, Released, PreventedNeverRuns, NoTornCall
<1> QED
  BY <1>3, <1>4, <1>5 DEF IInv

\* What one accepted transition_to does keeps the invariant, whoever asks for it and
\* whatever state it asks for.
LEMMA MovePreserves ==
  ASSUME IInv, NEW t \in Task, NEW new \in TaskState, NEW ap \in ApprovalState,
         Move(t, new, ap), UNCHANGED <<prevented, torn>>
  PROVE  IInv'
<1>1. /\ new \in NextStates(state[t])
      /\ ap \in CompatibleApprovals(new)
      /\ new \in GatedStates => DependenciesMet(t)
  BY DEF Move, CanTransition
<1>2. state[t] # "completed"
  BY <1>1 DEF NextStates
<1>3. new \in Released => \A d \in Deps[t] : state[d] = "completed"
  <2>1. CASE new \in GatedStates
    BY <1>1, <2>1 DEF DependenciesMet
  <2>2. CASE new \in {"completed", "failed", "retry_pending"}
    <3>1. state[t] \in Released
      BY <1>1, <2>2 DEF NextStates, Released, IInv, TypeOK, TaskState
    <3> QED
      BY <3>1 DEF IInv, DependencyGate
  <2> QED
    BY <2>1, <2>2 DEF Released, GatedStates
<1>4. prevented[t] => new \in {"blocked", "rejected", "cancelled"}
  <2> SUFFICES ASSUME prevented[t]
               PROVE  new \in {"blocked", "rejected", "cancelled"}
    OBVIOUS
  <2>1. state[t] \in {"blocked", "rejected", "cancelled"} /\ new # "ready"
    BY <1>1 DEF IInv, PreventedNeverRuns, DependenciesMet, GatedStates
  <2> QED
    BY <1>1, <2>1 DEF NextStates
<1>5. retries' \in [Task -> Nat] /\ starts' \in [Task -> Nat]
  BY DEF Move, IInv, TypeOK
<1>6. state' = [state EXCEPT ![t] = new] /\ approval' = [approval EXCEPT ![t] = ap]
  BY DEF Move
<1> QED
  BY <1>1, <1>2, <1>3, <1>4, <1>5, <1>6, OneTaskChanges

\* Every step of the graph keeps the invariant.
LEMMA NextPreserves == IInv /\ [Next]_vars => IInv'
<1> SUFFICES ASSUME IInv, [Next]_vars
             PROVE  IInv'
  OBVIOUS
<1>1. CASE UNCHANGED vars
  BY <1>1 DEF vars, IInv, TypeOK, ApprovalGate, DependencyGate, PreventedNeverRuns, NoTornCall
<1>2. ASSUME NEW t \in Task, TransitionTask(t)
      PROVE  IInv'
  BY <1>2, MovePreserves DEF TransitionTask
<1>3. ASSUME NEW t \in Task, StartExecution(t)
      PROVE  IInv'
  <2>1. /\ state[t] # "completed" /\ approval[t] \in ApprovalState
        /\ approval[t] \in CompatibleApprovals("in_progress")
    BY <1>3 DEF StartExecution, IInv, TypeOK, ApprovalState, CompatibleApprovals
  <2>2. ~prevented[t] /\ \A d \in Deps[t] : state[d] = "completed"
    BY <1>3 DEF StartExecution, DependenciesMet
  <2>3. /\ retries' \in [Task -> Nat] /\ starts' \in [Task -> Nat]
        /\ state' = [state EXCEPT ![t] = "in_progress"]
        /\ approval' = [approval EXCEPT ![t] = approval[t]]
        /\ UNCHANGED <<prevented, torn>>
    BY <1>3 DEF StartExecution, IInv, TypeOK
  <2>4. "in_progress" \in TaskState
    BY DEF TaskState
  <2> QED
    BY <2>1, <2>2, <2>3, <2>4, OneTaskChanges
<1>4. ASSUME NEW t \in Task, RejectApproval(t)
      PROVE  IInv'
  <2>1. /\ state[t] # "completed" /\ "rejected" \in ApprovalState
        /\ "rejected" \in CompatibleApprovals("rejected")
    BY <1>4 DEF RejectApproval, TerminalStates, ApprovalState, CompatibleApprovals
  <2> QED
    BY <1>4, <2>1, FailureIsPropagated DEF RejectApproval
<1>5. ASSUME NEW t \in Task, GrantApproval(t)
      PROVE  IInv'
  <2>1. /\ state[t] \in TaskState /\ state[t] # "completed" /\ "approved" \in ApprovalState
        /\ "approved" \in CompatibleApprovals(state[t])
    BY <1>5 DEF GrantApproval, TerminalStates, ApprovalState, IInv, TypeOK
  <2>2. /\ state[t] \in Released => \A d \in Deps[t] : state[d] = "completed"
        /\ prevented[t] => state[t] \in {"blocked", "rejected", "cancelled"}
    BY DEF IInv, DependencyGate, PreventedNeverRuns
  <2>3. /\ retries' \in [Task -> Nat] /\ starts' \in [Task -> Nat]
        /\ state' = [state EXCEPT ![t] = state[t]]
        /\ approval' = [approval EXCEPT ![t] = "approved"]
        /\ UNCHANGED <<prevented, torn>>
    BY <1>5 DEF GrantApproval, IInv, TypeOK
  <2> QED
    BY <2>1, <2>2, <2>3, OneTaskChanges
<1>6. ASSUME NEW t \in Task, NEW ap \in ApprovalState, RequestApproval(t, ap)
      PROVE  IInv'
  <2>1. /\ state[t] # "completed" /\ "blocked" \in TaskState /\ "blocked" \notin Released
        /\ ap \in CompatibleApprovals("blocked")
    BY <1>6 DEF RequestApproval, TerminalStates, TaskState, Released, CompatibleApprovals
  <2>2. /\ retries' \in [Task -> Nat] /\ starts' \in [Task -> Nat]
        /\ state' = [state EXCEPT ![t] = "blocked"]
        /\ approval' = [approval EXCEPT ![t] = ap]
        /\ UNCHANGED <<prevented, torn>>
    BY <1>6 DEF RequestApproval, IInv, TypeOK
  <2> QED
    BY <2>1, <2>2, OneTaskChanges
<1>7. ASSUME NEW t \in Task, MarkCompleted(t)
      PROVE  IInv'
  <2>1. approval[t] \in ApprovalState /\ "completed" \in TaskState
    BY DEF IInv, TypeOK, TaskState
  <2> QED
    BY <1>7, <2>1, MovePreserves DEF MarkCompleted
<1>8. ASSUME NEW t \in Task, MarkFailed(t)
      PROVE  IInv'
  <2>1. /\ approval[t] \in ApprovalState /\ approval[t] \in CompatibleApprovals("failed")
        /\ "failed" \in NextStates(state[t]) /\ (~CanRetry(t)) \in BOOLEAN
    BY <1>8 DEF MarkFailed, CanTransition, IInv, TypeOK
  <2>2. state[t] = "in_progress"
    BY <2>1 DEF NextStates, IInv, TypeOK, TaskState
  <2>3. /\ approval' = [approval EXCEPT ![t] = approval[t]]
        /\ UNCHANGED <<retries, starts>>
        /\ Cascade([state EXCEPT ![t] = "failed"], t, ~CanRetry(t))
    BY <1>8 DEF MarkFailed, IInv, TypeOK
  <2> QED
    BY <2>1, <2>2, <2>3, FailureIsPropagated
<1> QED
  BY <1>1, <1>2, <1>3, <1>4, <1>5, <1>6, <1>7, <1>8 DEF Next

-----------------------------------------------------------------------------
(* The theorems.                                                           *)

\* The invariant holds in every reachable state.
LEMMA Invariance == Spec => []IInv
  BY InitEstablishes, NextPreserves, PTL DEF Spec

\* Every field of every task keeps its type (MissionTask).
THEOREM TypeCorrect == Spec => []TypeOK
  BY Invariance, PTL DEF IInv

\* No order of approval decisions, blocks, retries and propagated failures leaves a
\* task in a state its approval does not allow.
THEOREM ApprovalGates == Spec => []ApprovalGate
  BY Invariance, PTL DEF IInv

\* In every graph, cyclic ones included, a released task has only completed
\* dependencies, for as long as it is released.
THEOREM DependenciesGate == Spec => []DependencyGate
  BY Invariance, PTL DEF IInv

\* A task marked terminally prevented is never under way, in any graph.
THEOREM PreventionStopsWork == Spec => []PreventedNeverRuns
  BY Invariance, PTL DEF IInv

\* approve_task and mark_task_result are all or nothing, in any graph.
THEOREM CallsAreAtomic == Spec => []NoTornCall
  BY Invariance, PTL DEF IInv

-----------------------------------------------------------------------------
(* What holds although propagate_failure is public: OpenSpec.  It may then *)
(* be called for a task that did not fail, so that NoTornCall and          *)
(* PreventedNeverRuns are lost; what is left is argued task by task.       *)

\* What one call, whichever it is, may do to one task: nothing, a transition of the
\* table within the retry budget, the start of its execution, or a block by the walk.
\* It leaves the task with a compatible approval and releases it only by its gate.
TaskStep(u) ==
  /\ \/ state'[u] = state[u] /\ retries'[u] = retries[u] /\ starts'[u] = starts[u]
     \/ /\ state'[u] \in NextStates(state[u])
        /\ retries'[u] = (IF state'[u] = "retry_pending" THEN retries[u] + 1 ELSE retries[u])
        /\ state'[u] = "retry_pending" => CanRetry(u)
        /\ starts'[u] = (IF state'[u] = "in_progress" THEN starts[u] + 1 ELSE starts[u])
     \/ /\ state[u] \in {"ready", "assigned"} /\ state'[u] = "in_progress"
        /\ retries'[u] = retries[u] /\ starts'[u] = starts[u] + 1
     \/ /\ state[u] \in {"pending", "blocked", "ready", "assigned", "retry_pending"}
        /\ state'[u] = "blocked" /\ retries'[u] = retries[u] /\ starts'[u] = starts[u]
  /\ approval'[u] \in CompatibleApprovals(state'[u])
  /\ state'[u] \in Released =>
       state[u] \in Released \/ \A d \in Deps[u] : state[d] = "completed"

\* The walk, from whatever state its caller has written: it blocks a part of what is
\* downstream of its source, never what runs, has failed or is closed.
LEMMA CascadeEffect ==
  ASSUME NEW s \in [Task -> TaskState], NEW source \in Task, NEW terminal \in BOOLEAN,
         torn \in BOOLEAN, Cascade(s, source, terminal)
  PROVE  \E done \in SUBSET Task :
           /\ source \notin done
           /\ \A u \in done :
                /\ u \in Downstream[source]
                /\ s[u] \in {"pending", "blocked", "ready", "assigned", "retry_pending", "failed"}
                /\ s[u] \notin {"blocked", "failed"} => approval[u] \in CompatibleApprovals("blocked")
           /\ state' = [u \in Task |-> IF u \in done /\ s[u] # "failed" THEN "blocked" ELSE s[u]]
           /\ prevented' = [u \in Task |-> IF u \in done THEN terminal ELSE prevented[u]]
           /\ torn' \in BOOLEAN
<1> DEFINE live == {t \in Downstream[source] \ {source} : s[t] \notin TerminalStates}
           refusing == {t \in live : Refuses(s, t)}
<1>1. PICK done \in SUBSET live :
        /\ done \cap refusing = {}
        /\ state' = [t \in Task |-> IF t \in done /\ s[t] # "failed" THEN "blocked" ELSE s[t]]
        /\ prevented' = [t \in Task |-> IF t \in done THEN terminal ELSE prevented[t]]
        /\ torn' = (torn \/ (refusing # {} /\ (done # {} \/ s # state)))
  BY DEF Cascade
<1>2. \A u \in done : u \in Downstream[source] /\ u # source /\ s[u] \notin TerminalStates
                      /\ ~Refuses(s, u)
  BY <1>1
<1>3. \A u \in Downstream[source] : u \in Task
  BY DEF Downstream
<1>4. torn' \in BOOLEAN
  BY <1>1, Zenon
<1> HIDE DEF live, refusing
<1>5. \A u \in done :
        /\ u \in Task
        /\ s[u] \in {"pending", "blocked", "ready", "assigned", "retry_pending", "failed"}
        /\ s[u] \notin {"blocked", "failed"} => approval[u] \in CompatibleApprovals("blocked")
  BY <1>2, <1>3 DEF Refuses, TerminalStates, TaskState, NextStates
<1> QED
  BY <1>1, <1>2, <1>4, <1>5

\* One task changes and nothing else does.
LEMMA OneTaskSteps ==
  ASSUME TypeOK, ApprovalGate, NEW t \in Task, NEW new \in TaskState, NEW ap \in ApprovalState,
         state' = [state EXCEPT ![t] = new],
         approval' = [approval EXCEPT ![t] = ap],
         retries' \in [Task -> Nat], starts' \in [Task -> Nat],
         \A u \in Task \ {t} : retries'[u] = retries[u] /\ starts'[u] = starts[u],
         UNCHANGED <<prevented, torn>>,
         TaskStep(t)
  PROVE  TypeOK' /\ \A u \in Task : TaskStep(u)
<1>1. TypeOK'
  BY DEF TypeOK
<1>2. ASSUME NEW u \in Task \ {t}
      PROVE  TaskStep(u)
  <2>1. state'[u] = state[u] /\ approval'[u] = approval[u]
    BY DEF TypeOK
  <2> QED
    BY <2>1 DEF TaskStep, ApprovalGate
<1> QED
  BY <1>1, <1>2

\* A task is written, or not, and the walk follows.
LEMMA WalkSteps ==
  ASSUME TypeOK, ApprovalGate, NEW t \in Task, NEW new \in TaskState, NEW ap \in ApprovalState,
         NEW terminal \in BOOLEAN,
         approval' = [approval EXCEPT ![t] = ap],
         ap \in CompatibleApprovals(new),
         new = state[t] \/ (new \in NextStates(state[t]) /\ new \in {"failed", "rejected"}),
         new = "failed" => state[t] \in {"in_progress", "failed"},
         Cascade([state EXCEPT ![t] = new], t, terminal),
         UNCHANGED <<retries, starts>>
  PROVE  TypeOK' /\ \A u \in Task : TaskStep(u)
<1> DEFINE s == [state EXCEPT ![t] = new]
<1>1. s \in [Task -> TaskState] /\ torn \in BOOLEAN
  BY DEF TypeOK
<1>2. PICK done \in SUBSET Task :
           /\ t \notin done
           /\ \A u \in done :
                /\ u \in Downstream[t]
                /\ s[u] \in {"pending", "blocked", "ready", "assigned", "retry_pending", "failed"}
                /\ s[u] \notin {"blocked", "failed"} => approval[u] \in CompatibleApprovals("blocked")
           /\ state' = [u \in Task |-> IF u \in done /\ s[u] # "failed" THEN "blocked" ELSE s[u]]
           /\ prevented' = [u \in Task |-> IF u \in done THEN terminal ELSE prevented[u]]
           /\ torn' \in BOOLEAN
  <2> HIDE DEF s
  <2>1. Cascade(s, t, terminal)
    BY DEF s
  <2> QED
    BY <1>1, <2>1, CascadeEffect
<1>3. s[t] = new /\ \A u \in Task \ {t} : s[u] = state[u]
  BY DEF TypeOK
<1> HIDE DEF s
<1>4. TypeOK'
  <2>1. state' \in [Task -> TaskState]
    BY <1>1, <1>2 DEF TaskState
  <2>2. prevented' \in [Task -> BOOLEAN]
    BY <1>2 DEF TypeOK
  <2> QED
    BY <1>2, <2>1, <2>2 DEF TypeOK
<1>5. TaskStep(t)
  <2>1. state'[t] = new /\ approval'[t] = ap /\ retries'[t] = retries[t] /\ starts'[t] = starts[t]
    BY <1>2, <1>3 DEF TypeOK
  <2>2. CASE new = state[t]
    BY <2>1, <2>2 DEF TaskStep
  <2>3. CASE new \in NextStates(state[t]) /\ new \in {"failed", "rejected"}
    BY <2>1, <2>3 DEF TaskStep, Released
  <2> QED
    BY <2>2, <2>3
<1>6. ASSUME NEW u \in Task \ {t}
      PROVE  TaskStep(u)
  <2>1. approval'[u] = approval[u] /\ retries'[u] = retries[u] /\ starts'[u] = starts[u]
        /\ s[u] = state[u]
    BY <1>3 DEF TypeOK
  <2>2. CASE u \in done /\ s[u] # "failed"
    <3>1. state'[u] = "blocked"
          /\ state[u] \in {"pending", "blocked", "ready", "assigned", "retry_pending"}
      BY <1>2, <2>1, <2>2
    <3>2. approval[u] \in CompatibleApprovals("blocked")
      BY <1>2, <2>1, <2>2 DEF ApprovalGate
    <3> QED
      BY <2>1, <3>1, <3>2 DEF TaskStep, Released
  <2>3. CASE ~(u \in done /\ s[u] # "failed")
    <3>1. state'[u] = state[u]
      BY <1>2, <2>1, <2>3
    <3> QED
      BY <2>1, <3>1 DEF TaskStep, ApprovalGate
  <2> QED
    BY <2>2, <2>3
<1> QED
  BY <1>4, <1>5, <1>6

\* One accepted transition_to is a task step of its task.
LEMMA MoveSteps ==
  ASSUME TypeOK, ApprovalGate, DependencyGate,
         NEW t \in Task, NEW new \in TaskState, NEW ap \in ApprovalState,
         Move(t, new, ap), UNCHANGED <<prevented, torn>>
  PROVE  TypeOK' /\ \A u \in Task : TaskStep(u)
<1>1. /\ new \in NextStates(state[t]) /\ ap \in CompatibleApprovals(new)
      /\ new \in GatedStates => \A d \in Deps[t] : state[d] = "completed"
      /\ new = "retry_pending" => CanRetry(t)
  BY DEF Move, CanTransition, DependenciesMet
<1>2. /\ state' = [state EXCEPT ![t] = new]
      /\ approval' = [approval EXCEPT ![t] = ap]
      /\ retries' = [retries EXCEPT ![t] = IF new = "retry_pending" THEN @ + 1 ELSE @]
      /\ starts' = [starts EXCEPT ![t] = IF new = "in_progress" THEN @ + 1 ELSE @]
  BY DEF Move
<1>3. /\ retries' \in [Task -> Nat] /\ starts' \in [Task -> Nat]
      /\ \A u \in Task \ {t} : retries'[u] = retries[u] /\ starts'[u] = starts[u]
      /\ state'[t] = new /\ approval'[t] = ap
      /\ retries'[t] = (IF new = "retry_pending" THEN retries[t] + 1 ELSE retries[t])
      /\ starts'[t] = (IF new = "in_progress" THEN starts[t] + 1 ELSE starts[t])
  BY <1>2 DEF TypeOK
<1>4. new \in Released => state[t] \in Released \/ \A d \in Deps[t] : state[d] = "completed"
  BY <1>1 DEF NextStates, Released, GatedStates, TypeOK, TaskState
<1>5. TaskStep(t)
  BY <1>1, <1>3, <1>4 DEF TaskStep
<1> QED
  BY <1>2, <1>3, <1>5, OneTaskSteps

\* What is left of the invariant when anyone may call propagate_failure.
OpenInv ==
  /\ TypeOK
  /\ ApprovalGate
  /\ DependencyGate
  /\ AttemptsWithinBudget

\* Every call, propagate_failure by itself included, is a step of every task.
LEMMA OpenSteps ==
  ASSUME TypeOK, ApprovalGate, DependencyGate, [OpenNext]_vars
  PROVE  TypeOK' /\ \A u \in Task : TaskStep(u)
<1>1. CASE UNCHANGED vars
  BY <1>1 DEF vars, TypeOK, ApprovalGate, TaskStep
<1>2. ASSUME NEW t \in Task, TransitionTask(t)
      PROVE  TypeOK' /\ \A u \in Task : TaskStep(u)
  BY <1>2, MoveSteps DEF TransitionTask
<1>3. ASSUME NEW t \in Task, StartExecution(t)
      PROVE  TypeOK' /\ \A u \in Task : TaskStep(u)
  <2>1. /\ "in_progress" \in TaskState /\ approval[t] \in ApprovalState
        /\ approval[t] \in CompatibleApprovals("in_progress")
        /\ \A d \in Deps[t] : state[d] = "completed"
    BY <1>3 DEF StartExecution, DependenciesMet, TypeOK, TaskState, ApprovalState,
                CompatibleApprovals
  <2>2. /\ state' = [state EXCEPT ![t] = "in_progress"]
        /\ approval' = [approval EXCEPT ![t] = approval[t]]
        /\ starts' \in [Task -> Nat] /\ retries' \in [Task -> Nat]
        /\ \A u \in Task \ {t} : retries'[u] = retries[u] /\ starts'[u] = starts[u]
        /\ UNCHANGED <<prevented, torn>>
    BY <1>3 DEF StartExecution, TypeOK
  <2>3. /\ state[t] \in {"ready", "assigned"} /\ state'[t] = "in_progress"
        /\ retries'[t] = retries[t] /\ starts'[t] = starts[t] + 1
        /\ approval'[t] = approval[t]
    BY <1>3 DEF StartExecution, TypeOK
  <2>4. TaskStep(t)
    BY <2>1, <2>3 DEF TaskStep
  <2> QED
    BY <2>1, <2>2, <2>4, OneTaskSteps
<1>4. ASSUME NEW t \in Task, RejectApproval(t)
      PROVE  TypeOK' /\ \A u \in Task : TaskStep(u)
  <2>1. /\ "rejected" \in TaskState /\ "rejected" \in ApprovalState
        /\ "rejected" \in CompatibleApprovals("rejected")
        /\ "rejected" \in NextStates(state[t])
    BY <1>4 DEF RejectApproval, CanTransition, TaskState, ApprovalState, CompatibleApprovals
  <2> QED
    BY <1>4, <2>1, WalkSteps DEF RejectApproval
<1>5. ASSUME NEW t \in Task, GrantApproval(t)
      PROVE  TypeOK' /\ \A u \in Task : TaskStep(u)
  <2>1. /\ state[t] \in TaskState /\ "approved" \in ApprovalState
        /\ "approved" \in CompatibleApprovals(state[t])
    BY <1>5 DEF GrantApproval, ApprovalState, TypeOK
  <2>2. /\ state' = [state EXCEPT ![t] = state[t]]
        /\ approval' = [approval EXCEPT ![t] = "approved"]
        /\ UNCHANGED <<retries, starts, prevented, torn>>
    BY <1>5 DEF GrantApproval, TypeOK
  <2>3. TaskStep(t)
    BY <2>1, <2>2 DEF TaskStep, TypeOK
  <2> QED
    BY <2>1, <2>2, <2>3, OneTaskSteps DEF TypeOK
<1>6. ASSUME NEW t \in Task, NEW ap \in ApprovalState, RequestApproval(t, ap)
      PROVE  TypeOK' /\ \A u \in Task : TaskStep(u)
  <2>1. /\ "blocked" \in TaskState /\ "blocked" \notin Released
        /\ ap \in CompatibleApprovals("blocked")
    BY <1>6 DEF RequestApproval, TaskState, Released, CompatibleApprovals
  <2>2. /\ state' = [state EXCEPT ![t] = "blocked"]
        /\ approval' = [approval EXCEPT ![t] = ap]
        /\ UNCHANGED <<retries, starts, prevented, torn>>
    BY <1>6 DEF RequestApproval
  <2>3. state[t] = "blocked" \/ "blocked" \in NextStates(state[t])
    BY <1>6 DEF RequestApproval, CanTransition
  <2>4. TaskStep(t)
    BY <2>1, <2>2, <2>3 DEF TaskStep, TypeOK
  <2> QED
    BY <2>1, <2>2, <2>4, OneTaskSteps DEF TypeOK
<1>7. ASSUME NEW t \in Task, MarkCompleted(t)
      PROVE  TypeOK' /\ \A u \in Task : TaskStep(u)
  <2>1. approval[t] \in ApprovalState /\ "completed" \in TaskState
    BY DEF TypeOK, TaskState
  <2> QED
    BY <1>7, <2>1, MoveSteps DEF MarkCompleted
<1>8. ASSUME NEW t \in Task, MarkFailed(t)
      PROVE  TypeOK' /\ \A u \in Task : TaskStep(u)
  <2>1. /\ approval[t] \in ApprovalState /\ approval[t] \in CompatibleApprovals("failed")
        /\ "failed" \in NextStates(state[t]) /\ (~CanRetry(t)) \in BOOLEAN
        /\ "failed" \in TaskState
    BY <1>8 DEF MarkFailed, CanTransition, TypeOK, TaskState
  <2>2. state[t] = "in_progress"
    BY <2>1 DEF NextStates, TypeOK, TaskState
  <2>3. /\ approval' = [approval EXCEPT ![t] = approval[t]]
        /\ UNCHANGED <<retries, starts>>
        /\ Cascade([state EXCEPT ![t] = "failed"], t, ~CanRetry(t))
    BY <1>8 DEF MarkFailed, TypeOK
  <2> QED
    BY <2>1, <2>2, <2>3, WalkSteps
<1>9. ASSUME NEW t \in Task, NEW terminal \in BOOLEAN, PropagateFailure(t, terminal)
      PROVE  TypeOK' /\ \A u \in Task : TaskStep(u)
  <2>1. /\ approval[t] \in ApprovalState /\ state[t] \in TaskState
        /\ approval[t] \in CompatibleApprovals(state[t])
    BY DEF TypeOK, ApprovalGate
  <2>2. /\ approval' = [approval EXCEPT ![t] = approval[t]]
        /\ [state EXCEPT ![t] = state[t]] = state
        /\ UNCHANGED <<retries, starts>>
        /\ Cascade(state, t, terminal)
    BY <1>9 DEF PropagateFailure, TypeOK
  <2>3. Cascade([state EXCEPT ![t] = state[t]], t, terminal)
    BY <2>2
  <2>4. state[t] = "failed" => state[t] \in {"in_progress", "failed"}
    OBVIOUS
  <2> QED
    BY <2>1, <2>2, <2>3, <2>4, WalkSteps
<1> QED
  BY <1>1, <1>2, <1>3, <1>4, <1>5, <1>6, <1>7, <1>8, <1>9 DEF OpenNext, Next

\* A closed task is touched by no call; a task dead for good stays so.
LEMMA StepsOfTheDead ==
  ASSUME TypeOK, NEW u \in Task, TaskStep(u)
  PROVE  /\ state[u] \in TerminalStates => state'[u] = state[u]
         /\ Dead(u) => Dead(u)'
<1>1. state[u] \in TerminalStates => state'[u] = state[u]
  BY DEF TaskStep, NextStates, TerminalStates
<1>2. ASSUME state[u] = "failed", ~CanRetry(u)
      PROVE  Dead(u)'
  <2>1. state'[u] \in {"failed", "rejected", "cancelled"} /\ retries'[u] = retries[u]
    BY <1>2 DEF TaskStep, NextStates
  <2> QED
    BY <1>2, <2>1 DEF Dead, CanRetry
<1> QED
  BY <1>1, <1>2 DEF Dead, TerminalStates

\* Task steps keep the gates: a completed dependency stays completed.
LEMMA StepsKeepGates ==
  ASSUME TypeOK, DependencyGate, \A u \in Task : TaskStep(u)
  PROVE  ApprovalGate' /\ DependencyGate'
<1>1. ApprovalGate'
  BY DEF ApprovalGate, TaskStep
<1>2. ASSUME NEW u \in Task, state'[u] \in Released, NEW d \in Deps[u]
      PROVE  state'[d] = "completed"
  <2>1. d \in Task
    BY GraphAssumption DEF GraphAssumption
  <2>2. state[d] = "completed"
    BY <1>2 DEF TaskStep, DependencyGate
  <2> QED
    BY <2>1, <2>2, StepsOfTheDead DEF TerminalStates
<1> QED
  BY <1>1, <1>2 DEF DependencyGate

\* Task steps keep the books of starts and retries.
LEMMA StepsKeepBudget ==
  ASSUME TypeOK, TypeOK', AttemptsWithinBudget, \A u \in Task : TaskStep(u)
  PROVE  AttemptsWithinBudget'
<1> SUFFICES ASSUME NEW u \in Task
             PROVE  /\ retries'[u] <= MaxRetries
                    /\ starts'[u] <= retries'[u] + 1
                    /\ state'[u] \in {"pending", "blocked", "ready", "assigned", "retry_pending"}
                         => starts'[u] = retries'[u]
                    /\ state'[u] \in {"in_progress", "completed", "failed"}
                         => starts'[u] = retries'[u] + 1
  BY DEF AttemptsWithinBudget
<1>1. /\ retries[u] \in Nat /\ starts[u] \in Nat /\ MaxRetries \in Nat
      /\ retries[u] <= MaxRetries /\ starts[u] <= retries[u] + 1
      /\ state[u] \in {"pending", "blocked", "ready", "assigned", "retry_pending"}
           => starts[u] = retries[u]
      /\ state[u] \in {"in_progress", "completed", "failed"} => starts[u] = retries[u] + 1
      /\ state[u] \in TaskState
  BY GraphAssumption DEF TypeOK, AttemptsWithinBudget, GraphAssumption
<1>2. CASE state'[u] = state[u] /\ retries'[u] = retries[u] /\ starts'[u] = starts[u]
  BY <1>1, <1>2
<1>3. CASE /\ state'[u] \in NextStates(state[u])
           /\ retries'[u] = (IF state'[u] = "retry_pending" THEN retries[u] + 1 ELSE retries[u])
           /\ state'[u] = "retry_pending" => CanRetry(u)
           /\ starts'[u] = (IF state'[u] = "in_progress" THEN starts[u] + 1 ELSE starts[u])
  <2>1. CASE state'[u] = "retry_pending"
    <3>1. state[u] = "failed" /\ retries[u] < MaxRetries
      BY <1>1, <1>3, <2>1 DEF NextStates, TaskState, CanRetry
    <3> QED
      BY <1>1, <1>3, <2>1, <3>1
  <2>2. CASE state'[u] = "in_progress"
    <3>1. state[u] = "assigned"
      BY <1>1, <1>3, <2>2 DEF NextStates, TaskState
    <3> QED
      BY <1>1, <1>3, <2>2, <3>1
  <2>3. CASE state'[u] \in {"completed", "failed"}
    <3>1. state[u] = "in_progress"
      BY <1>1, <1>3, <2>3 DEF NextStates, TaskState
    <3> QED
      BY <1>1, <1>3, <2>3, <3>1
  <2>4. CASE state'[u] \in {"pending", "blocked", "ready", "assigned"}
    <3>1. state[u] \in {"pending", "blocked", "ready", "assigned", "retry_pending"}
      BY <1>1, <1>3, <2>4 DEF NextStates, TaskState
    <3> QED
      BY <1>1, <1>3, <2>4, <3>1
  <2>5. CASE state'[u] \in {"rejected", "cancelled"}
    BY <1>1, <1>3, <2>5
  <2> QED
    BY <2>1, <2>2, <2>3, <2>4, <2>5 DEF TypeOK, TaskState
<1>4. CASE /\ state[u] \in {"ready", "assigned"} /\ state'[u] = "in_progress"
           /\ retries'[u] = retries[u] /\ starts'[u] = starts[u] + 1
  BY <1>1, <1>4
<1>5. CASE /\ state[u] \in {"pending", "blocked", "ready", "assigned", "retry_pending"}
           /\ state'[u] = "blocked" /\ retries'[u] = retries[u] /\ starts'[u] = starts[u]
  BY <1>1, <1>5
<1> QED
  BY <1>2, <1>3, <1>4, <1>5 DEF TaskStep

\* The open invariant is inductive under every call, propagate_failure included.
LEMMA OpenInvariance == OpenSpec => []OpenInv
<1>1. Init => OpenInv
  <2> SUFFICES ASSUME Init
               PROVE  OpenInv
    OBVIOUS
  <2>1. TypeOK /\ ApprovalGate /\ DependencyGate
    BY InitEstablishes DEF IInv
  <2>2. AttemptsWithinBudget
    BY GraphAssumption DEF Init, AttemptsWithinBudget, GraphAssumption
  <2> QED
    BY <2>1, <2>2 DEF OpenInv
<1>2. OpenInv /\ [OpenNext]_vars => OpenInv'
  BY OpenSteps, StepsKeepGates, StepsKeepBudget DEF OpenInv
<1> QED
  BY <1>1, <1>2, PTL DEF OpenSpec

\* What holds of every open behaviour holds of every closed one.
LEMMA ClosedIsOpen == Spec => OpenSpec
<1>1. [Next]_vars => [OpenNext]_vars
  BY DEF OpenNext
<1> QED
  BY <1>1, PTL DEF Spec, OpenSpec

\* Even with propagate_failure called for tasks that did not fail, no task is in a
\* state its approval does not allow, and none is released before its dependencies.
THEOREM GatesHoldForAnyCaller == OpenSpec => [](ApprovalGate /\ DependencyGate)
  BY OpenInvariance, PTL DEF OpenInv

\* transition_to counts retries and the dispatcher starts tasks; no order of blocks,
\* approvals, failures and propagations buys a task a start beyond max_retries.
THEOREM AttemptsAreBudgeted == OpenSpec => []AttemptsWithinBudget
  BY OpenInvariance, PTL DEF OpenInv

\* A closed or exhausted task is never brought back, by whichever calls.
THEOREM TheDeadStayDead == OpenSpec => DeadStaysDead
<1>1. OpenInv /\ [OpenNext]_vars => [\A t \in Task : Dead(t) => Dead(t)']_vars
  BY OpenSteps, StepsOfTheDead DEF OpenInv
<1> QED
  BY <1>1, OpenInvariance, PTL DEF OpenSpec, DeadStaysDead

\* Once resolve_mission_state answers completed or rejected, no call on any task of the
\* graph changes its answer.
THEOREM VerdictsAreFinal == OpenSpec => VerdictIsFinal
<1>1. ASSUME OpenInv, [OpenNext]_vars, MissionState \in {"completed", "rejected"}
      PROVE  MissionState' = MissionState
  <2>1. \A u \in Task : state[u] \in TerminalStates => state'[u] = state[u]
    BY <1>1, OpenSteps, StepsOfTheDead DEF OpenInv
  <2>2. Task # {}
    BY <1>1 DEF MissionState
  <2>3. CASE \E u \in Task : state[u] = "rejected"
    <3>1. \E u \in Task : state'[u] = "rejected"
      BY <2>1, <2>3 DEF TerminalStates
    <3> QED
      BY <2>2, <2>3, <3>1 DEF MissionState
  <2>4. CASE ~\E u \in Task : state[u] = "rejected"
    <3>1. \A u \in Task : state[u] = "completed"
      BY <1>1, <2>2, <2>4 DEF MissionState
    <3>2. \A u \in Task : state'[u] = "completed"
      BY <2>1, <3>1 DEF TerminalStates
    <3>3. MissionState = "completed"
      BY <2>2, <3>1 DEF MissionState
    <3>4. MissionState' = "completed"
      BY <2>2, <3>2 DEF MissionState
    <3> QED
      BY <3>3, <3>4
  <2> QED
    BY <2>3, <2>4
<1>2. OpenInv /\ [OpenNext]_vars =>
        [(MissionState \in {"completed", "rejected"}) => MissionState' = MissionState]_vars
  BY <1>1
<1> QED
  BY <1>2, OpenInvariance, PTL DEF OpenSpec, VerdictIsFinal

-----------------------------------------------------------------------------
(* Why a task was written off.                                             *)

\* The walk marks only what is downstream of its source, and as it is told.
LEMMA WalkMarks ==
  ASSUME TypeOK, NEW t \in Task, NEW new \in TaskState, NEW terminal \in BOOLEAN,
         Cascade([state EXCEPT ![t] = new], t, terminal)
  PROVE  /\ state'[t] = new
         /\ \A u \in Task : prevented'[u] => prevented[u] \/ (terminal /\ u \in Downstream[t])
<1> DEFINE s == [state EXCEPT ![t] = new]
<1>1. s \in [Task -> TaskState] /\ torn \in BOOLEAN /\ s[t] = new
  BY DEF TypeOK
<1>2. Cascade(s, t, terminal)
  OBVIOUS
<1> HIDE DEF s
<1>3. PICK done \in SUBSET Task :
        /\ t \notin done
        /\ \A u \in done : u \in Downstream[t]
        /\ state' = [u \in Task |-> IF u \in done /\ s[u] # "failed" THEN "blocked" ELSE s[u]]
        /\ prevented' = [u \in Task |-> IF u \in done THEN terminal ELSE prevented[u]]
  BY <1>1, <1>2, CascadeEffect
<1> QED
  BY <1>1, <1>3

\* propagate_failure is called with a cause, so a task is written off only downstream of
\* one that is closed or has no retry left, for good.
THEOREM PreventionHasACause == Spec => []PreventedHasDeadCause
<1>1. Init => PreventedHasDeadCause
  BY DEF Init, PreventedHasDeadCause
<1>2. ASSUME IInv, PreventedHasDeadCause, [Next]_vars
      PROVE  PreventedHasDeadCause'
  <2> SUFFICES ASSUME NEW u \in Task, prevented'[u]
               PROVE  \E a \in Task : u \in Downstream[a] /\ Dead(a)'
    BY DEF PreventedHasDeadCause
  <2>1. TypeOK' /\ \A a \in Task : Dead(a) => Dead(a)'
    BY <1>2, OpenSteps, StepsOfTheDead DEF IInv, OpenNext
  <2>2. CASE prevented[u]
    BY <1>2, <2>1, <2>2 DEF PreventedHasDeadCause
  <2>3. CASE ~prevented[u]
    <3>1. PICK t \in Task : RejectApproval(t) \/ MarkFailed(t)
      <4>1. prevented' # prevented
        BY <2>3
      <4> QED
        BY <1>2, <4>1 DEF Next, vars, TransitionTask, StartExecution, GrantApproval,
                          RequestApproval, MarkCompleted
    <3>2. CASE RejectApproval(t)
      <4>1. Cascade([state EXCEPT ![t] = "rejected"], t, TRUE) /\ "rejected" \in TaskState
        BY <3>2 DEF RejectApproval, TaskState
      <4>2. u \in Downstream[t] /\ state'[t] = "rejected"
        BY <1>2, <2>3, <4>1, WalkMarks DEF IInv
      <4> QED
        BY <4>2 DEF Dead
    <3>3. CASE MarkFailed(t)
      <4>1. /\ Cascade([state EXCEPT ![t] = "failed"], t, ~CanRetry(t))
            /\ "failed" \in TaskState /\ (~CanRetry(t)) \in BOOLEAN /\ retries' = retries
        BY <3>3 DEF MarkFailed, TaskState
      <4>2. u \in Downstream[t] /\ state'[t] = "failed" /\ ~CanRetry(t)
        BY <1>2, <2>3, <4>1, WalkMarks DEF IInv
      <4>3. Dead(t)'
        BY <4>1, <4>2 DEF Dead, CanRetry
      <4> QED
        BY <4>2, <4>3
    <3> QED
      BY <3>1, <3>2, <3>3
  <2> QED
    BY <2>2, <2>3
<1> QED
  BY <1>1, <1>2, Invariance, PTL DEF Spec

=============================================================================
