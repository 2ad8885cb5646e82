--------------------------- MODULE MissionService ---------------------------
(***************************************************************************)
(* MissionControlService.handle_request called from several threads, with  *)
(* the dispatcher it calls and the registry of LocalExecutionRuntime       *)
(* (mission_control/service.py, runtime.py), while executors are           *)
(* registered and replaced and the service's policy is replaced or edited. *)
(*                                                                         *)
(* A request is a thread.  One action is one access to state another       *)
(* thread can change (the registry under its lock, the policy attribute,   *)
(* a field of a policy object, the executor's run), together with the      *)
(* thread-local code up to the next one.                                   *)
(***************************************************************************)
EXTENDS Naturals, FiniteSets, TaskLifecycle

CONSTANTS
  Request,           \* the calls to handle_request
  Key,               \* (division, capability) pairs
  Policy,            \* ExecutionPolicy objects
  PolicyId,          \* PolicyId[pol]: the policy_id field
  InitialVerdicts,   \* bound: what the policy objects may decide at first
  MaxRegistrations,  \* bound: register calls
  MaxEdits           \* bound: edits of policy objects

\* What evaluating a policy object gives a request: PolicyEngine says how.  "raises"
\* is the exception of a rule whose window cannot be compared with the clock.
Verdict == {"allow", "deny", "require_approval", "escalate", "raises"}

ASSUME ServiceAssumption ==
  /\ IsFiniteSet(Request)
  /\ MaxRegistrations \in Nat
  /\ MaxEdits \in Nat
  /\ InitialVerdicts \subseteq Verdict

Registration == 1 .. MaxRegistrations
None == 0

VARIABLES
  \* shared
  entry,         \* _executors: the registration identity each pair has
  fits,          \* whether a registration's contract agrees with the assignment
  made,          \* how many registrations were made
  reservations,  \* _reservations
  policy,        \* self.policy
  verdict,       \* what each policy object decides at present
  version,       \* policy_version of each policy object
  edits,         \* how many edits were made
  \* of each request
  pc,            \* where its thread is
  keyOf,         \* the pair it resolves to
  selected,      \* selection.registration_id
  snapshot,      \* policy identity and version in the AuthorizationSnapshot
  passed,        \* the policy argument of dispatch
  outcome,       \* what dispatch returns
  task,          \* task_state of its task
  approval,      \* approval_state of its task
  status,        \* status of the result in execution_history
  ran            \* history: the registration whose executor was called

shared == <<entry, fits, made, reservations>>
policies == <<policy, verdict, version, edits>>
local == <<pc, keyOf, selected, snapshot, passed, outcome, task, approval, status, ran>>
vars == <<shared, policies, local>>

Places == {"received", "selected", "authorised", "identified", "snapshot", "dispatching",
           "reserved", "current", "stale", "starting", "executing", "releasing",
           "recording", "done"}

Outcome == {"none", "not_performed", "raised", "succeeded", "failed", "cancelled", "timed_out"}

Status == {"none", "failed", "unrouteable", "awaiting_approval", "unsupported", "rejected",
           "completed", "cancelled"}

TypeOK ==
  /\ entry \in [Key -> Registration \cup {None}]
  /\ fits \in [Registration -> BOOLEAN]
  /\ made \in 0 .. MaxRegistrations
  /\ reservations \in [Key -> Nat]
  /\ policy \in Policy
  /\ verdict \in [Policy -> Verdict]
  /\ version \in [Policy -> Nat]
  /\ edits \in 0 .. MaxEdits
  /\ pc \in [Request -> Places]
  /\ keyOf \in [Request -> Key]
  /\ selected \in [Request -> Registration \cup {None}]
  /\ passed \in [Request -> Policy]
  /\ task \in [Request -> TaskState \cup {"none"}]
  /\ approval \in [Request -> ApprovalState]
  /\ outcome \in [Request -> Outcome]
  /\ status \in [Request -> Status]
  /\ ran \in [Request -> Registration \cup {None}]

Init ==
  /\ entry = [k \in Key |-> None]
  /\ fits \in [Registration -> BOOLEAN]
  /\ made = 0
  /\ reservations = [k \in Key |-> 0]
  /\ policy \in Policy
  /\ verdict \in [Policy -> InitialVerdicts]
  /\ version = [pol \in Policy |-> 1]
  /\ edits = 0
  /\ pc = [p \in Request |-> "received"]
  /\ keyOf \in [Request -> Key]
  /\ selected = [p \in Request |-> None]
  /\ snapshot = [p \in Request |-> <<None, None>>]
  /\ passed = [p \in Request |-> policy]
  /\ outcome = [p \in Request |-> "none"]
  /\ task = [p \in Request |-> "none"]
  /\ approval = [p \in Request |-> "not_required"]
  /\ status = [p \in Request |-> "none"]
  /\ ran = [p \in Request |-> None]

-----------------------------------------------------------------------------
(* The operator's side.                                                    *)

\* Wrong on purpose: the reservations are not looked at.
RegisterAnyTime(k) ==
  /\ made < MaxRegistrations
  /\ made' = made + 1
  /\ entry' = [entry EXCEPT ![k] = made + 1]
  /\ UNCHANGED <<fits, reservations, policies, local>>

\* LocalExecutionRuntime.register: a new identity, refused while reserved.
Register(k) ==
  /\ made < MaxRegistrations
  /\ reservations[k] = 0
  /\ made' = made + 1
  /\ entry' = [entry EXCEPT ![k] = made + 1]
  /\ UNCHANGED <<fits, reservations, policies, local>>

\* service.policy = another object.
ReplacePolicy(pol) ==
  /\ policy' = pol
  /\ UNCHANGED <<shared, verdict, version, edits, local>>

\* A policy object decides otherwise: its rules were edited, with or without a new
\* version, or the window of a rule opened or closed.
EditPolicy(pol) ==
  /\ edits < MaxEdits
  /\ edits' = edits + 1
  /\ \E v \in Verdict \ {verdict[pol]} : verdict' = [verdict EXCEPT ![pol] = v]
  /\ \E bump \in {0, 1} : version' = [version EXCEPT ![pol] = @ + bump]
  /\ UNCHANGED <<shared, policy, local>>

-----------------------------------------------------------------------------
(* handle_request up to the dispatch.                                      *)

At(p, place) == pc[p] = place
Goto(p, place) == pc' = [pc EXCEPT ![p] = place]

\* finish: the one result of the call.
Finish(p, st) ==
  /\ Goto(p, "done")
  /\ status' = [status EXCEPT ![p] = st]

SetTask(p, new, ap) ==
  /\ task' = [task EXCEPT ![p] = new]
  /\ approval' = [approval EXCEPT ![p] = ap]

\* Goal, authority, resolution, bindings, permission scope, approval gate.
Refuse(p) ==
  /\ At(p, "received")
  /\ \E st \in {"failed", "unrouteable", "awaiting_approval"} : Finish(p, st)
  /\ UNCHANGED <<shared, policies, keyOf, selected, snapshot, passed, outcome, task, approval, ran>>

\* get_registration under the lock, then the contract binding, then the input.
Select(p) ==
  LET e == entry[keyOf[p]] IN
  /\ At(p, "received")
  /\ \/ /\ e = None
        /\ Finish(p, "unsupported")
        /\ UNCHANGED <<selected, task, approval>>
     \/ /\ e # None
        /\ Finish(p, "failed")
        /\ UNCHANGED <<selected, task, approval>>
     \/ /\ e # None /\ fits[e]
        /\ selected' = [selected EXCEPT ![p] = e]
        /\ SetTask(p, "pending", "not_required")
        /\ Goto(p, "selected")
        /\ UNCHANGED status
  /\ UNCHANGED <<shared, policies, keyOf, snapshot, passed, outcome, ran>>

\* The first policy gate.
Gate(p) ==
  LET v == verdict[policy] IN
  /\ At(p, "selected")
  /\ \/ v = "raises" /\ Finish(p, "failed") /\ UNCHANGED <<task, approval>>
     \/ v = "require_approval" /\ SetTask(p, "blocked", "pending") /\ Finish(p, "awaiting_approval")
     \/ v = "escalate" /\ SetTask(p, "blocked", "escalated") /\ Finish(p, "awaiting_approval")
     \/ v = "deny" /\ SetTask(p, "rejected", approval[p]) /\ Finish(p, "rejected")
     \/ /\ v = "allow"
        /\ SetTask(p, "assigned", approval[p])
        /\ Goto(p, "authorised")
        /\ UNCHANGED status
  /\ UNCHANGED <<shared, policies, keyOf, selected, snapshot, passed, outcome, ran>>

\* evaluation_context reads self.policy once for the identity ...
ReadPolicyId(p) ==
  /\ At(p, "authorised")
  /\ snapshot' = [snapshot EXCEPT ![p] = <<PolicyId[policy], None>>]
  /\ Goto(p, "identified")
  /\ UNCHANGED <<shared, policies, keyOf, selected, passed, outcome, task, approval, status, ran>>

\* ... and once more for the version.
ReadPolicyVersion(p) ==
  /\ At(p, "identified")
  /\ snapshot' = [snapshot EXCEPT ![p][2] = version[policy]]
  /\ Goto(p, "snapshot")
  /\ UNCHANGED <<shared, policies, keyOf, selected, passed, outcome, task, approval, status, ran>>

\* The call of dispatch evaluates its policy argument.
CallDispatch(p) ==
  /\ At(p, "snapshot")
  /\ passed' = [passed EXCEPT ![p] = policy]
  /\ Goto(p, "dispatching")
  /\ UNCHANGED <<shared, policies, keyOf, selected, snapshot, outcome, task, approval, status, ran>>

-----------------------------------------------------------------------------
(* dispatch.                                                               *)

Return(p, out) == outcome' = [outcome EXCEPT ![p] = out]

\* Wrong on purpose: any registration of the pair will do.
ReserveWhatIsThere(p) ==
  LET k == keyOf[p] IN
  /\ At(p, "dispatching")
  /\ entry[k] # None
  /\ reservations' = [reservations EXCEPT ![k] = @ + 1]
  /\ Goto(p, "reserved")
  /\ UNCHANGED <<entry, fits, made, policies, keyOf, selected, snapshot, passed, outcome, task, approval, status, ran>>

\* Wrong on purpose: a second holder on the same pair is not counted.
ReserveOnce(p) ==
  LET k == keyOf[p] IN
  /\ At(p, "dispatching")
  /\ entry[k] = selected[p]
  /\ reservations' = [reservations EXCEPT ![k] = 1]
  /\ Goto(p, "reserved")
  /\ UNCHANGED <<entry, fits, made, policies, keyOf, selected, snapshot, passed, outcome, task, approval, status, ran>>

\* reserve_registration under the lock.
Reserve(p) ==
  LET k == keyOf[p] IN
  /\ At(p, "dispatching")
  /\ \/ /\ entry[k] = selected[p]
        /\ reservations' = [reservations EXCEPT ![k] = @ + 1]
        /\ Goto(p, "reserved")
        /\ UNCHANGED outcome
     \/ /\ entry[k] # selected[p]
        /\ Return(p, "not_performed")
        /\ Goto(p, "recording")
        /\ UNCHANGED reservations
  /\ UNCHANGED <<entry, fits, made, policies, keyOf, selected, snapshot, passed, task, approval, status, ran>>

\* Wrong on purpose: the snapshot is rebuilt instead of compared.
RecheckNothing(p) ==
  /\ At(p, "reserved")
  /\ Goto(p, "current")
  /\ UNCHANGED <<shared, policies, keyOf, selected, snapshot, passed, outcome, task, approval, status, ran>>

\* is_still_valid, on the identity and version the passed policy has now.
Recheck(p) ==
  /\ At(p, "reserved")
  /\ Goto(p, IF snapshot[p] = <<PolicyId[passed[p]], version[passed[p]]>> THEN "current" ELSE "stale")
  /\ UNCHANGED <<shared, policies, keyOf, selected, snapshot, passed, outcome, task, approval, status, ran>>

\* Wrong on purpose: an exception of the gate leaves without the finally.
RegateLeaks(p) ==
  LET v == verdict[passed[p]] IN
  /\ At(p, "current") \/ At(p, "stale")
  /\ \/ /\ v = "raises"
        /\ Return(p, "raised") /\ Goto(p, "recording")
        /\ UNCHANGED <<task, approval>>
     \/ /\ v # "raises"
        /\ v # "allow" \/ At(p, "stale")
        /\ Return(p, "not_performed") /\ Goto(p, "releasing")
        /\ UNCHANGED <<task, approval>>
     \/ /\ v = "allow" /\ At(p, "current")
        /\ SetTask(p, "in_progress", approval[p]) /\ Goto(p, "starting")
        /\ UNCHANGED outcome
  /\ UNCHANGED <<shared, policies, keyOf, selected, snapshot, passed, status, ran>>

\* Wrong on purpose: a stale request waits for its snapshot to become valid again.
RegateWaits(p) ==
  LET v == verdict[passed[p]] IN
  /\ At(p, "current")
  /\ \/ /\ v # "allow"
        /\ Return(p, "not_performed") /\ Goto(p, "releasing")
        /\ UNCHANGED <<task, approval>>
     \/ /\ v = "allow"
        /\ SetTask(p, "in_progress", approval[p]) /\ Goto(p, "starting")
        /\ UNCHANGED outcome
  /\ UNCHANGED <<shared, policies, keyOf, selected, snapshot, passed, status, ran>>

\* Wrong on purpose: a snapshot that is still valid is not evaluated again.
RegateTrustsSnapshot(p) ==
  LET v == verdict[passed[p]] IN
  /\ At(p, "current") \/ At(p, "stale")
  /\ \/ /\ v = "raises" /\ At(p, "stale")
        /\ Return(p, "raised") /\ Goto(p, "releasing")
        /\ UNCHANGED <<task, approval>>
     \/ /\ v # "raises" /\ At(p, "stale")
        /\ Return(p, "not_performed") /\ Goto(p, "releasing")
        /\ UNCHANGED <<task, approval>>
     \/ /\ At(p, "current")
        /\ SetTask(p, "in_progress", approval[p]) /\ Goto(p, "starting")
        /\ UNCHANGED outcome
  /\ UNCHANGED <<shared, policies, keyOf, selected, snapshot, passed, status, ran>>

\* The second policy gate; the last word before the task is in progress.
Regate(p) ==
  LET v == verdict[passed[p]] IN
  /\ At(p, "current") \/ At(p, "stale")
  /\ \/ /\ v = "raises"
        /\ Return(p, "raised") /\ Goto(p, "releasing")
        /\ UNCHANGED <<task, approval>>
     \/ /\ v # "raises"
        /\ v # "allow" \/ At(p, "stale")
        /\ Return(p, "not_performed") /\ Goto(p, "releasing")
        /\ UNCHANGED <<task, approval>>
     \/ /\ v = "allow" /\ At(p, "current")
        /\ SetTask(p, "in_progress", approval[p]) /\ Goto(p, "starting")
        /\ UNCHANGED outcome
  /\ UNCHANGED <<shared, policies, keyOf, selected, snapshot, passed, status, ran>>

\* runtime.execute reads the registration again under the lock and calls what it finds.
Execute(p) ==
  /\ At(p, "starting")
  /\ ran' = [ran EXCEPT ![p] = entry[keyOf[p]]]
  /\ Goto(p, "executing")
  /\ UNCHANGED <<shared, policies, keyOf, selected, snapshot, passed, outcome, task, approval, status>>

\* The executor returns or raises, and its result is validated: a binding or output
\* error turns whatever it reported into a failure.
ExecutorReturns(p) ==
  /\ At(p, "executing")
  /\ \E reported \in {"succeeded", "failed", "cancelled", "timed_out", "raises"}, flawed \in BOOLEAN :
       Return(p, IF flawed \/ reported = "raises" THEN "failed" ELSE reported)
  /\ Goto(p, "releasing")
  /\ UNCHANGED <<shared, policies, keyOf, selected, snapshot, passed, task, approval, status, ran>>

\* The finally of dispatch.
Release(p) ==
  /\ At(p, "releasing")
  /\ reservations' = [reservations EXCEPT ![keyOf[p]] = @ - 1]
  /\ Goto(p, "recording")
  /\ UNCHANGED <<entry, fits, made, policies, keyOf, selected, snapshot, passed, outcome, task, approval, status, ran>>

\* Wrong on purpose: a dispatch that was refused is recorded as a failed run.
RecordRefusalAsFailure(p) ==
  LET out == outcome[p] IN
  /\ At(p, "recording")
  /\ \/ out = "succeeded" /\ SetTask(p, "completed", approval[p]) /\ Finish(p, "completed")
     \/ out = "cancelled" /\ SetTask(p, "cancelled", approval[p]) /\ Finish(p, "cancelled")
     \/ out \notin {"succeeded", "cancelled"} /\ SetTask(p, "failed", approval[p]) /\ Finish(p, "failed")
  /\ UNCHANGED <<shared, policies, keyOf, selected, snapshot, passed, outcome, ran>>

\* handle_request turns what dispatch returned into a task state and a result.
Record(p) ==
  LET out == outcome[p] IN
  /\ At(p, "recording")
  /\ \/ out = "not_performed" /\ SetTask(p, "rejected", approval[p]) /\ Finish(p, "rejected")
     \/ out = "raised" /\ UNCHANGED <<task, approval>> /\ Finish(p, "failed")
     \/ out = "succeeded" /\ SetTask(p, "completed", approval[p]) /\ Finish(p, "completed")
     \/ out = "cancelled" /\ SetTask(p, "cancelled", approval[p]) /\ Finish(p, "cancelled")
     \/ out \in {"failed", "timed_out"} /\ SetTask(p, "failed", approval[p]) /\ Finish(p, "failed")
  /\ UNCHANGED <<shared, policies, keyOf, selected, snapshot, passed, outcome, ran>>

-----------------------------------------------------------------------------
Step(p) ==
  \/ Refuse(p)       \/ Select(p)            \/ Gate(p)
  \/ ReadPolicyId(p) \/ ReadPolicyVersion(p) \/ CallDispatch(p)
  \/ Reserve(p)      \/ Recheck(p)           \/ Regate(p)
  \/ Execute(p)      \/ ExecutorReturns(p)   \/ Release(p)
  \/ Record(p)

Operate ==
  \/ \E k \in Key : Register(k)
  \/ \E pol \in Policy : ReplacePolicy(pol) \/ EditPolicy(pol)

Next == Operate \/ \E p \in Request : Step(p)

\* Every thread keeps running and every executor returns; operators may do nothing.
Fairness == \A p \in Request : WF_vars(Step(p))

Spec == Init /\ [][Next]_vars /\ Fairness

-----------------------------------------------------------------------------
(* Properties.                                                             *)

\* The requests between taking and releasing their reservation on a pair.
Holders(k) ==
  {p \in Request : keyOf[p] = k /\
     pc[p] \in {"reserved", "current", "stale", "starting", "executing", "releasing"}}

\* A request whose task was allowed to start and whose result is not yet recorded, or
\* that ran.
Started(p) == ran[p] # None

\* Reservations count their holders on every path through dispatch, the exceptional
\* ones included, however calls overlap.
ReservationsBalance == \A k \in Key : reservations[k] = Cardinality(Holders(k))

\* execute looks the registration up again instead of using the one that was reserved:
\* it still calls the executor the request was authorised for, never a replacement.
RunsWhatWasAuthorised == \A p \in Request : Started(p) => ran[p] = selected[p]

\* A result says what happened: completed, cancelled and rejected results belong to
\* tasks in that state, success only to a task whose executor ran, and a refused
\* request ran nothing.
ResultMatchesTask ==
  \A p \in Request :
    /\ status[p] \in {"completed", "cancelled"} => task[p] = status[p] /\ Started(p)
    /\ status[p] = "rejected" => task[p] = "rejected" /\ ~Started(p)
    /\ status[p] = "awaiting_approval" => task[p] \in {"none", "blocked"} /\ ~Started(p)
    /\ status[p] = "failed" => (task[p] = "failed" <=> Started(p))
    /\ status[p] = "none" => task[p] \notin TerminalStates \cup {"failed", "blocked"}

\* Nothing runs on an authorisation taken under another policy identity, although
\* the service reads its policy attribute four times and it may be replaced each time.
RunsUnderSnapshotPolicy ==
  \A p \in Request : Started(p) => snapshot[p][1] = PolicyId[passed[p]]

\* The second policy gate is still ahead of the request.
Ungated(p) ==
  pc[p] \in {"received", "selected", "authorised", "identified", "snapshot", "dispatching",
            "reserved", "current", "stale"}

\* Rules can be edited under an unchanged identity and version, which the snapshot of the
\* authorisation cannot notice.  Permission withdrawn in that way counts all the same up
\* to the second gate: from the moment no policy allows any more, wherever between the
\* two gates that falls, no request that has the second one ahead of it ever runs.
RevokedNeverRuns ==
  \A p \in Request :
    [](Ungated(p) /\ [](\A pol \in Policy : verdict[pol] # "allow") => [](ran[p] = None))

\* While a request holds a reservation its registration is not replaced.
NoReplacementInUse == [][\A k \in Key : Holders(k) # {} => entry'[k] = entry[k]]_vars

\* Every accepted call is answered.
EveryRequestAnswered == \A p \in Request : <>(status[p] # "none")

\* Reservations do not leak: in the end every registration can be replaced again.
ReservationsDrain == <>[](\A k \in Key : reservations[k] = 0)

-----------------------------------------------------------------------------
(* The promise it keeps.                                                   *)

Phase(p) ==
  IF pc[p] = "done" THEN "answered"
  ELSE IF pc[p] = "executing" THEN "running"
  ELSE IF ran[p] # None THEN "returned"
  ELSE IF selected[p] # None THEN "bound"
  ELSE "open"

Promise == INSTANCE GovernedExecution WITH
  current <- entry,
  phase <- [p \in Request |-> Phase(p)],
  bound <- selected,
  answer <- status

\* Step by step the pipeline does what GovernedExecution allows: a request runs under the
\* registration it was bound to or not at all, and that one is not replaced meanwhile.
KeepsPromise == Promise!Init /\ [][Promise!Next]_(Promise!vars)

\* The pipeline implements GovernedExecution, its fairness included: bound to the registration it found, run
\* under that one or not at all, never replaced while running, answered once.
ImplementsPromise == Promise!Spec

=============================================================================
