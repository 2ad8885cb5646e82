--------------------------- MODULE TaskLifecycle ---------------------------
(***************************************************************************)
(* The lifecycle of one Mission Control task: its states, the approval     *)
(* states beside them, the single transition table and the compatibility   *)
(* map that every mutation goes through (mission_control/tasks.py).        *)
(* The module has no variables; TaskGraph and MissionService share it.     *)
(***************************************************************************)

TaskState == {"pending", "blocked", "ready", "assigned", "in_progress",
              "completed", "failed", "rejected", "cancelled", "retry_pending"}

ApprovalState == {"not_required", "pending", "approved", "rejected", "escalated"}

TerminalStates == {"completed", "rejected", "cancelled"}

\* TASK_TRANSITIONS, the one table behind transition_to.
NextStates(s) ==
  CASE s = "pending"       -> {"ready", "blocked", "rejected", "cancelled"}
    [] s = "blocked"       -> {"ready", "rejected", "cancelled"}
    [] s = "ready"         -> {"assigned", "blocked", "rejected", "cancelled"}
    [] s = "assigned"      -> {"in_progress", "blocked", "rejected", "cancelled"}
    [] s = "in_progress"   -> {"completed", "failed", "cancelled"}
    [] s = "failed"        -> {"retry_pending", "rejected", "cancelled"}
    [] s = "retry_pending" -> {"ready", "blocked", "rejected", "cancelled"}
    [] OTHER               -> {}

\* validate_compatibility: the approval states a task state can carry.
CompatibleApprovals(s) ==
  CASE s = "pending"       -> {"not_required", "pending", "approved", "escalated"}
    [] s = "blocked"       -> {"not_required", "pending", "approved", "escalated"}
    [] s = "failed"        -> {"not_required", "approved", "rejected"}
    [] s = "retry_pending" -> {"not_required", "approved", "pending"}
    [] s = "rejected"      -> {"not_required", "approved", "rejected"}
    [] s = "cancelled"     -> {"not_required", "approved", "rejected", "pending"}
    [] OTHER               -> {"not_required", "approved"}

\* The states whose entry checks the dependencies.
GatedStates == {"ready", "assigned", "in_progress"}

=============================================================================
