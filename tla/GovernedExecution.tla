------------------------- MODULE GovernedExecution -------------------------
(***************************************************************************)
(* What the execution pipeline promises, without locks, reservations,      *)
(* policies or task states: a request is bound to the registration that    *)
(* was current for its capability, runs under that very registration or    *)
(* not at all, nothing replaces a registration that is running, and every  *)
(* request gets exactly one answer.  MissionService implements it.         *)
(***************************************************************************)
EXTENDS Naturals

CONSTANTS
  Request,       \* the calls to handle_request
  Key,           \* (division, capability) pairs
  Registration,  \* registration identities
  None           \* no registration

VARIABLES
  keyOf,    \* the pair a request resolves to
  current,  \* the registration each pair has
  phase,    \* how far each request has come
  bound,    \* the registration each request was bound to
  answer    \* the answer each request got

vars == <<keyOf, current, phase, bound, answer>>

Refusals == {"failed", "unrouteable", "awaiting_approval", "unsupported", "rejected"}
Outcomes == {"completed", "cancelled", "failed"}

Init ==
  /\ keyOf \in [Request -> Key]
  /\ current = [k \in Key |-> None]
  /\ phase = [p \in Request |-> "open"]
  /\ bound = [p \in Request |-> None]
  /\ answer = [p \in Request |-> "none"]

Register(k, r) ==
  /\ \A p \in Request : keyOf[p] = k => phase[p] # "running"
  /\ \A p \in Request : bound[p] # r
  /\ current' = [current EXCEPT ![k] = r]
  /\ UNCHANGED <<keyOf, phase, bound, answer>>

Bind(p) ==
  /\ phase[p] = "open"
  /\ current[keyOf[p]] # None
  /\ bound' = [bound EXCEPT ![p] = current[keyOf[p]]]
  /\ phase' = [phase EXCEPT ![p] = "bound"]
  /\ UNCHANGED <<keyOf, current, answer>>

Run(p) ==
  /\ phase[p] = "bound"
  /\ current[keyOf[p]] = bound[p]
  /\ phase' = [phase EXCEPT ![p] = "running"]
  /\ UNCHANGED <<keyOf, current, bound, answer>>

Return(p) ==
  /\ phase[p] = "running"
  /\ phase' = [phase EXCEPT ![p] = "returned"]
  /\ UNCHANGED <<keyOf, current, bound, answer>>

Answer(p) ==
  /\ \/ phase[p] \in {"open", "bound"} /\ \E a \in Refusals : answer' = [answer EXCEPT ![p] = a]
     \/ phase[p] = "returned" /\ \E a \in Outcomes : answer' = [answer EXCEPT ![p] = a]
  /\ phase' = [phase EXCEPT ![p] = "answered"]
  /\ UNCHANGED <<keyOf, current, bound>>

Next ==
  \/ \E k \in Key, r \in Registration : Register(k, r)
  \/ \E p \in Request : Bind(p) \/ Run(p) \/ Return(p) \/ Answer(p)

\* Who asks is answered: executors return and answers are given.
Spec ==
  /\ Init
  /\ [][Next]_vars
  /\ \A p \in Request : WF_vars(Return(p)) /\ WF_vars(Answer(p))

=============================================================================
