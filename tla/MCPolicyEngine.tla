--------------------------- MODULE MCPolicyEngine ---------------------------
(***************************************************************************)
(* Instances of PolicyEngine for TLC.                                      *)
(***************************************************************************)
EXTENDS PolicyEngine

CONSTANTS division, here, there

MCAttribute == {division}
MCValue == {here, there}

Anywhere == [a \in MCAttribute |-> None]

Plain(id, version, priority, decision) ==
  [rule_id |-> id, rule_version |-> version, priority |-> priority, decision |-> decision,
   enabled |-> TRUE, effective_from |-> None, effective_until |-> None, binds |-> Anywhere]

\* An allow; denials that tie with one another on every prefix of the tie-break, one of
\* them bound to a division; at a higher priority, a rule in force for one instant only,
\* one with a naive bound and one without an id.
MCRule == {
  Plain(1, 1, 1, "allow"),
  [Plain(4, 2, 1, "deny") EXCEPT !.binds = [a \in MCAttribute |-> here]],
  Plain(3, 1, 1, "deny"),
  [Plain(2, 1, 1, "deny") EXCEPT !.effective_from = 0],
  [Plain(1, 1, 1, "deny") EXCEPT !.effective_from = 1],
  [Plain(1, 1, 2, "escalate") EXCEPT !.effective_from = 1, !.effective_until = 1],
  [Plain(3, 1, 2, "require_approval") EXCEPT !.effective_from = 2, !.effective_until = Naive],
  Plain(0, 1, 2, "deny")}

Asked(valid, at, where) ==
  [valid |-> valid, evaluated_at |-> at, bound |-> [a \in MCAttribute |-> where]]

MCContext == {Asked(TRUE, 1, here), Asked(TRUE, 2, there), Asked(FALSE, 1, here)}

\* For the removal: rules that all apply, a lenient and a strict one of one priority.
PlainRule == {Plain(1, 1, 1, "allow"), Plain(2, 1, 1, "deny"), Plain(3, 1, 2, "escalate")}

PlainContext == {Asked(TRUE, 1, here)}

=============================================================================
