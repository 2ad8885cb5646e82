--------------------------- MODULE EntryFeasibility ---------------------------
(***************************************************************************)
(* The quantities whose loss at the stop stays within the budget of the    *)
(* account: the composition of the policy gates (AccountRules), the loss   *)
(* function and the quantity grid (EntryOwners), under the host's          *)
(* admission of each of them and a statement that they speak of the same   *)
(* account, instrument and denominations.                                  *)
(***************************************************************************)
EXTENDS AccountRules

Claims == {"account", "instrument", "quantity", "money"}

\* What an evaluation returns; the grids are None until they are computed.
NoResult(outcome) ==
  [outcome |-> outcome, entry |-> None, supported |-> None, feasible |-> None]

-----------------------------------------------------------------------------
(* The binding of the subjects.                                            *)

BindingOf(e) == e.packet["financial"].binding
BindingCurrent(e) == Within(BindingOf(e).from, BindingOf(e).until, e.at)
BindingUsable(e) == BindingCurrent(e) /\ BindingOf(e).supported

\* A claim of compatibility may not contradict what the subjects say literally.
BindingAdmissible(e) ==
  BindingOf(e) # None =>
    /\ BindingOf(e).published <= e.at
    /\ \A c \in Claims :
         BindingOf(e).claims[c] = "COMPATIBLE" => Cardinality(e.literals[c] \ {None}) <= 1

\* Compatible, usable, admitted, and with nothing missing among the subjects.
Compatible(e, c) ==
  /\ BindingOf(e) # None
  /\ BindingOf(e).claims[c] = "COMPATIBLE"
  /\ BindingUsable(e)
  /\ Admitted(e, c)
  /\ e.literals[c] # {} /\ None \notin e.literals[c]

-----------------------------------------------------------------------------
(* What proves that nothing can be entered.                                *)

BlockingNodes(e, nodes) == { n \in nodes : n[2] = "NOT_SATISFIED" /\ Admitted(e, n[1]) }

\* A reason taken from the planning counts only while the mandate that carries
\* it runs, unless the reason is that it does not.
BlockingRisks(e, risk) ==
  { n \in risk.negatives : Admitted(e, n) /\ (n = "plan" => MandateCurrent(e)) }

BlockingClaims(e) ==
  IF BindingOf(e) = None \/ ~BindingUsable(e) THEN {}
  ELSE { c \in Claims : BindingOf(e).claims[c] = "INCOMPATIBLE" /\ Admitted(e, c) }

-----------------------------------------------------------------------------
(* What leaves it open.                                                    *)

PolicyHolds(e, nodes) == \A n \in nodes : n[2] = "SATISFIED" /\ Admitted(e, n[1])

\* The account of the terms and of the mandate is the account observed.
RiskHolds(e, risk) == risk.outcome = "ESTABLISHED" /\ Admitted(e, "risk") /\ e.scoped

\* No rule that bears on the entry binds another instrument than the one priced.
PolicyNamespace(e) ==
  \A rule \in SelectedRules(e) :
    rule.effects \cap EntryEffects # {} =>
      OperandOf(e, rule, "INSTRUMENT_BINDING") \in {None, e.instrument}

\* A policy node that blocks without an admission is open, and so on.
OpenNodes(e, nodes) == \E n \in nodes : n[2] = "UNKNOWN" \/ ~Admitted(e, n[1])
OpenRisk(e, risk) ==
  \/ risk.unresolved
  \/ risk.outcome = "ESTABLISHED" /\ ~RiskHolds(e, risk)
  \/ BlockingRisks(e, risk) # risk.negatives
OpenClaims(e) ==
  BindingOf(e) = None \/ \E c \in Claims : ~Compatible(e, c) /\ c \notin BlockingClaims(e)

-----------------------------------------------------------------------------
FeasibilityAdmissible(e, domain, risk) ==
  /\ PolicyAdmissible(e)
  /\ domain # Invalid
  /\ risk.outcome # "INVALID"
  /\ BindingAdmissible(e)

\* The grid of the venue, as far as it is known.
VenueGrid(domain) ==
  CASE domain.outcome = "ESTABLISHED"  -> domain.value
    [] domain.outcome = "NOT_SUITABLE" -> EmptyGrid
    [] OTHER                           -> None

\* The supported grid needs the grid, the loss function, the account and the
\* first three claims; the feasible one the budget, the money and the namespace
\* as well.
SupportedGrid(e, entry, risk) ==
  IF entry # None /\ RiskHolds(e, risk) /\ \A c \in Claims \ {"money"} : Compatible(e, c)
    THEN Supported(entry, risk.value.maximum) ELSE None
FeasibleGrid(e, supported, risk, nodes) ==
  IF supported # None /\ PolicyHolds(e, nodes) /\ Compatible(e, "money") /\ PolicyNamespace(e)
    THEN Feasible(supported, risk.value, Budget(e.packet["financial"])) ELSE None

\* A proof prevails over what is open.
FeasibilityResult(e, risk, nodes, entry, supported, feasible) ==
  LET proved == \/ BlockingNodes(e, nodes) # {} \/ BlockingRisks(e, risk) # {} \/ BlockingClaims(e) # {}
                \/ EmptyGrid \in {entry, supported, feasible}
      open   == \/ entry = None \/ OpenNodes(e, nodes) \/ OpenRisk(e, risk) \/ OpenClaims(e)
                \/ ~PolicyNamespace(e)
  IN  [outcome |-> IF proved THEN "NOT_SUITABLE" ELSE IF open THEN "UNKNOWN" ELSE "ESTABLISHED",
       entry |-> entry, supported |-> supported, feasible |-> feasible]

\* The chain of grids; a grid that is not known leaves those after it unknown.
FeasibilityOf(e, domain, risk, nodes) ==
  IF ~FeasibilityAdmissible(e, domain, risk) THEN NoResult("INVALID")
  ELSE LET supported == SupportedGrid(e, VenueGrid(domain), risk)
           feasible  == FeasibleGrid(e, supported, risk, nodes)
       IN  FeasibilityResult(e, risk, nodes, VenueGrid(domain), supported, feasible)

Feasibility(e) ==
  IF e.packet["financial"] = None THEN NoResult("UNKNOWN")
  ELSE FeasibilityOf(e, QuantityDomain(e), RiskBasis(e), PolicyNodes(e))

=============================================================================
