----------------------------- MODULE EntryOwners -----------------------------
(***************************************************************************)
(* The three owners of facts an entry quantity is computed from, each a    *)
(* function of captured evidence e and the boundary e.at = K:              *)
(*   QuantityDomain   the grid of quantities the venue accepts;            *)
(*   PositionEffect   the interval in which an entry of quantity q ends as *)
(*                    one position of quantity q;                          *)
(*   RiskBasis        the loss at the stop as a function of the quantity.  *)
(* An answer is ESTABLISHED, NOT_SUITABLE (proved unusable), UNKNOWN       *)
(* (something is unresolved) or INVALID (the request raises).              *)
(***************************************************************************)
EXTENDS QuantityLattice, SpecificationLifecycle

Answer(outcome, value) == [outcome |-> outcome, value |-> value]
Invalid == Answer("INVALID", None)
Unknown == Answer("UNKNOWN", None)
Unsuitable == Answer("NOT_SUITABLE", None)
Established(value) == Answer("ESTABLISHED", value)

-----------------------------------------------------------------------------
(* The host's admission.                                                   *)

\* An admission names the boundary it is made for, pins the packets it has seen
\* by their digests and comes after them; otherwise the request raises.
AdmissionFits(e, s) ==
  e.adm # None =>
    /\ e.packet[s] # None
    /\ e.adm.boundary = e.at
    /\ e.adm.pins[s] = e.packet[s].taken
    /\ e.packet[s].taken <= e.adm.admitted
    /\ e.adm.admitted <= e.at

AdmissionCurrent(e) == e.adm # None /\ Within(e.adm.from, e.adm.until, e.at)

\* The planning mandate has an interval of its own.
MandateCurrent(e) == e.adm # None /\ Within(e.adm.from, e.adm.mandate, e.at)

\* A receipt of the target, ADMITTED, in a context that is current.
Admitted(e, target) == AdmissionCurrent(e) /\ target \notin e.adm.unresolved

-----------------------------------------------------------------------------
(* Quantity domain.                                                        *)

GridAdmissible(e) ==
  LET inv == e.packet["financial"].grid
  IN  /\ Consistent(inv)
      /\ CausallyAdmissible(inv, e.at)
      /\ \A r \in inv.records : r.kind = "DECLARE" /\ r.body # None => WellFormedTerms(r.body)
      /\ inv.coverage.declarations = "COMPLETE" =>
           \A r \in inv.records : r.kind = "DECLARE" => r.body # None

QuantityDomain(e) ==
  IF ~AdmissionFits(e, "financial") THEN Invalid
  ELSE IF e.packet["financial"] = None THEN Unknown
  ELSE IF ~GridAdmissible(e) THEN Invalid
  ELSE LET inv == e.packet["financial"].grid
       IN  IF ~Admitted(e, "grid") \/ ~Resolves(inv, e.at) THEN Unknown
           ELSE LET d == Descriptor(InForce(inv, e.at).body)
                IN  IF IsEmpty(d) THEN Unsuitable ELSE Established(d)

-----------------------------------------------------------------------------
(* Position effect.                                                        *)

\* The inventory and what the current declaration says of the account state.
EffectAdmissible(e) ==
  LET p == e.packet["position"]
  IN  /\ Consistent(p.effect)
      /\ CausallyAdmissible(p.effect, e.at)
      /\ \A r \in p.effect.records :
           r.kind = "DECLARE" => 0 < r.body.range.min /\ r.body.range.min <= r.body.range.max

\* The account itself: current, complete, without positions, of a known mode.
AccountIsFlat(e) ==
  LET a == e.packet["position"].account
  IN  a.effective = e.at /\ a.complete /\ a.positions = {} /\ a.mode # "UNKNOWN"

\* Nobody is committed to change the position: every member of the roster, the
\* provider among them, reports at the boundary, in full, that it has nothing.
NoCommitments(e) ==
  LET p == e.packet["position"]
  IN  /\ "provider" \in p.roster
      /\ p.roster \subseteq { r.member : r \in p.reports }
      /\ \A r \in p.reports : r.stateAt = e.at /\ r.complete /\ r.status = "EMPTY"

PositionEffect(e) ==
  IF ~AdmissionFits(e, "position") THEN Invalid
  ELSE IF e.packet["position"] = None THEN Unknown
  ELSE IF ~EffectAdmissible(e) THEN Invalid
  ELSE LET inv == e.packet["position"].effect
       IN  IF /\ Admitted(e, "effect")
              /\ Resolves(inv, e.at) /\ ~PublishedBackwards(inv)
              /\ AccountIsFlat(e) /\ NoCommitments(e)
              /\ InForce(inv, e.at).body.mechanics = "SUPPORTED"
           THEN Established(Interval(InForce(inv, e.at).body.range.min,
                                     InForce(inv, e.at).body.range.max))
           ELSE Unknown

-----------------------------------------------------------------------------
(* Entry-to-stop risk basis.                                               *)

\* The planning history is one chain of decisions, none earlier than the one it
\* replaces; another specification takes an approval.  It is read only when it is
\* declared complete through the boundary.
PlanAdmissible(plan) ==
  /\ plan.decisions # <<>> => Head(plan.decisions).decision = "APPROVED"
  /\ \A i \in 2 .. Len(plan.decisions) :
       LET earlier == plan.decisions[i - 1]
           later   == plan.decisions[i]
       IN  earlier.decided <= later.decided
           /\ (later.revision # earlier.revision => later.decision = "APPROVED")
PlanCovers(plan, at) == plan.complete /\ plan.cutoff = at
Governing(plan, at) ==
  LET effective == { i \in DOMAIN plan.decisions : plan.decisions[i].from <= at }
  IN  IF effective = {} THEN None ELSE plan.decisions[Max(effective)]

\* The specification that applies now, as the reporter tells it through now.
Specification(e) == Applicable(e.packet["financial"].lifecycle, e.at, e.at)
Contract(e) == e.packet["financial"].lifecycle.revisions[Specification(e).selected]

\* The side the stop watches, and what entry and stop cost in the adverse case.
Side(direction, bid, ask) == IF direction = "LONG" THEN bid ELSE ask
Clearance(e) ==
  LET now == Side(e.direction, e.quote.bid, e.quote.ask)
  IN  IF e.direction = "LONG" THEN now - e.stop ELSE e.stop - now
AdverseEntry(e) ==
  IF e.direction = "LONG" THEN e.quote.ask + e.terms.entryAllowance ELSE e.quote.bid - e.terms.entryAllowance
AdverseFill(e) ==
  IF e.direction = "LONG" THEN e.stop - e.terms.stopAllowance ELSE e.stop + e.terms.stopAllowance
Distance(e) ==
  IF e.direction = "LONG" THEN AdverseEntry(e) - AdverseFill(e) ELSE AdverseFill(e) - AdverseEntry(e)

\* Reasons no quantity can be risked on these inputs.
CandidateFails(e) == e.candidate \in {"INVALIDATED", "EXPIRED"}
OtherSpecificationApproved(e, row) ==
  row.decision = "APPROVED" /\ Specification(e).selected \notin {None, row.revision}
PlanForbids(e) ==
  LET plan == e.packet["financial"].plan
      row  == Governing(plan, e.at)
  IN  /\ PlanCovers(plan, e.at)
      /\ row # None
      /\ \/ row.decision # "APPROVED" \/ ~Within(row.from, row.until, e.at)
         \/ OtherSpecificationApproved(e, row)
MandateExpired(e) == e.adm # None /\ ~MandateCurrent(e)
PayoffUnusable(e) ==
  Specification(e).selected # None /\ Contract(e).payoff \in {"ABSENT", "UNSUPPORTED", "NONUNIFORM"}
QuoteUnusable(e) ==
  \/ Specification(e).selected \notin {None, e.quote.revision}
  \/ e.quote.bid <= 0 \/ e.quote.bid > e.quote.ask
  \/ e.quote.bidTime # e.quote.askTime
StopUnusable(e) ==
  \/ (e.stop - e.terms.tickOrigin) % e.terms.tick # 0
  \/ e.terms.trigger # "UNKNOWN" /\ e.terms.trigger # Side(e.direction, "BID_AT_MOST", "ASK_AT_LEAST")
  \/ Clearance(e) <= 0 \/ Clearance(e) < e.terms.minimumClearance
  \/ AdverseEntry(e) <= 0 \/ AdverseFill(e) <= 0 \/ Distance(e) <= 0

\* Reasons the basis stays open.
RiskUnresolved(e) ==
  LET plan == e.packet["financial"].plan
  IN  \/ e.candidate = "UNKNOWN"
      \/ Specification(e).selected = None \/ Contract(e).payoff = "INCOMPLETE"
      \/ ~PlanCovers(plan, e.at) \/ Governing(plan, e.at) = None
      \/ e.adm = None
      \/ e.terms.trigger = "UNKNOWN" \/ e.terms.costs = "UNKNOWN"
      \/ e.at - e.quote.bidTime > e.terms.maximumAge
      \/ e.at - e.quote.askTime > e.terms.maximumAge

RiskNegatives(e) ==
  { n \in {"candidate", "payoff", "plan", "mandate", "costs", "quote", "stop"} :
      CASE n = "candidate" -> CandidateFails(e)
        [] n = "payoff"    -> PayoffUnusable(e)
        [] n = "plan"      -> PlanForbids(e)
        [] n = "mandate"   -> MandateExpired(e)
        [] n = "costs"     -> e.terms.costs = "INCOMPLETE"
        [] n = "quote"     -> QuoteUnusable(e)
        [] n = "stop"      -> StopUnusable(e) }

RiskFunction(e) ==
  [priceLoss |-> Contract(e).coefficient * Distance(e), charges |-> e.terms.charges,
   maximum |-> e.terms.maximumQuantity]

\* A proof of unsuitability prevails over what is unresolved; the answer names both.
RiskAnswer(outcome, value, negatives, unresolved) ==
  [outcome |-> outcome, value |-> value, negatives |-> negatives, unresolved |-> unresolved]
RiskOutcome(e, negatives, unresolved) ==
  CASE negatives # {} -> RiskAnswer("NOT_SUITABLE", None, negatives, unresolved)
    [] negatives = {} /\ unresolved -> RiskAnswer("UNKNOWN", None, {}, TRUE)
    [] OTHER -> RiskAnswer("ESTABLISHED", RiskFunction(e), {}, FALSE)
RiskBasis(e) ==
  IF e.packet["financial"] = None THEN RiskAnswer("UNKNOWN", None, {}, TRUE)
  ELSE IF ~AdmissionFits(e, "financial") \/ ~PlanAdmissible(e.packet["financial"].plan)
          \/ ~LifecycleAdmissible(e.packet["financial"].lifecycle, e.at)
          \/ e.quote.bidTime > e.at \/ e.quote.askTime > e.at THEN RiskAnswer("INVALID", None, {}, TRUE)
  ELSE RiskOutcome(e, RiskNegatives(e), RiskUnresolved(e))

=============================================================================
