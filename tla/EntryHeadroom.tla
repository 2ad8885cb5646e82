---------------------------- MODULE EntryHeadroom ----------------------------
(***************************************************************************)
(* What is left above the provider's floors once the entry has been        *)
(* stopped out and settled, before the deadline e.end:                     *)
(*   Projection  that the balance after it is the balance now, less the    *)
(*               price loss and every charge, each exactly once;           *)
(*   Headroom    which of the composed quantities leave every floor that   *)
(*               is in force until then intact.                            *)
(* Both read a declaration stream of the packet captured for the floors,   *)
(* whose coverage reaches until coverage.until.                            *)
(***************************************************************************)
EXTENDS EntryLimits

FloorPacket(e) == e.packet["floor"]

\* The terms in force at the boundary stay in force until the deadline.
HeldThrough(inv, at, end) ==
  /\ Resolves(inv, at)
  /\ ~PublishedBackwards(inv)
  /\ inv.coverage.until >= end
  /\ InForce(inv, at).until >= end
  /\ \A r \in inv.records : ~(at < r.from /\ r.from < end)

-----------------------------------------------------------------------------
(* The projection of the balance.                                          *)

\* Everybody who could charge or credit the account reports, at the boundary
\* and until the deadline, that nothing else is coming.
NothingElseComes(e, c) ==
  /\ c.complete /\ c.stateAt = e.at /\ c.cutoff = e.at /\ c.until = e.end
  /\ "provider" \in c.roster
  /\ c.roster \subseteq { r.member : r \in c.reports }
  /\ \A r \in c.reports :
       r.complete /\ r.stateAt = e.at /\ r.cutoff = e.at /\ r.until = e.end /\ r.status = "ABSENT"

\* Each amount is recognized exactly once, after the baseline.
RecognizedOnce(e, body) ==
  /\ body.baseline.stateAt = e.at /\ body.baseline.cutoff = e.at /\ body.baseline.direct
  /\ body.price = "ONCE"
  /\ \A i \in DOMAIN e.terms.charges : i \in DOMAIN body.charges /\ body.charges[i] = "ONCE"
  /\ body.costs = "COMPLETE"
  /\ body.scenario.cutoff = e.at /\ body.scenario.until >= e.end /\ body.scenario.supported

\* The assignment and the package do not run out before the deadline.
RegimeReaches(e, r) ==
  r.outcome = "UNIQUE" =>
    \A p \in {r.assignment.enrollment, r.assignment.phase, r.package.period} :
      p.until # None => p.until >= e.end

\* The baseline and every charge are settled once, and nothing else comes.
Accounted(e, body) == RecognizedOnce(e, body) /\ NothingElseComes(e, body.sources)

ProjectionOf(e, owner) ==
  LET w == FloorPacket(e)
      a == e.packet["financial"].account
  IN  IF owner.outcome = "INVALID" \/ ~AdmissionFits(e, "floor") THEN Invalid
      ELSE IF w = None THEN Unknown
      ELSE IF ~(Consistent(w.projection) /\ CausallyAdmissible(w.projection, e.at)) THEN Invalid
      ELSE IF /\ owner.outcome = "ESTABLISHED"
              /\ e.measure = "BALANCE"
              /\ a.effective = e.at /\ a.balance # None
              /\ \A i \in DOMAIN e.terms.charges : e.terms.charges[i].scheduled
              /\ Admitted(e, "projection")
              /\ HeldThrough(w.projection, e.at, e.end)
              /\ RegimeReaches(e, SelectedHere(e))
              /\ Accounted(e, InForce(w.projection, e.at).body)
           THEN Established([balance |-> a.balance, function |-> RiskFunction(e), support |-> owner.domain])
      ELSE Unknown

Projection(e) == ProjectionOf(e, Composition(e))

-----------------------------------------------------------------------------
(* The sources of the floors.                                              *)

\* The body of the declaration in force: reports of sources, their entries, and
\* what is said of each rule.
Dismissed == {"HISTORICAL_NON_GOVERNING", "PROVEN_OUTSIDE_SCOPE", "OTHER_OBLIGATION"}

ReportGood(e, r) ==
  r.complete /\ r.stateAt = e.at /\ r.cutoff = e.at /\ r.from <= e.at /\ r.until >= e.end

EntryGood(e, body, x) ==
  /\ \E r \in body.reports : r.key = x.report /\ ReportGood(e, r)
  /\ x.disposition # "UNRESOLVED"
  /\ x.kind = "RULE" /\ x.rules = {} => x.disposition \in Dismissed
  /\ Admitted(e, x.id)

\* The entries a rule depends on: those that name it or change the package or the
\* phase, and all that are related to them.
Bearing(body, rule) ==
  LET seeds     == { x \in body.entries : rule.id \in x.rules \/ x.kind = "CHANGE" }
      Related(s) == \A x \in body.entries : (\E y \in s : x.id \in y.related \/ y.id \in x.related) => x \in s
  IN  { x \in body.entries : \A s \in SUBSET body.entries : seeds \subseteq s /\ Related(s) => x \in s }

\* None of them changes anything before the deadline; an entry is set aside only
\* if setting it aside is admitted.
NoKnownChange(e, body, rule) ==
  \A x \in Bearing(body, rule) :
    /\ EntryGood(e, body, x)
    /\ x.disposition \notin Dismissed =>
         /\ x.from # None /\ x.until # None
         /\ \A t \in {x.from, x.until} : ~(e.at < t /\ t < e.end)

\* Neither another assignment nor another package can come to apply, and the
\* selected ones cover the time to the deadline.
Overlaps(periods, at, end) ==
  LET starts == { p.from : p \in periods } \ {None}
      stops  == { p.until : p \in periods } \ {None}
  IN  IF Max(starts \cup {at}) >= Min(stops \cup {end}) THEN "NO"
      ELSE IF \E p \in periods : p.from = None \/ p.until = None THEN "UNSURE" ELSE "YES"
RegimeSteady(e, r) ==
  LET m == Position(e).regime
      s == r.assignment
      rivals == { {a.enrollment, a.phase} : a \in m.assignments \ {s} }
                \cup { {b.period, m.packages[b.package].period} :
                         b \in { b \in s.packages : b.package # r.package.id } }
  IN  /\ r.outcome = "UNIQUE"
      /\ \A periods \in rivals : Overlaps(periods, e.at, e.end) = "NO"
      /\ \A p \in {s.enrollment, s.phase, r.package.period} :
           p.from # None /\ p.until # None /\ p.from <= e.at /\ p.until >= e.end
      /\ Covers({ b.period : b \in { b \in s.packages : b.package = r.package.id } }, e.at, e.end)

-----------------------------------------------------------------------------
(* The floors.                                                             *)

FloorBody(e) == InForce(FloorPacket(e).floors, e.at).body
Saying(body, rule) == { b \in body.bindings : b.rule = rule.id }
Closed(e, c) == c.complete /\ c.cutoff = e.at

\* What is settled about a rule before its floor is looked at.
RuleSourced(e, body, b, rule) ==
  LET sources == { x \in body.entries : x.id \in b.sources }
  IN  /\ \E x \in sources : x.kind = "RULE" /\ x.disposition = "MAPPED_NATIVE_RULE" /\ rule.id \in x.rules
      /\ \A x \in sources : EntryGood(e, body, x)
      /\ b.horizon.invariant /\ Closed(e, b.horizon)
      /\ NoKnownChange(e, body, rule)
      /\ b.population \in {"CONTAINS_SCENARIO", "DISJOINT"}
      /\ Admitted(e, rule.id)

\* A waiver has to be as well sourced as the rule, and as long.
Waived(e, body, b) ==
  LET waivers == { x \in body.entries : x.id \in b.exceptions.entries
                                        /\ x.kind = "WAIVER" /\ x.disposition = "SUPPORTING_RULE_EVIDENCE" }
  IN  /\ b.force = "NOT_MANDATORY" /\ b.exceptions.authorized
      /\ waivers # {} /\ Covers(waivers, e.at, e.end)

\* The rule is a floor under the balance, in force until the deadline.
Floors(e, body, b, rule) ==
  LET mapped == { x \in body.entries :
                    x.kind = "RULE" /\ x.disposition = "MAPPED_NATIVE_RULE" /\ rule.id \in x.rules }
  IN  /\ b.force = "MANDATORY_UNCHANGED"
      /\ Covers(mapped, e.at, e.end)
      /\ b.exceptions.resolution \in {"NONE_APPLICABLE", "RESOLVED_WITH_PREDICATE_UNCHANGED"}
      /\ rule.supported /\ rule.type = "STATIC_FLOOR"
      /\ rule.measure = "BALANCE" /\ ~rule.separateCosts
      /\ b.measure = "IDENTICAL" /\ b.threshold = "NATIVE_COMPATIBLE"
      /\ rule.threshold.fraction # None =>
           \E o \in e.packet["financial"].operands :
             /\ o.rule = rule.id /\ o.role = "INITIAL_REFERENCE"
             /\ o.from <= e.at /\ o.until >= e.end

FloorDisposition(e, body, rule) ==
  LET b == CHOOSE b \in Saying(body, rule) : TRUE
  IN  IF Saying(body, rule) = {} THEN "UNRESOLVED"
      ELSE IF ~RuleSourced(e, body, b, rule) THEN "UNRESOLVED"
      ELSE IF b.population = "DISJOINT" THEN "DISJOINT_POPULATION"
      ELSE IF b.endpoint = "OUTSIDE_SETTLED_ENDPOINT" THEN b.endpoint
      ELSE IF \/ b.endpoint = "UNKNOWN" \/ ~Closed(e, b.exceptions)
              \/ \E x \in body.entries : x.id \in b.exceptions.entries /\ ~EntryGood(e, body, x) THEN "UNRESOLVED"
      ELSE IF b.exceptions.resolution = "WAIVED_THROUGHOUT"
        THEN IF Waived(e, body, b) THEN "WAIVED_THROUGHOUT" ELSE "UNRESOLVED"
      ELSE IF Floors(e, body, b, rule) THEN "SUPPORTED_STATIC_FLOOR" ELSE "UNRESOLVED"

\* The quantities, a prefix of the grid, that leave the balance above the floor.
FloorOf(e, rule) == Amount(rule.threshold, OperandOf(e, rule, "INITIAL_REFERENCE"))
Passing(basis, floor, strict) ==
  LET d == basis.support
      Passes(i) == LET h == basis.balance - Loss(basis.function, At(d, i)) - floor
                   IN  IF strict THEN h > 0 ELSE h >= 0
  IN  IF ~Passes(d.first) THEN EmptyGrid
      ELSE Slice(d, d.first, LastFitting([i \in d.first .. d.last |-> Passes(i)], d.first, d.last))

\* Every source named has reported, and every entry and every rule is settled.
UniverseComplete(e, body) ==
  /\ body.complete /\ body.stateAt = e.at /\ body.cutoff = e.at
  /\ body.expected # {} /\ body.expected \subseteq { r.key : r \in body.reports }
  /\ \A r \in body.reports : ReportGood(e, r)
  /\ \A x \in body.entries : EntryGood(e, body, x)
  /\ SelectedHere(e).package.complete
  /\ Admitted(e, "universe")

\* One floor that no quantity clears decides whatever else is open; to answer
\* with quantities, everything must be settled.
HeadroomResult(passing, complete) ==
  IF EmptyGrid \in passing THEN Unsuitable
  ELSE IF complete /\ passing # {}
    THEN Established(CHOOSE d \in passing : \A c \in passing : d.last <= c.last)
    ELSE Unknown

\* disposed[r]: what is settled of the selected rule r.
HeadroomUnder(e, body, basis, disposed) ==
  LET floors == { r \in DOMAIN disposed : disposed[r] = "SUPPORTED_STATIC_FLOOR" }
  IN  HeadroomResult({ Passing(basis, FloorOf(e, r), r.strict) : r \in floors },
                     /\ \A r \in DOMAIN disposed : disposed[r] # "UNRESOLVED"
                     /\ UniverseComplete(e, body))

\* The declaration in force reaches the deadline, and so does the regime.
FloorsHold(e, body) ==
  /\ HeldThrough(FloorPacket(e).floors, e.at, e.end)
  /\ body.cutoff = e.at /\ body.until >= e.end /\ body.subjects
  /\ RegimeSteady(e, SelectedHere(e))
  /\ Admitted(e, "floors")

HeadroomFrom(e, body, basis) ==
  IF FloorsHold(e, body)
    THEN HeadroomUnder(e, body, basis, [r \in SelectedRules(e) |-> FloorDisposition(e, body, r)])
    ELSE Unknown

HeadroomOf(e, owner) ==
  IF owner = Invalid THEN Invalid
  ELSE IF FloorPacket(e) = None THEN Unknown
  ELSE IF ~(Consistent(FloorPacket(e).floors) /\ CausallyAdmissible(FloorPacket(e).floors, e.at)) THEN Invalid
  ELSE IF owner.outcome # "ESTABLISHED" THEN Unknown
  ELSE HeadroomFrom(e, FloorBody(e), owner.value)

Headroom(e) == HeadroomOf(e, Projection(e))

=============================================================================
