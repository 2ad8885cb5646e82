----------------------------- MODULE AccountRules -----------------------------
(***************************************************************************)
(* What the account may do at the boundary, before any quantity: the       *)
(* provider's rule regime of the account, and the gates of the account's   *)
(* own risk policy and of each selected rule.  Every gate is a function of *)
(* the evidence f = e.packet["financial"]; its outcome is SATISFIED,       *)
(* NOT_SATISFIED or UNKNOWN.                                               *)
(***************************************************************************)
EXTENDS EntryOwners

Verdict(failed, unknown) ==
  IF failed THEN "NOT_SATISFIED" ELSE IF unknown THEN "UNKNOWN" ELSE "SATISFIED"

-----------------------------------------------------------------------------
(* The regime.                                                             *)

\* A period holds at t, does not, or may: its start (None) or its end (None) may
\* be unknown; Always is an end known to be open.
Holds(p, t) ==
  IF (p.from # None /\ t < p.from) \/ (p.until # None /\ t >= p.until) THEN "NO"
  ELSE IF None \in {p.from, p.until} THEN "UNSURE" ELSE "YES"

\* What is a rule at all: unknown effects stand alone; a limit of the quantity
\* names its one instrument; windows and reset days lie side by side.
RuleAdmissible(rule) ==
  LET Disjoint(ws) == \A v, w \in ws : v # w => v.until <= w.from \/ w.until <= v.from
  IN  /\ rule.effects # {} /\ ("UNKNOWN" \in rule.effects => rule.effects = {"UNKNOWN"})
      /\ rule.instruments # {}
      /\ rule.type = "POSITION_QUANTITY" =>
           rule.maximum > 0 /\ rule.instruments # None /\ Cardinality(rule.instruments) = 1
      /\ rule.type = "ACTION_WINDOW" =>
           /\ Disjoint(rule.windows)
           /\ \A w \in rule.windows : rule.schedule.from <= w.from /\ w.until <= rule.schedule.until
      /\ rule.type = "DAILY_RESET_FLOOR" => rule.days # {} /\ Disjoint(rule.days)

\* The checks of a report that raise.
RegimeAdmissible(m, at) ==
  /\ \A p \in DOMAIN m.packages : \A rule \in m.packages[p].rules : RuleAdmissible(rule)
  /\ m.observed <= at
  /\ IF m.cutoff = None THEN ~m.complete ELSE m.cutoff <= m.observed
  /\ \A a \in m.approvals :
       \E s \in m.assignments : s.id = a.assignment /\ \E b \in s.packages : b.package = a.package

ManifestCovers(m, t, k) ==
  /\ m.complete
  /\ m.cutoff # None => m.cutoff >= k
  /\ Holds(m.period, t) = "YES"

\* Enrolments in a phase, and packages bound to one, that are not provably over.
Assigned(m, at) ==
  { s \in m.assignments : "NO" \notin { Holds(s.enrollment, at), Holds(s.phase, at) } }
Bound(m, s, at) ==
  { b \in s.packages : "NO" \notin { Holds(b.period, at), Holds(m.packages[b.package].period, at) } }
\* (A variant for which what may hold is enough.)
MaybeIsEnough(periods, at) == \A p \in periods : Holds(p, at) # "NO"
Sure(periods, at) == \A p \in periods : Holds(p, at) = "YES"

Approvals(m, s, package) ==
  { a \in m.approvals : a.assignment = s.id /\ a.package = package }

\* The regime at t, as known by k.  (A package carries its own id.)  It is UNIQUE
\* when one assignment, one package and approvals that agree are established;
\* anything unsure leaves it UNRESOLVED.
NoRegime(outcome) == [outcome |-> outcome, assignment |-> None, package |-> None]

\* ... once the assignment s and the package p are known, with its approvals.
DecidedRegime(m, at, s, p, approvals) ==
  LET decided == { a.decision : a \in { a \in approvals : Holds(a.period, at) = "YES" } }
  IN  IF approvals = {} THEN NoRegime("NO_APPLICABLE")
      ELSE IF (\E a \in approvals : Holds(a.period, at) = "UNSURE") \/ Cardinality(decided) > 1
        THEN NoRegime("UNRESOLVED")
      ELSE IF decided # {"APPROVED"} THEN NoRegime("NO_APPLICABLE")
      ELSE [outcome |-> "UNIQUE", assignment |-> s, package |-> m.packages[p]]

\* ... once the assignment s is known, with the packages bound to it.
BoundRegime(m, at, s, bound) ==
  IF bound = {} THEN NoRegime("NO_APPLICABLE")
  ELSE IF \/ Cardinality({ b.package : b \in bound }) > 1
          \/ ~Sure({ b.period : b \in bound } \cup { m.packages[b.package].period : b \in bound }, at)
    THEN NoRegime("UNRESOLVED")
  ELSE LET p == (CHOOSE b \in bound : TRUE).package
       IN  DecidedRegime(m, at, s, p, Approvals(m, s, p))

\* ... once the assignments are known that may be active.
AssignedRegime(m, at, active) ==
  IF active = {} THEN NoRegime("NO_APPLICABLE")
  ELSE IF \/ Cardinality(active) > 1
          \/ \E a \in active : ~Sure({a.enrollment, a.phase}, at) \/ ~a.identified
    THEN NoRegime("UNRESOLVED")
  ELSE LET s == CHOOSE s \in active : TRUE IN BoundRegime(m, at, s, Bound(m, s, at))

RegimeAsOf(m, at, k) ==
  IF ManifestCovers(m, at, k) THEN AssignedRegime(m, at, Assigned(m, at)) ELSE NoRegime("UNRESOLVED")

Regime(m, at) == RegimeAsOf(m, at, at)

\* Periods that leave no gap from one instant up to, and excluding, another.
Covers(periods, at, end) ==
  \A t \in at .. end - 1 : \E p \in periods : p.from # None /\ p.until # None /\ Within(p.from, p.until, t)

FinancialRegime(e) == Regime(e.packet["financial"].regime, e.at)
RulesOf(regime) == IF regime.outcome = "UNIQUE" THEN regime.package.rules ELSE {}
SelectedRules(e) == RulesOf(FinancialRegime(e))

-----------------------------------------------------------------------------
(* The own policy: one per cent of the equity at risk, and no new entry    *)
(* after two losses at the initial protective stop in one day.             *)

PolicyApplies(e) ==
  LET p == e.packet["financial"].policy IN Within(p.from, p.until, e.at)

\* One root per trade; every correction supplied with what it corrects, of the
\* same trade and not earlier; no branches, no cycle.
TradesAdmissible(trades, at) ==
  /\ \A r \in trades :
       /\ r.published <= at
       /\ r.completed => r.close # None /\ r.close <= r.published
       /\ r.structure = "SUPPORTED" => r.completed
       /\ r.net = "FINAL_COMPLETE" => r.structure = "SUPPORTED" /\ r.amount # None
       /\ r.mechanism # "UNRESOLVED" => r.structure = "SUPPORTED"
       /\ \/ r.pred = NoPred
          \/ \E p \in trades : r.pred = PredRecord(p.id) /\ p.trade = r.trade /\ p.published <= r.published
       /\ <<r.id, r.id>> \notin Descends([records |-> trades])
  /\ \A r, s \in trades : r # s /\ r.trade = s.trade => r.pred # s.pred
EffectiveTrades(trades) == { r \in trades : \A s \in trades : s.pred # PredRecord(r.id) }

\* Closed on the day, up to the boundary.
Relevant(r, day, at) == r.completed /\ day.start <= r.close /\ r.close <= at /\ r.close < day.end

\* A statement of what closed that day: nothing but what did, all of it when it
\* claims to be complete.  It is adequate if it reaches from the start of the
\* day to the boundary and knows the corrections up to it.
CoverageAdmissible(f, at) ==
  LET needed == { r.id : r \in { r \in EffectiveTrades(f.trades) : Relevant(r, f.day, at) } }
      rows   == f.coverage
  IN  /\ \A c \in rows :
           /\ c.refs \subseteq needed
           /\ c.complete => c.refs = needed /\ ~c.unbounded
           /\ c.end <= c.published /\ c.published <= at
           /\ c.cutoff # None => c.cutoff <= c.published
      /\ ~((\E c \in rows : c.complete /\ c.start <= f.day.start /\ c.end >= at /\ c.cutoff = at)
           /\ \E c \in rows : c.unbounded)
Adequate(f, at) ==
  \E c \in f.coverage : c.complete /\ c.start <= f.day.start /\ c.end >= at /\ c.cutoff = at

StoppedOut(r) ==
  r.structure = "SUPPORTED" /\ r.mechanism = "INITIAL_PROTECTIVE_STOP"
  /\ r.net = "FINAL_COMPLETE" /\ r.amount < 0
NotALoss(r) ==
  r.structure = "SUPPORTED"
  /\ \/ r.mechanism \notin {"INITIAL_PROTECTIVE_STOP", "UNRESOLVED"}
     \/ r.net = "FINAL_COMPLETE" /\ r.amount >= 0

\* (A variant that counts what may be a loss as one.)
PossibleIsEnough(f, at) ==
  LET needed == { r \in EffectiveTrades(f.trades) : Relevant(r, f.day, at) }
  IN  Verdict(Cardinality({ r \in needed : ~NotALoss(r) }) >= 2, ~Adequate(f, at))
DailyLossGate(f, at) ==
  LET needed   == { r \in EffectiveTrades(f.trades) : Relevant(r, f.day, at) }
      definite == { r \in needed : StoppedOut(r) }
      possible == { r \in needed : ~NotALoss(r) }
      bounded  == Adequate(f, at) /\ \A r \in needed : r.structure = "SUPPORTED"
  IN  Verdict(Cardinality(definite) >= 2, ~bounded \/ Cardinality(possible) >= 2)

\* Equity of the boundary itself, or not older than the policy allows.
EquityGate(f, at) ==
  LET known == f.account.equity # None /\ at - f.account.effective <= f.policy.maximumAge
  IN  Verdict(known /\ f.account.equity <= 0, ~known)
Budget(f) == f.account.equity \div 100

CompatibilityGate(f) ==
  Verdict(FALSE, ~(f.compatible.asserted /\ f.compatible.measured /\ f.compatible.sameCurrency))

RegimeGate(regime) == Verdict(FALSE, regime.outcome # "UNIQUE" \/ ~regime.package.complete)

-----------------------------------------------------------------------------
(* The selected rules.                                                     *)

EntryEffects == {"ENTRY", "ACCOUNT_ELIGIBILITY"}

\* The operand of a rule in a role, in force; None if there is none.
OperandOf(e, rule, role) ==
  LET found == { o \in e.packet["financial"].operands :
                   o.rule = rule.id /\ o.role = role /\ Within(o.from, o.until, e.at) }
  IN  IF found = {} THEN None ELSE (CHOOSE o \in found : TRUE).body

\* One value per rule and role; nothing for a rule that is not selected.
OperandsAdmissible(e) ==
  LET ops == e.packet["financial"].operands
  IN  /\ \A o \in ops : o.published <= e.at /\ o.from < o.until /\ \E r \in SelectedRules(e) : r.id = o.rule
      /\ \A o, p \in ops : o.rule = p.rule /\ o.role = p.role => o = p

Action(e) == IF e.direction = "LONG" THEN "ENTRY_LONG" ELSE "ENTRY_SHORT"

PermissionOutcome(e, rule) ==
  Verdict({Action(e), e.mode} \cap rule.actions # {} /\ rule.permission = "PROHIBITED", FALSE)

WindowOutcome(e, rule) ==
  LET inside == \E w \in rule.windows : Within(w.from, w.until, e.at)
  IN  IF Action(e) \notin rule.actions THEN "SATISFIED"
      ELSE IF ~Within(rule.schedule.from, rule.schedule.until, e.at) THEN "UNKNOWN"
      ELSE Verdict(inside # rule.within, FALSE)

StateOutcome(e, rule) ==
  LET facts == { OperandOf(e, rule, r) : r \in rule.facts }
  IN  Verdict(FALSE \in facts, None \in facts)

\* The number of positions, with those already committed and the new one.
CountOutcome(e, rule) ==
  LET c     == OperandOf(e, rule, "POSITION_COUNT_CONTEXT")
      held  == { p \in e.packet["financial"].account.positions :
                   rule.instruments # None => p \in rule.instruments }
      count == Cardinality(held) + c.committed
      after == count + (IF c.effect = "NEW_SEPARATE_POSITION" THEN 1 ELSE 0)
  IN  IF c = None THEN "UNKNOWN"
      ELSE IF ~c.complete \/ rule.foreign THEN "UNKNOWN"
      ELSE IF count > rule.maximum THEN "NOT_SATISFIED"
      ELSE IF c.effect = "QUANTITY_DEPENDENT" THEN "SATISFIED"
      ELSE Verdict(c.effect # "UNKNOWN" /\ after > rule.maximum, c.effect = "UNKNOWN")

\* A floor under balance or equity: fixed, or a deduction from the value at the
\* last reset; absolute, or a fraction of an initial reference.
Amount(threshold, initial) ==
  IF threshold.fraction = None THEN threshold.amount ELSE (initial * threshold.fraction) \div 100
Measure(e, rule) ==
  IF rule.measure = "BALANCE" THEN e.packet["financial"].account.balance
                              ELSE e.packet["financial"].account.equity
FloorOutcome(e, rule) ==
  LET value   == Measure(e, rule)
      costs   == OperandOf(e, rule, "COST_ADJUSTMENTS")
      initial == OperandOf(e, rule, "INITIAL_REFERENCE")
      anchor  == OperandOf(e, rule, "RESET_ANCHOR")
      reset   == { d \in rule.days : Within(d.from, d.until, e.at) }
      daily   == rule.type = "DAILY_RESET_FLOOR"
      missing == \/ rule.separateCosts /\ costs = None
                 \/ rule.threshold.fraction # None /\ initial = None
                 \/ daily /\ (reset = {} \/ anchor = None)
                 \/ daily /\ reset # {} /\ anchor # None
                    /\ (anchor.adjusted \/ \A d \in reset : d.from # anchor.reset)
      net     == IF rule.separateCosts THEN value - costs ELSE value
      level   == Amount(rule.threshold, initial)
      floor   == IF daily THEN anchor.amount - level ELSE level
  IN  IF OperandOf(e, rule, "MEASURE_BINDING") = None \/ value = None \/ missing THEN "UNKNOWN"
      ELSE Verdict(IF rule.strict THEN net <= floor ELSE net < floor, FALSE)

\* A rule of unknown effect cannot be set aside; one that says nothing about
\* entries, or about this instrument, is.
OutsideInstruments(e, rule) ==
  rule.instruments # None /\ OperandOf(e, rule, "INSTRUMENT_BINDING") \notin (rule.instruments \cup {None})
RuleOutcome(e, rule) ==
  IF "UNKNOWN" \in rule.effects THEN "UNKNOWN"
  ELSE IF rule.effects \cap EntryEffects = {} THEN "SATISFIED"
  ELSE IF rule.instruments # None /\ OperandOf(e, rule, "INSTRUMENT_BINDING") = None THEN "UNKNOWN"
  ELSE IF OutsideInstruments(e, rule) THEN "SATISFIED"
  ELSE IF ~rule.supported THEN "UNKNOWN"
  ELSE CASE rule.type = "PERMISSION"        -> PermissionOutcome(e, rule)
         [] rule.type = "ACTION_WINDOW"     -> WindowOutcome(e, rule)
         [] rule.type = "ACCOUNT_STATE"     -> StateOutcome(e, rule)
         [] rule.type = "POSITION_QUANTITY" -> "SATISFIED"
         [] rule.type = "POSITION_COUNT"    -> CountOutcome(e, rule)
         [] rule.type \in {"STATIC_FLOOR", "DAILY_RESET_FLOOR"} -> FloorOutcome(e, rule)
         [] OTHER                           -> "UNKNOWN"

-----------------------------------------------------------------------------
\* Every gate of the risk policy, by name.
PolicyAdmissible(e) ==
  LET f == e.packet["financial"]
  IN  /\ RegimeAdmissible(f.regime, e.at)
      /\ TradesAdmissible(f.trades, e.at)
      /\ CoverageAdmissible(f, e.at)
      /\ OperandsAdmissible(e)
      /\ f.account.effective <= e.at

GateOutcome(e, gate) ==
  LET f == e.packet["financial"]
  IN  CASE gate = "EQUITY"        -> IF PolicyApplies(e) THEN EquityGate(f, e.at) ELSE "UNKNOWN"
        [] gate = "DAILY_LOSS"    -> IF PolicyApplies(e) THEN DailyLossGate(f, e.at) ELSE "UNKNOWN"
        [] gate = "COMPATIBILITY" -> CompatibilityGate(f)
        [] gate = "REGIME"        -> RegimeGate(FinancialRegime(e))
Gates == {"EQUITY", "DAILY_LOSS", "COMPATIBILITY", "REGIME"}

\* What the policy lets through: each gate and each rule, as <<name, outcome>>.
PolicyNodes(e) ==
  { <<gate, GateOutcome(e, gate)>> : gate \in Gates }
  \cup { <<rule.id, RuleOutcome(e, rule)>> : rule \in SelectedRules(e) }

=============================================================================
