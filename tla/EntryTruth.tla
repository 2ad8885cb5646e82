------------------------------ MODULE EntryTruth ------------------------------
(***************************************************************************)
(* What the answers of the entry owners have to be true of: the facts      *)
(* themselves, everything published by the boundary included, whatever the *)
(* captures say of them.                                                   *)
(***************************************************************************)
EXTENDS EntryDesk

request == world.request

-----------------------------------------------------------------------------
(* The quantities.                                                         *)

\* The records in force: those in effect that nothing in effect replaces.
TrueTerms(topic) ==
  LET known == { r \in Declared(topic, now) : r.from <= now }
  IN  { r \in known : \A s \in known : s.pred # PredRecord(r.id) }
InForceNow(r) == r.kind = "DECLARE" /\ now < r.until

OnGrid(g, q) ==
  /\ g.min <= q /\ (g.max.kind = "FINITE" => q <= g.max.value)
  /\ (q - g.origin) % g.step = 0

\* The revisions of the specification that apply at t, by all that was published:
\* stated by what nobody has corrected, and neither replaced nor withdrawn by it.
Asserted(a) == IF a.says.kind = "CORRECTS" THEN a.says.by ELSE a.says
Standings(t) ==
  LET told == Assertions(now)
      uncorrected == { a \in told : \A c \in told : c.says.kind = "CORRECTS" => c.says.target # a.id }
  IN  { s \in { Asserted(a) : a \in uncorrected } \ {None} : s.from <= t /\ t < s.until }
TrueRevisions(t) ==
  { r \in DOMAIN world.revisions :
      /\ world.revisions[r].effective <= t
      /\ \E s \in Standings(t) : \/ s.kind = "APPLIES" /\ s.revision = r
                                 \/ s.kind = "SUPERSEDES" /\ s.after = r
      /\ \A s \in Standings(t) : ~\/ s.kind = "SUPERSEDES" /\ s.before = r
                                  \/ s.kind = "WITHDRAWS" /\ s.revision = r }
TrueRevision == CHOOSE r \in TrueRevisions(now) : TRUE

\* The worst that prices within the allowances can cost a unit, and what the
\* charges cost q of them.
WorstMove ==
  LET t      == request.terms
      quoted == IF request.direction = "LONG" THEN request.quote.ask ELSE request.quote.bid
      Move(x, y) == IF request.direction = "LONG" THEN x - y ELSE y - x
  IN  Max({ Move(x, y) : x \in quoted - t.entryAllowance .. quoted + t.entryAllowance,
                         y \in request.stop - t.stopAllowance .. request.stop + t.stopAllowance })
TrueCharges(q) ==
  FoldLeft(LAMBDA sum, c : sum + Max({c.minimum, c.fixed + c.perUnit * q}), 0, request.terms.charges)
TrueLoss(q) == WorstMove * q * world.revisions[TrueRevision].coefficient + TrueCharges(q)

Holding(p, t) == (p.from = None \/ p.from <= t) /\ (p.until = None \/ t < p.until)

\* The package in force at t: the one that is approved, of the one assignment.
TruePackages(t) ==
  LET m == Newest("regime", now)
      active == { s \in m.assignments : Holding(s.enrollment, t) /\ Holding(s.phase, t) }
      bound == { m.packages[b.package] : b \in { b \in UNION { s.packages : s \in active } :
                   Holding(b.period, t) /\ Holding(m.packages[b.package].period, t) } }
      decisions == { a.decision : a \in { a \in m.approvals : Holding(a.period, t)
                                            /\ \E s \in active : s.id = a.assignment
                                            /\ \E p \in bound : p.id = a.package } }
  IN  IF Cardinality(active) = 1 /\ Cardinality(bound) = 1 /\ decisions = {"APPROVED"}
        THEN bound ELSE {}
TrueRules(t) == UNION { p.rules : p \in TruePackages(t) }

\* Limits of the position while it is open.
TrueLimit(r) ==
  r.type \in {"POSITION_QUANTITY", "POSITION_COUNT"} /\ ~(r.effects \subseteq {"EXIT", "PHASE_TRANSITION", "PAYOUT"})
  /\ (r.instruments = None \/ request.instrument \in r.instruments)
WithinLimit(r, q) == IF r.type = "POSITION_QUANTITY" THEN q <= r.maximum ELSE r.maximum >= 1

TrueQuantities ==
  { q \in 1 .. Top :
      /\ Cardinality(TrueRevisions(now)) = 1
      /\ TrueTerms("grid") # {} /\ \A r \in TrueTerms("grid") : InForceNow(r) /\ OnGrid(r.body, q)
      /\ TrueTerms("effect") # {}
      /\ \A r \in TrueTerms("effect") :
           InForceNow(r) /\ r.body.mechanics = "SUPPORTED" /\ q \in r.body.range.min .. r.body.range.max
      /\ Newest("account", now).positions = {} /\ Items("commitment", now) = {}
      /\ q <= request.terms.maximumQuantity
      /\ 100 * TrueLoss(q) <= Newest("account", now).equity
      /\ \A r \in { r \in TrueRules(now) : TrueLimit(r) } : WithinLimit(r, q) }

-----------------------------------------------------------------------------
(* Whether to enter at all.                                                *)

\* Trades stopped out on the day, by some records; by those of an instant.
StopOuts(trades) ==
  { r \in trades : /\ \A s \in trades : s.pred # PredRecord(r.id)
                   /\ r.mechanism = "INITIAL_PROTECTIVE_STOP" /\ r.amount < 0
                   /\ world.day.start <= r.close /\ r.close < world.day.end }
TrueStopOuts(t) == StopOuts(Trades(t))

TruePlan ==
  LET d == { i \in DOMAIN Decisions(now) : Decisions(now)[i].from <= now }
      row == Decisions(now)[Max(d)]
  IN  d # {} /\ row.decision = "APPROVED" /\ Within(row.from, row.until, now) /\ TrueRevisions(now) = {row.revision}

\* The order can be placed, filled and stopped out at prices that are prices.
TrueAction == IF request.direction = "LONG" THEN "ENTRY_LONG" ELSE "ENTRY_SHORT"
OrderStands ==
  LET t      == request.terms
      q      == request.quote
      long   == request.direction = "LONG"
      margin == IF long THEN q.bid - request.stop ELSE request.stop - q.ask
  IN  /\ request.candidate \notin {"INVALIDATED", "EXPIRED"} /\ t.costs # "INCOMPLETE"
      /\ 0 < q.bid /\ q.bid <= q.ask /\ q.bidTime = q.askTime
      /\ t.trigger \in {"UNKNOWN", IF long THEN "BID_AT_MOST" ELSE "ASK_AT_LEAST"}
      /\ (request.stop - t.tickOrigin) % t.tick = 0
      /\ margin > 0 /\ margin >= t.minimumClearance
      /\ IF long THEN t.stopAllowance < request.stop ELSE t.entryAllowance < q.bid

\* What is stated of a rule; the rule, if it is one about this entry, is broken by it.
Facts(r, role) == { o.body : o \in { o \in world.operands : o.rule = r.id /\ o.role = role /\ Within(o.from, o.until, now) } }
Stake(r) ==
  IF r.threshold.fraction = None THEN r.threshold.amount ELSE (world.reference * r.threshold.fraction) \div 100
Level(r, t) ==
  IF r.threshold.fraction = None THEN Stake(r) + Raised(r, Items("notice", now), t) ELSE Stake(r)
Bears(r) ==
  r.effects \cap {"ENTRY", "ACCOUNT_ELIGIBILITY"} # {} /\ (r.instruments = None \/ request.instrument \in r.instruments)
Undercuts(r, amount, floor) == IF r.strict THEN amount <= floor ELSE amount < floor
Broken(r, account) ==
  LET held   == { p \in account.positions : r.instruments # None => p \in r.instruments }
      amount == IF r.measure = "BALANCE" THEN account.balance ELSE account.equity
      costs  == IF r.separateCosts THEN Facts(r, "COST_ADJUSTMENTS") ELSE {0}
  IN  \/ r.type = "PERMISSION" /\ r.permission = "PROHIBITED" /\ r.actions \cap {TrueAction, request.mode} # {}
      \/ r.type = "ACTION_WINDOW" /\ TrueAction \in r.actions
         /\ r.within # (\E w \in r.windows : Within(w.from, w.until, now))
      \/ r.type = "ACCOUNT_STATE" /\ \E f \in r.facts : FALSE \in Facts(r, f)
      \/ r.type = "POSITION_COUNT" /\ \E c \in Facts(r, "POSITION_COUNT_CONTEXT") :
           LET count == Cardinality(held) + c.committed
           IN  count > r.maximum \/ (c.effect = "NEW_SEPARATE_POSITION" /\ count + 1 > r.maximum)
      \/ r.type = "STATIC_FLOOR" /\ \E c \in costs : Undercuts(r, amount - c, Level(r, now))
      \/ r.type = "DAILY_RESET_FLOOR" /\ \E c \in costs : \E a \in Facts(r, "RESET_ANCHOR") :
           Undercuts(r, amount - c, a.amount - Stake(r))

MayEnter(t) ==
  /\ OrderStands
  /\ TruePackages(now) # {}
  /\ \A r \in TrueRules(now) : Bears(r) => ~Broken(r, Newest("account", t))
  /\ Cardinality(TrueStopOuts(t)) < 2
  /\ Newest("account", t).equity > 0
  /\ TruePlan /\ now < world.admission.mandate
  /\ TrueRevisions(now) = {request.quote.revision} /\ world.revisions[TrueRevision].payoff = "COMPLETE"
  /\ world.same = Claims

-----------------------------------------------------------------------------
(* The floors under the settled balance.                                   *)

\* Notices published by now raise a floor under the settled balance for a time; a
\* waiver lifts it.
Lifted(r, t) == \E x \in world.entries : x.kind = "WAIVER" /\ r.id \in x.rules /\ x.from <= t /\ t < x.until
UnderBalance(r) ==
  /\ r.type = "STATIC_FLOOR" /\ r.measure = "BALANCE"
  /\ r.instruments = None \/ request.instrument \in r.instruments

Survives(q) ==
  \A t \in now .. now + 1 : \A r \in TrueRules(t) :
    LET left == Newest("account", now).balance - TrueLoss(q) - Level(r, t)
    IN  UnderBalance(r) /\ ~Lifted(r, t) => IF r.strict THEN left > 0 ELSE left >= 0

-----------------------------------------------------------------------------
(* The loss limits as of u, by what was known at t.                        *)

TrueHigh(u, t) ==
  Max({ world.initial } \cup
      { world.initial + Total({ y \in Deltas(t) : y.at < x.at \/ (y.at = x.at /\ y.id <= x.id) })
        : x \in { x \in Deltas(t) : x.at <= u } })
TrueThreshold(u, t) == TrueHigh(u, t) - world.initial \div 10
TrueEquity(u, t) == Balance(u, t) + world.floating - world.owed
OnlyCloses(u, t) ==
  /\ \A x \in Deltas(t) : x.at <= u => x.kind = "CLOSE"
  /\ \A x \in Items("correction", t) : x.at > u

\* From the account's inception on, one assignment and one package governed it:
\* those the threshold is computed for.
Ruling(m, t) ==
  UNION { { <<s, b.package>> : b \in { b \in s.packages :
                                        Holding(b.period, t) /\ Holding(m.packages[b.package].period, t) } }
          : s \in { s \in m.assignments : Holding(s.enrollment, t) /\ Holding(s.phase, t) } }
Continuous(u, t) ==
  LET m == Newest("regime", t)
  IN  \A v \in world.inception .. u :
        /\ Cardinality(Ruling(m, v)) = 1 /\ Ruling(m, v) = Ruling(m, u)
        /\ \A g \in Ruling(m, v) : g[1].id = world.trailing.assignment /\ g[2] = world.trailing.package

\* The day's balance: before what closes at the reset or after it.
TrueReset(m, t) ==
  IF world.reset.first
    THEN world.initial + Total({ x \in Deltas(t) : x.at < m }) + Total({ x \in Items("correction", t) : x.at <= m })
    ELSE Balance(m, t)

-----------------------------------------------------------------------------
(* The properties.                                                         *)

Domain(answer) == Members(answer, Top)

\* c answers the quantities exactly, when the account may enter; h, those that
\* leave the floors intact.
AnswerIsTrue(c, h) ==
  /\ c.outcome = "ESTABLISHED" => MayEnter(now) /\ Domain(c.domain) = TrueQuantities
  /\ h.outcome = "ESTABLISHED" => Domain(h.value) = { q \in TrueQuantities : Survives(q) }
DeskAnswersTruly(e, c) == AnswerIsTrue(c, HeadroomOf(e, ProjectionOf(e, c)))

\* Quantities are answered only when the account may enter at this boundary, and
\* are then exactly the true ones: of a grid, an interval, limits and a budget
\* that are in force now, and not only in the captures.
EstablishedIsTrue ==
  world.asked = "entry" => DeskAnswersTruly(Evidence, Composition(Evidence))

\* What refuses although more could be told: two definite stop-outs of records
\* that lack the correction of one; and a rule about another instrument that is
\* broken, where its operand names that one.
Uncorrected ==
  /\ Blurred("trades") /\ Cardinality(StopOuts(world.trades)) >= 2
  /\ \E r \in StopOuts(world.trades) : \E s \in Trades(now) : s.pred = PredRecord(r.id)
Misapplied ==
  \E r \in TrueRules(now) :
    /\ r.effects \cap {"ENTRY", "ACCOUNT_ELIGIBILITY"} # {} /\ Broken(r, Newest("account", now))
    /\ r.instruments # None /\ request.instrument \notin r.instruments
    /\ Facts(r, "INSTRUMENT_BINDING") \cap r.instruments # {}

\* (The trades and the equity are those of the capture, as the policy allows.)
RefusalHolds(c, h) ==
  /\ c.outcome = "NOT_SUITABLE" =>
       \/ TrueQuantities = {} \/ \E s \in Packets : taken[s] # None /\ ~MayEnter(taken[s])
       \/ Uncorrected \/ Misapplied
  /\ h.outcome = "NOT_SUITABLE" => \A q \in TrueQuantities : ~Survives(q)
DeskRefusesTruly(e, c) == RefusalHolds(c, HeadroomOf(e, ProjectionOf(e, c)))

\* A refusal is a fact: either nobody may enter, or no quantity is left; but for
\* the two grounds that count although more could be told.
RefusalIsTrue ==
  world.asked = "entry" => DeskRefusesTruly(Evidence, Composition(Evidence))

\* s, r and f: the threshold, the relation and the daily floor as of u, answered
\* out of a capture at t for the day reset at m.
FloorIsTrue(u, t, m, s, r, f) ==
  LET threshold == TrueThreshold(u, t)
      actual    == TrueEquity(u, t)
  IN  /\ s.outcome = "ESTABLISHED" =>
           /\ Continuous(u, t) /\ OnlyCloses(u, t)
           /\ s.value.balance = Balance(u, t) /\ s.value.threshold = threshold
      /\ r.outcome = "ESTABLISHED" =>
           /\ r.value = "ABOVE" <=> actual > threshold
           /\ r.value = "EQUAL" <=> actual = threshold
      /\ m <= u /\ f.outcome = "ESTABLISHED" => f.value = TrueReset(m, t) - (world.initial * 3) \div 100
FloorsAreTrueFor(e, t, m) ==
  \A u \in 0 .. t : FloorIsTrue(u, t, m, ThresholdState(e, u), EquityRelation(e, u), DailyFloor(e, m, u))

\* A threshold, a relation or a floor that is answered is that of the account's
\* history, as far as it was known at the capture.
FloorsAreTrue ==
  world.asked = "loss" /\ taken["history"] # None =>
    FloorsAreTrueFor(Evidence, taken["history"], world.reset.start)

\* What the resolver selects for any time out of what was captured.
SelectsTruly(report, t) ==
  LET answer == Applicable(report, t, now)
  IN  /\ answer.outcome = "UNIQUE" => TrueRevisions(t) = {answer.selected}
      /\ answer.outcome = "NONE" => TrueRevisions(t) = {}

\* A revision that is selected for a time, past, present or coming, is the one
\* revision that what was published by now leaves applicable then; and where none
\* is said to apply, none does.
SelectionIsTrue ==
  world.asked = "entry" /\ taken["financial"] # None =>
    LET report == Lifecycle(taken["financial"])
    IN  LifecycleAdmissible(report, now) => \A t \in -1 .. LastInstant + 1 : SelectsTruly(report, t)

=============================================================================
