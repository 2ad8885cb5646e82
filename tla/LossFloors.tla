----------------------------- MODULE LossFloors -----------------------------
(***************************************************************************)
(* Two loss limits that follow from the account's own history, as of an    *)
(* instant t and by evidence of the boundary e.at:                         *)
(*   ThresholdState  trailing: a tenth of the initial capital below the    *)
(*                   highest balance since inception;                      *)
(*   EquityRelation  where the equity at t stands to that threshold;       *)
(*   DailyFloor      three hundredths of the initial capital below the     *)
(*                   balance at the day's reset.                           *)
(* The packet "history" holds, for each t, what was captured as of t:      *)
(*   state[t]   inception, initial capital, rule, coverage, events in      *)
(*              order, account and regime;                                 *)
(*   equity[t]  a statement of the equity;                                 *)
(*   day[<<m, t>>]  regime, calendar and coverage of the day reset at m.       *)
(***************************************************************************)
EXTENDS AccountRules

History(e) == e.packet["history"]

\* Periods that cannot all hold at one instant of start .. beyond - 1.
Apart(periods, start, beyond) ==
  \/ \E p \in periods : p.until # None /\ p.until <= start
  \/ \E p \in periods : p.from # None /\ p.from >= beyond
  \/ \E p, q \in periods : p.from # None /\ q.until # None /\ p.from >= q.until

\* The regime r of the manifest m is the only one that can have applied, and did
\* apply, at every instant of start .. beyond - 1.
RegimeSpans(m, r, start, beyond) ==
  LET s     == r.assignment
      bound == { b.period : b \in { b \in s.packages : b.package = r.package.id } }
      near  == { p \in bound : ~Apart({p}, start, beyond) }
  IN  /\ \A p \in {m.period, s.enrollment, s.phase, r.package.period} :
           p.from # None /\ p.from <= start /\ p.until # None /\ p.until >= beyond
      /\ \A a \in m.assignments \ {s} : Apart({a.enrollment, a.phase}, start, beyond)
      /\ \A b \in s.packages :
           b.package # r.package.id => Apart({b.period, m.packages[b.package].period}, start, beyond)
      /\ \A p \in near : p.from # None /\ p.until # None
      /\ Covers(near, start, beyond)

-----------------------------------------------------------------------------
(* The trailing threshold.                                                 *)

\* What of a history raises: instants outside it, amounts that do not add up,
\* activity that its own coverage declares to be absent.
HistoryAdmissible(e, t) ==
  LET h == History(e).state[t]
      c == h.coverage
  IN  /\ h.inception # None => h.inception <= t
      /\ h.initial # None => h.initial > 0
      /\ c # None => /\ c.from <= c.through /\ c.through <= History(e).taken
                     /\ c.cutoff # None => c.cutoff <= History(e).taken
      /\ \A i \in DOMAIN h.events :
           LET x == h.events[i]
           IN  /\ x.at <= t /\ (h.inception # None => h.inception < x.at)
               /\ IF x.kind = "CLOSE" THEN x.after = x.before + x.delta
                                      ELSE c # None => x.kind \in c.notAbsent
               /\ \A j \in DOMAIN h.events \ {i} : x.id # h.events[j].id
      /\ \A n \in h.revisions : n.at <= t
      /\ h.regime # None => RegimeAdmissible(h.regime, e.at)
      /\ h.rule # None /\ h.regime # None =>
           \E r \in h.regime.packages[h.rule.package].rules : r.id = h.rule.id

RegimeThen(e, t) == RegimeAsOf(History(e).state[t].regime, t, History(e).taken)

\* The regime's rule about the threshold is one the rule reports cannot express,
\* so the history interprets it; it is the same rule, since inception.
RuleFits(h, r, t) ==
  /\ h.rule.understood
  /\ h.rule.assignment = r.assignment.id /\ h.rule.package = r.package.id
  /\ \E x \in r.package.rules : x.id = h.rule.id /\ ~x.supported /\ x.instruments = None
  /\ h.rule.from <= h.inception /\ h.rule.until > t

\* All activity since inception, up to t, known by a cutoff between t and e.at.
HistoryCovered(e, h, t) ==
  LET c == h.coverage
  IN  /\ h.topicsComplete
      /\ c.from = h.inception /\ c.through = t
      /\ c.cutoff # None /\ t <= c.cutoff /\ c.cutoff <= e.at
      /\ c.complete /\ c.expected = Len(h.events)
      /\ h.revisions = {} /\ ~h.revised
      /\ c.notAbsent = {}

\* (A variant that takes the order of the records on trust.)
OrderAssumed(h) == \A i \in 2 .. Len(h.events) : h.events[i - 1].at <= h.events[i].at
InOrder(h) ==
  /\ h.coverage.ordered
  /\ \A i \in DOMAIN h.events : h.events[i].sequence = i
  /\ \A i \in 2 .. Len(h.events) : h.events[i - 1].at <= h.events[i].at

\* Each close starts from the balance the one before it left, and the last one
\* leaves the balance of the account.
Reconciled(h) ==
  /\ \A i \in DOMAIN h.events :
       h.events[i].before = (IF i = 1 THEN h.initial ELSE h.events[i - 1].after)
  /\ h.account.balance = (IF h.events = <<>> THEN h.initial ELSE Last(h.events).after)

ThresholdUnknown(e, t, h, r) ==
  \/ \E f \in {"account", "regime", "inception", "initial", "rule", "coverage"} : h[f] = None
  \/ r.outcome # "UNIQUE"
  \/ ~RuleFits(h, r, t)
  \/ ~RegimeSpans(h.regime, r, h.inception, t + 1)
  \/ h.account.balance = None \/ h.account.effective # t
  \/ ~HistoryCovered(e, h, t)
  \/ \E i \in DOMAIN h.events : h.events[i].kind # "CLOSE"
  \/ ~InOrder(h)
  \/ h.undated \/ ~h.cited
  \/ ~AdmissionCurrent(e) \/ ~(\A x \in {"rule", "history", "balance", "revisions"} : Admitted(e, x))
  \/ ~Reconciled(h)

Highest(h) == Max({h.initial} \cup { h.events[i].after : i \in DOMAIN h.events })

ThresholdState(e, t) ==
  IF ~AdmissionFits(e, "history") THEN Invalid
  ELSE IF History(e) = None THEN Unknown
  ELSE IF ~HistoryAdmissible(e, t) THEN Invalid
  ELSE IF ThresholdUnknown(e, t, History(e).state[t], RegimeThen(e, t)) THEN Unknown
  ELSE LET h == History(e).state[t]
       IN  Established([inception |-> h.inception, initial |-> h.initial, balance |-> h.account.balance,
                        high |-> Highest(h), threshold |-> Highest(h) - h.initial \div 10])

-----------------------------------------------------------------------------
(* The equity against it.                                                  *)

Parts == {"balance", "floating_pnl", "commissions", "financing", "other_charges"}

EquityAdmissible(e, t) ==
  LET q == History(e).equity[t]
      h == History(e).state[t]
  IN  q # None =>
        /\ q.amount # None /\ h.account # None => h.account.equity \in {None, q.amount}
        /\ q.cutoff # None => t <= q.cutoff /\ q.cutoff <= e.at /\ q.cutoff <= q.reported

\* Every part of the equity is in it exactly once; the first two cannot be
\* inapplicable.
EveryPartOnce(q) ==
  /\ \A p \in Parts :
       \/ q.parts[p] = "INCLUDED_ONCE"
       \/ q.parts[p] = "NOT_APPLICABLE" /\ p \notin {"balance", "floating_pnl"}
  /\ q.integrity = "COMPLETE_EXACTLY_ONCE"

EquityUnknown(e, t, s) ==
  LET q == History(e).equity[t]
      a == History(e).state[t].account
  IN  \/ s.outcome # "ESTABLISHED"
      \/ a.equity = None
      \/ q = None
      \/ q.amount = None \/ ~q.originals
      \/ q.cutoff = None \/ q.published > q.cutoff
      \/ q.revisions # "NONE"
      \/ Holds(q.definition, t) = "NO" \/ q.definition.from = None \/ q.definition.until = None
      \/ ~q.accountWide
      \/ ~EveryPartOnce(q)
      \/ ~Admitted(e, "equity")

EquityRelationOf(e, t, s) ==
  IF s = Invalid THEN Invalid
  ELSE IF History(e) = None THEN Unknown
  ELSE IF ~EquityAdmissible(e, t) THEN Invalid
  ELSE IF EquityUnknown(e, t, s) THEN Unknown
  ELSE LET difference == History(e).state[t].account.equity - s.value.threshold
       IN  Established(IF difference > 0 THEN "ABOVE" ELSE IF difference < 0 THEN "BELOW" ELSE "EQUAL")

EquityRelation(e, t) == EquityRelationOf(e, t, ThresholdState(e, t))

-----------------------------------------------------------------------------
(* The daily floor.                                                        *)

\* A statement that nothing closed at the reset may not be contradicted.
DayAdmissible(e, m, t) ==
  LET d == History(e).day[<<m, t>>]
  IN  /\ m <= t /\ t <= d.cutoff /\ d.cutoff <= e.at
      /\ d.meaning = "NO_C8_EVENTS_AT_M" =>
           \A i \in DOMAIN History(e).state[m].events : History(e).state[m].events[i].at # m
      /\ d.regime # None => RegimeAdmissible(d.regime, e.at)
      /\ d.calendar # None => d.calendar.start = m /\ t < d.calendar.end

RegimeOfDay(e, m, t) == RegimeAsOf(History(e).day[<<m, t>>].regime, t, History(e).day[<<m, t>>].cutoff)
RuleOfDay(r, id) ==
  LET found == { x \in r.package.rules : x.id = id }
  IN  IF found = {} THEN None ELSE CHOOSE x \in found : TRUE

\* Three hundredths of the initial balance below the balance at the reset, for
\* the equity with all its charges; and the rule's day is the calendar's.
IsTheModel(x, calendar) ==
  /\ x.supported /\ x.instruments = None /\ x.type = "DAILY_RESET_FLOOR"
  /\ x.measure = "EQUITY" /\ x.threshold.fraction = 3
  /\ ~x.separateCosts /\ ~x.strict
  /\ x.days = { [from |-> calendar.start, until |-> calendar.end] }

\* The regime of the reset is the regime of the day, approved all through.
SessionSpans(e, m, d, r) ==
  LET near == { a \in Approvals(d.regime, r.assignment, r.package.id) :
                  ~Apart({a.period}, d.calendar.start, d.calendar.end) }
  IN  /\ RegimeThen(e, m).package = r.package
      /\ RegimeSpans(d.regime, r, d.calendar.start, d.calendar.end)
      /\ \A a \in near : a.decision = "APPROVED" /\ a.period.from # None /\ a.period.until # None
      /\ Covers({ a.period : a \in near }, d.calendar.start, d.calendar.end)

DayCovered(e, m, t, s, d) ==
  /\ d.sources /\ d.complete
  /\ d.from = s.value.inception /\ d.through = t
  /\ d.revisions = "NONE" /\ d.notAbsent = {}
  /\ History(e).state[m].coverage.cutoff <= d.cutoff
  /\ d.published <= d.cutoff /\ d.cutoff <= d.reported

\* s: the threshold state of the reset; d: what was captured of the day; r: its
\* regime; x: its rule.
DayUnknown(e, m, t, s, d, r, x) ==
  \/ s.outcome # "ESTABLISHED" \/ s.value.inception = m
  \/ d.regime = None \/ r.outcome # "UNIQUE"
  \/ d.rule = None \/ x = None
  \/ d.calendar = None \/ ~d.calendar.unambiguous
  \/ ~IsTheModel(x, d.calendar)
  \/ ~r.package.complete
  \/ ~SessionSpans(e, m, d, r)
  \/ d.meaning \notin {"AFTER_ALL_C8_EVENTS_AT_M", "NO_C8_EVENTS_AT_M"}
  \/ ~DayCovered(e, m, t, s, d)
  \/ ~Admitted(e, "day")

DailyFloorOf(e, m, t, s, r) ==
  IF s = Invalid THEN Invalid
  ELSE IF History(e) = None THEN Unknown
  ELSE IF ~DayAdmissible(e, m, t) THEN Invalid
  ELSE IF DayUnknown(e, m, t, s, History(e).day[<<m, t>>], r, RuleOfDay(r, History(e).day[<<m, t>>].rule)) THEN Unknown
  ELSE Established(s.value.balance - (s.value.initial * 3) \div 100)

DailyFloor(e, m, t) == DailyFloorOf(e, m, t, ThresholdState(e, m), RegimeOfDay(e, m, t))

=============================================================================
