----------------------------- MODULE MCEntryDesk -----------------------------
(* Two boundaries; prices around twenty, a budget of twenty.  A loss of six  *)
(* per unit leaves three units by the budget, three by the limit of the lot, *)
(* four by the position interval and two above the provider's floor.         *)
EXTENDS EntryTruth

CONSTANTS Gold, Silver, Given, A, B, C

Since(t) == [from |-> t, until |-> Always]
During(a, b) == [from |-> a, until |-> b]

\* Rules.
Rule(id, type, effects, instruments) ==
  [id |-> id, type |-> type, effects |-> effects, instruments |-> instruments, foreign |-> FALSE, supported |-> TRUE]
Lot == Rule("lot", "POSITION_QUANTITY", {"ENTRY"}, {Gold}) @@ [maximum |-> 3]
Floor == Rule("floor", "STATIC_FLOOR", {"ACCOUNT_ELIGIBILITY"}, None)
         @@ [measure |-> "BALANCE", threshold |-> [fraction |-> None, amount |-> 1987],
             separateCosts |-> FALSE, strict |-> FALSE]
Trail == [Rule("trail", "OTHER", {"ACCOUNT_ELIGIBILITY"}, None) EXCEPT !.supported = FALSE]
Daily == Rule("daily", "DAILY_RESET_FLOOR", {"ACCOUNT_ELIGIBILITY"}, None)
         @@ [measure |-> "EQUITY", threshold |-> [fraction |-> 3, amount |-> None],
             separateCosts |-> FALSE, strict |-> FALSE, days |-> {During(0, 2)}]

Package(id, rules) == [id |-> id, period |-> Since(-5), complete |-> TRUE, rules |-> rules]
Assignment(id, package) ==
  [id |-> id, enrollment |-> Since(-5), phase |-> Since(-5), identified |-> TRUE,
   packages |-> {[package |-> package, period |-> Since(-5)]}]
Approval(package, decision, period) ==
  [assignment |-> 1, package |-> package, decision |-> decision, period |-> period]
Regulated(rules) ==
  [period |-> Since(-5), assignments |-> {Assignment(1, "P")}, packages |-> [p \in {"P"} |-> Package("P", rules)],
   approvals |-> {Approval("P", "APPROVED", Since(-5))}]

Operand(rule, role, body) ==
  [rule |-> rule, role |-> role, from |-> 0, until |-> Always, published |-> 0, body |-> body]

\* What the provider says of a rule: of the limits, of the floors.
SayingLimit(rule, limits) ==
  [rule |-> rule, population |-> "CONTAINS", denomination |-> "IDENTICAL", projected |-> limits,
   mandatory |-> limits, exceptions |-> "COMPLETE", resolved |-> limits]
SayingFloor(rule, t, endpoint) ==
  [rule |-> rule, sources |-> {<<rule>>}, horizon |-> [invariant |-> TRUE, complete |-> TRUE, cutoff |-> t],
   population |-> "CONTAINS_SCENARIO", endpoint |-> endpoint, force |-> "MANDATORY_UNCHANGED",
   exceptions |-> [complete |-> TRUE, cutoff |-> t, resolution |-> "NONE_APPLICABLE",
                   authorized |-> FALSE, entries |-> {}],
   measure |-> "IDENTICAL", threshold |-> "NATIVE_COMPATIBLE"]
Entry(id, kind, period, rules, delta) ==
  [id |-> id, report |-> IF kind = "RULE" THEN "rules" ELSE "notices", kind |-> kind, from |-> period.from,
   until |-> period.until, rules |-> rules, related |-> {}, delta |-> delta,
   disposition |-> IF kind = "RULE" THEN "MAPPED_NATIVE_RULE" ELSE "SUPPORTING_RULE_EVIDENCE"]

ProjectionBody(t) ==
  [baseline |-> [stateAt |-> t, cutoff |-> t, direct |-> TRUE], price |-> "ONCE", charges |-> <<"ONCE">>,
   costs |-> "COMPLETE", scenario |-> [cutoff |-> t, until |-> t + 2, supported |-> TRUE],
   sources |-> [complete |-> TRUE, stateAt |-> t, cutoff |-> t, until |-> t + 2, roster |-> {"provider", "self"},
                reports |-> { [member |-> x, complete |-> TRUE, stateAt |-> t, cutoff |-> t, until |-> t + 2,
                               status |-> "ABSENT"] : x \in {"provider", "self"} }]]
FloorsBody(t) ==
  [cutoff |-> t, until |-> t + 2, subjects |-> TRUE, stateAt |-> t,
   expected |-> {"rules", "notices"},
   reports |-> { [key |-> x, complete |-> TRUE, stateAt |-> t, cutoff |-> t, from |-> t, until |-> t + 2]
                 : x \in {"rules", "notices"} },
   bindings |-> {SayingFloor("floor", t, "EXPLICIT_SETTLED_ENDPOINT"), SayingFloor("lot", t, "OUTSIDE_SETTLED_ENDPOINT")}]

\* Declarations.
Terms(origin, step, min, max) ==
  [origin |-> origin, step |-> step, min |-> min, max |-> [kind |-> "FINITE", value |-> max]]
Effect(min, max) == [range |-> [min |-> min, max |-> max], mechanics |-> "SUPPORTED"]
Root(body) ==
  [id |-> 1, kind |-> "DECLARE", pred |-> NoPred, from |-> 0, until |-> Always, published |-> 0, body |-> body]
Streams0 == [s \in Streams |-> { Root(CASE s = "grid" -> Terms(1, 1, 1, 6) [] s = "effect" -> Effect(1, 4)
                                         [] OTHER -> None) }]

\* Assertions of the revisions of a specification.
Applies(r, period) == [kind |-> "APPLIES", revision |-> r] @@ period
Withdraws(r, period) == [kind |-> "WITHDRAWS", revision |-> r] @@ period
Supersedes(r, s, period) == [kind |-> "SUPERSEDES", before |-> r, after |-> s] @@ period
Corrects(n, by) == [kind |-> "CORRECTS", target |-> n, by |-> by]

\* Publications that may come later.
Pub(topic, earliest, item) == [topic |-> topic, earliest |-> earliest, item |-> item]
Replace(kind, from, body) ==
  [id |-> 2, kind |-> kind, pred |-> PredRecord(1), from |-> from, until |-> Always, body |-> body]
Trade(id, close, mechanism, amount) ==
  [id |-> id, trade |-> id, pred |-> NoPred, completed |-> TRUE, close |-> close, structure |-> "SUPPORTED",
   mechanism |-> mechanism, net |-> "FINAL_COMPLETE", amount |-> amount]
Stopped(id, close) == Trade(id, close, "INITIAL_PROTECTIVE_STOP", -1)
Closing(id, at, delta) == [id |-> id, kind |-> "CLOSE", at |-> at, delta |-> delta]

\* The circumstances every other one is a variation of.
Plain ==
  [asked |-> "entry",
   request |-> [direction |-> "LONG", mode |-> "MANUAL", instrument |-> Gold, measure |-> "BALANCE",
                scoped |-> TRUE, literals |-> [c \in Claims |-> {Given}], stop |-> 17,
                quote |-> [bid |-> 19, ask |-> 20, bidTime |-> 0, askTime |-> 0, revision |-> A], candidate |-> "VALID",
                terms |-> [entryAllowance |-> 1, stopAllowance |-> 1, tick |-> 1, tickOrigin |-> 0,
                           trigger |-> "BID_AT_MOST", minimumClearance |-> 1, costs |-> "COMPLETE",
                           maximumAge |-> 1, maximumQuantity |-> 5,
                           charges |-> <<[minimum |-> 1, fixed |-> 0, perUnit |-> 1, scheduled |-> TRUE]>>]],
   declared |-> Streams0, projection |-> [t \in 0 .. 1 |-> ProjectionBody(t)], floors |-> [t \in 0 .. 1 |-> FloorsBody(t)],
   entries |-> {Entry(<<"floor">>, "RULE", Since(-5), {"floor"}, 0), Entry(<<"lot">>, "RULE", Since(-5), {"lot"}, 0)},
   plan |-> <<[decision |-> "APPROVED", decided |-> 0, from |-> 0, until |-> Always, revision |-> A]>>,
   assertions |-> {[id |-> 1, published |-> 0, says |-> Applies(A, Since(-5))]},
   revisions |-> [r \in {A, B, C} |-> [coefficient |-> IF r = A THEN 1 ELSE 2, effective |-> -5, payoff |-> "COMPLETE"]],
   surplus |-> {},
   account |-> [balance |-> 2000, equity |-> 2000, positions |-> {}],
   trades |-> {}, day |-> [start |-> 0, end |-> 5],
   policy |-> [from |-> 0, until |-> Always, maximumAge |-> 1],
   compatible |-> [asserted |-> TRUE, measured |-> TRUE, sameCurrency |-> TRUE],
   regime |-> Regulated({Lot, Floor}),
   operands |-> {Operand("lot", "INSTRUMENT_BINDING", Gold), Operand("floor", "MEASURE_BINDING", Given)},
   bound |-> Always, same |-> Claims, roster |-> {"provider", "self"},
   limits |-> {SayingLimit("lot", TRUE), SayingLimit("floor", FALSE)},
   admission |-> [from |-> 0, until |-> Always, mandate |-> Always, unresolved |-> {}],
   inception |-> -2, initial |-> 100, closes |-> {Closing(1, -1, 12)},
   trailing |-> [assignment |-> 1, package |-> "P", id |-> "trail", from |-> -5, until |-> Always, understood |-> TRUE],
   daily |-> "daily", reset |-> [start |-> 0, end |-> 2, first |-> FALSE, unambiguous |-> TRUE],
   floating |-> 0, owed |-> 0, reference |-> 2000, definition |-> Since(-5),
   menu |-> {}, blur |-> {}]


\* A rule more: the provider says of it that it is no limit of the position and
\* is judged outside the settled endpoint.
WithRule(w, rule, operands) ==
  [w EXCEPT !.regime = Regulated(w.regime.packages["P"].rules \cup {rule}),
            !.operands = @ \cup operands,
            !.limits = @ \cup {SayingLimit(rule.id, rule.type = "POSITION_COUNT")},
            !.entries = @ \cup {Entry(<<rule.id>>, "RULE", Since(-5), {rule.id}, 0)},
            !.floors = [t \in 0 .. 1 |-> [@[t] EXCEPT !.bindings =
                                            @ \cup {SayingFloor(rule.id, t, "OUTSIDE_SETTLED_ENDPOINT")}]]]
WithFloor(threshold, strict) ==
  [Plain EXCEPT !.regime = Regulated({Lot, [Floor EXCEPT !.threshold = threshold, !.strict = strict]})]
Amounting(n) == [fraction |-> None, amount |-> n]

Grids ==
  { Terms(1, 2, 2, 6), Terms(7, 5, 1, 6), Terms(0, 4, 5, 7), Terms(0, 2, 1, 5),
    [Terms(0, 1, 1, 0) EXCEPT !.max = [kind |-> "UNBOUNDED", value |-> None]] }
Quantities ==
  { [Plain EXCEPT !.declared["grid"] = {Root(g)}] : g \in Grids } \cup
  { [Plain EXCEPT !.declared["effect"] = {Root(Effect(r[1], r[2]))}] : r \in {<<4, 6>>, <<3, 3>>, <<1, 2>>} } \cup
  { [Plain EXCEPT !.request.direction = "SHORT", !.request.stop = 22, !.request.terms.trigger = "ASK_AT_LEAST"],
    [Plain EXCEPT !.request.terms.maximumQuantity = 2],
    [Plain EXCEPT !.request.terms.charges = <<[minimum |-> 9, fixed |-> 0, perUnit |-> 1, scheduled |-> TRUE],
                                               [minimum |-> 0, fixed |-> 2, perUnit |-> 0, scheduled |-> TRUE]>>,
                  !.projection = [t \in 0 .. 1 |-> [@[t] EXCEPT !.charges = <<"ONCE", "ONCE">>]]],
    [Plain EXCEPT !.account.equity = 90], [Plain EXCEPT !.account.equity = 1200],
    [Plain EXCEPT !.account.equity = -5],
    [Plain EXCEPT !.regime = Regulated({[Lot EXCEPT !.maximum = 4], Floor})],
    [Plain EXCEPT !.regime = Regulated({[Lot EXCEPT !.instruments = {Silver}], Floor}),
                  !.limits = {[SayingLimit("lot", FALSE) EXCEPT !.population = "DISJOINT"], SayingLimit("floor", FALSE)},
                  !.floors = [t \in 0 .. 1 |-> [@[t] EXCEPT !.bindings =
                                { IF b.rule = "lot" THEN [b EXCEPT !.population = "DISJOINT"] ELSE b : b \in @ }]]] }

\* Orders and rules, kept or broken at both boundaries or at one of them.
Rules ==
  { [Plain EXCEPT !.request.candidate = "EXPIRED"],
    [Plain EXCEPT !.request.quote.bid = 21],
    [Plain EXCEPT !.request.stop = 19],
    [Plain EXCEPT !.request.terms.costs = "INCOMPLETE"],
    WithRule(Plain, Rule("ban", "PERMISSION", {"ENTRY"}, None)
                           @@ [actions |-> {"ENTRY_LONG"}, permission |-> "PROHIBITED"], {}),
    WithRule(Plain, Rule("hours", "ACTION_WINDOW", {"ENTRY"}, None)
                           @@ [actions |-> {"ENTRY_LONG"}, schedule |-> During(0, 5), windows |-> {During(0, 1)},
                               within |-> TRUE], {}),
    WithRule(Plain, Rule("active", "ACCOUNT_STATE", {"ENTRY"}, None) @@ [facts |-> {"ACTIVE"}],
                    {Operand("active", "ACTIVE", FALSE)}),
    WithRule(Plain, Rule("active", "ACCOUNT_STATE", {"ENTRY"}, None) @@ [facts |-> {"ACTIVE"}], {}),
    WithRule(Plain, Rule("one", "POSITION_COUNT", {"ENTRY"}, None) @@ [maximum |-> 1],
             {Operand("one", "POSITION_COUNT_CONTEXT",
                      [committed |-> 0, effect |-> "NEW_SEPARATE_POSITION", complete |-> TRUE])}),
    WithRule(Plain, Rule("one", "POSITION_COUNT", {"ENTRY"}, None) @@ [maximum |-> 1],
             {Operand("one", "POSITION_COUNT_CONTEXT",
                      [committed |-> 1, effect |-> "NEW_SEPARATE_POSITION", complete |-> TRUE])}) } \cup
  { WithRule(Plain, [Daily EXCEPT !.threshold = Amounting(50), !.strict = strict],
             {Operand("daily", "MEASURE_BINDING", Given),
              Operand("daily", "RESET_ANCHOR", [amount |-> 2050, reset |-> 0, adjusted |-> FALSE])}) : strict \in BOOLEAN }

\* Floors, waived or raised.
Waiver == [Entry(<<"waiver">>, "WAIVER", During(0, 2), {"floor"}, 0) EXCEPT !.related = {<<"floor">>}]
WaivedFloor(t) ==
  [SayingFloor("floor", t, "EXPLICIT_SETTLED_ENDPOINT") EXCEPT
     !.force = "NOT_MANDATORY", !.exceptions.resolution = "WAIVED_THROUGHOUT",
     !.exceptions.authorized = TRUE, !.exceptions.entries = {<<"waiver">>}]
SecondFloor == [Floor EXCEPT !.id = "second", !.threshold = Amounting(1990)]
WithSecond ==
  [WithRule(Plain, SecondFloor, {Operand("second", "MEASURE_BINDING", Given)}) EXCEPT
     !.floors = [t \in 0 .. 1 |-> [@[t] EXCEPT !.bindings =
                   { IF b.rule = "second" THEN [b EXCEPT !.endpoint = "EXPLICIT_SETTLED_ENDPOINT"] ELSE b : b \in @ }]]]
Floored ==
  { WithFloor(Amounting(1999), FALSE), WithFloor(Amounting(1988), FALSE), WithFloor(Amounting(1988), TRUE),
    [WithFloor([fraction |-> 99, amount |-> None], FALSE) EXCEPT
       !.operands = @ \cup {Operand("floor", "INITIAL_REFERENCE", 2000)}],
    WithSecond,
    [WithSecond EXCEPT
       !.entries = @ \cup {Waiver},
       !.floors = [t \in 0 .. 1 |-> [@[t] EXCEPT !.bindings =
                     { IF b.rule = "floor" THEN WaivedFloor(t) ELSE b : b \in @ }]]] }

\* An account whose one rule needs no operand.
Shorts == Rule("shorts", "PERMISSION", {"ENTRY"}, None) @@ [actions |-> {"ENTRY_SHORT"}, permission |-> "PROHIBITED"]
Bare == [WithRule([Plain EXCEPT !.regime = Regulated({})], Shorts, {}) EXCEPT !.operands = {}]

\* Publications between the captures, told in full or with something left out.
WithMenu(w, menu) == [w EXCEPT !.menu = menu]
Regulation(m) == Pub("regime", 0, m)
Second(from) == [Assignment(2, "P") EXCEPT !.phase = Since(from)]
PlanChange(from) == Pub("plan", 0, [decision |-> "REVOKED", from |-> from, until |-> Always, revision |-> A])
Notice(period, delta) == Pub("notice", 0, Entry(<<"notice">>, "CHANGE", period, {"floor"}, delta))
Correction == [Trade(3, 0, "TARGET", 2) EXCEPT !.trade = 1, !.pred = PredRecord(1)]
WithStop == [Plain EXCEPT !.trades = {Stopped(1, 0) @@ [published |-> 0]}]

\* Two losses, one of which is corrected, and the correction is left out; a rule
\* about another instrument, whose operand names that one.
Overcounted ==
  [WithMenu([WithStop EXCEPT !.trades = @ \cup {Stopped(2, 0) @@ [published |-> 0]}], {Pub("trade", 0, Correction)})
     EXCEPT !.blur = {"trades"}]
Elsewhere ==
  LET Disjoint(bindings) == { IF b.rule = "silver" THEN [b EXCEPT !.population = "DISJOINT"] ELSE b : b \in bindings }
  IN  [WithRule(Plain, Rule("silver", "PERMISSION", {"ENTRY"}, {Silver})
                         @@ [actions |-> {"ENTRY_LONG"}, permission |-> "PROHIBITED"],
                {Operand("silver", "INSTRUMENT_BINDING", Silver)}) EXCEPT
         !.limits = Disjoint(@),
         !.floors = [t \in 0 .. 1 |-> [@[t] EXCEPT !.bindings = Disjoint(@)]]]

Grids2 == { Pub("grid", 0, Replace("DECLARE", 1, Terms(0, 2, 1, 6))), Pub("grid", 0, Replace("WITHDRAW", 1, None)),
            Pub("grid", 0, Replace("DECLARE", -1, Terms(0, 2, 1, 6))) }
Changing ==
  { [WithMenu(Plain, {p}) EXCEPT !.blur = b] : p \in Grids2, b \in {{}, {"grid"}} } \cup
  { [WithMenu(Plain, {Pub("effect", 0, Replace("DECLARE", 1, Effect(2, 3)))}) EXCEPT !.blur = b]
    : b \in {{}, {"effect"}} } \cup
  { [WithMenu(Plain, {PlanChange(f)}) EXCEPT !.blur = b] : f \in {0, 1}, b \in {{}, {"plan"}} } \cup
  { [WithMenu(Plain, {Pub("commitment", 0, [member |-> "self"])}) EXCEPT !.blur = b] : b \in {{}, {"roster"}} } \cup
  { [WithMenu(Plain, {Notice(p, 5)}) EXCEPT !.blur = b]
    : p \in {During(0, 1), During(1, 3), Since(2)}, b \in {{}, {"notices"}} } \cup
  { WithMenu(Plain, {[Notice(During(1, 3), 0) EXCEPT !.item.disposition = "PROVEN_OUTSIDE_SCOPE"]}) } \cup
  { [WithMenu(WithStop, {Pub("trade", 0, Stopped(2, 0))}) EXCEPT !.blur = b]
    : b \in {{}, {"trades"}, {"mechanism"}} } \cup
  { [WithMenu(WithStop, {Pub("trade", 0, Trade(2, 0, "TARGET", 2))}) EXCEPT !.blur = {"mechanism"}] } \cup
  { WithMenu([WithStop EXCEPT !.trades = @ \cup {Stopped(2, 0) @@ [published |-> 0]}], {Pub("trade", 1, Correction)}) } \cup
  { WithMenu(Plain, {p}) : p \in
      { Pub("grid", 0, [Replace("DECLARE", 1, Terms(0, 3, 1, 6)) EXCEPT !.id = 3]),
        Pub("account", 0, [balance |-> 2000, equity |-> 900, positions |-> {}]),
        Pub("account", 0, [balance |-> 2000, equity |-> 2000, positions |-> {Gold}]),
        Pub("projection", 0, Replace("WITHDRAW", 1, None)), Pub("floors", 0, Replace("WITHDRAW", 1, None)),
        Regulation(Regulated({[Lot EXCEPT !.maximum = 2], Floor})),
        Regulation([Regulated({Lot, Floor}) EXCEPT !.assignments = @ \cup {Second(1)}]) } } \cup
  { WithMenu(Bare, {Regulation(m)}) : m \in
      { [Bare.regime EXCEPT !.approvals = {Approval("P", "APPROVED", During(-5, 1))}],
        [Bare.regime EXCEPT !.approvals = @ \cup {Approval("P", "REJECTED", Since(1))}],
        [Bare.regime EXCEPT !.assignments = @ \cup {Second(1)}] } }

\* What is not said, or not admitted.
Untold ==
  { [Bare EXCEPT !.regime.assignments = {[Assignment(1, "P") EXCEPT !.phase = Since(f)]}, !.blur = b] : f \in {-5, 1}, b \in {{}, {"phase"}} } \cup
  { [Bare EXCEPT !.regime.assignments = @ \cup {Second(1)}, !.blur = b]
    : b \in {{}, {"manifest"}} } \cup
  { [Plain EXCEPT !.same = s, !.blur = b] : s \in {Claims, Claims \ {"money"}}, b \in {{}, {"claims"}} } \cup
  { [Plain EXCEPT !.blur = {b}] : b \in {"equity", "exceptions"} } \cup
  { [Plain EXCEPT !.admission.unresolved = {u}] : u \in {"grid", "effect", "risk", "lot", "floors", "universe"} } \cup
  { [Plain EXCEPT !.admission.until = 1], [Plain EXCEPT !.admission.mandate = 1], [Plain EXCEPT !.bound = 1],
    [Plain EXCEPT !.policy.until = 1], [Plain EXCEPT !.request.literals["money"] = {Gold, Silver}],
    [Plain EXCEPT !.request.terms.charges[1].scheduled = FALSE], [Plain EXCEPT !.request.candidate = "UNKNOWN"] }

\* Revisions of the specification: replaced, withdrawn, corrected, at odds.
Said(n, says) == [id |-> n, published |-> 0, says |-> says]
Later(n, says) == Pub("assertion", 0, [id |-> n, says |-> says])
Telling(says) == [Plain EXCEPT !.assertions = @ \cup { Said(n + 1, says[n]) : n \in DOMAIN says }]
Governed(w, r) == [w EXCEPT !.request.quote.revision = r, !.plan[1].revision = r]
ToB == Supersedes(A, B, Since(-5))
Revised ==
  { [WithMenu(Plain, {Later(2, s)}) EXCEPT !.blur = b] :
      s \in {ToB, Corrects(1, Applies(B, Since(-5)))}, b \in {{}, {"assertions"}, {"silence"}} } \cup
  { WithMenu(Plain, {Later(2, s)}) : s \in
      { Supersedes(A, B, Since(1)), Corrects(1, None), Corrects(1, Applies(A, Since(1))),
        Withdraws(A, During(0, 1)), Applies(B, Since(1)) } } \cup
  { WithMenu(Plain, {Later(2, ToB), Later(3, s)}) : s \in
      {Corrects(2, None), Corrects(2, Supersedes(A, B, Since(1))), Supersedes(B, A, Since(0))} } \cup
  { WithMenu(Governed(Telling(<<ToB>>), B), {Later(3, s)}) : s \in
      {Supersedes(B, C, Since(1)), Supersedes(A, C, Since(1)), Corrects(2, Supersedes(A, C, Since(-5)))} } \cup
  { Governed(Telling(<<ToB, Supersedes(A, C, Since(-5)), Supersedes(B, C, Since(-5))>>), C),
    Telling(<<Corrects(1, Applies(B, Since(-5))), Corrects(1, None)>>),
    Telling(<<Corrects(1, None), Corrects(2, Applies(B, Since(-5)))>>),
    Governed([Telling(<<ToB>>) EXCEPT !.revisions[B].effective = 1], B),
    [Plain EXCEPT !.surplus = {B}] } \cup
  { [Plain EXCEPT !.revisions[A].payoff = p] : p \in {"ABSENT", "NONUNIFORM", "INCOMPLETE"} }

\* The loss limits.
Losing ==
  [Plain EXCEPT !.asked = "loss",
     !.regime = Regulated({Trail, Daily}),
     !.menu = {Pub("close", 0, Closing(2, 0, 30)), Pub("close", 0, Closing(3, 0, -25))}]
Changed(m) == [Losing EXCEPT !.regime = m]
Twice == [Assignment(1, "P") EXCEPT !.packages = {[package |-> "Q", period |-> During(-5, -1)],
                                                  [package |-> "P", period |-> Since(-1)]}]
Losses ==
  { [Losing EXCEPT !.blur = b] : b \in {{}, {"order"}, {"closes"}, {"meaning"}, {"parts"}, {"phase"}} } \cup
  { [Losing EXCEPT !.floating = f, !.owed = o] : f \in {-10, -11}, o \in {0, 1} } \cup
  { [Losing EXCEPT !.owed = 11, !.blur = {"parts"}],
    [Losing EXCEPT !.menu = {Pub("close", 0, Closing(2, 0, 30)), Pub("close", 1, Closing(3, 1, -25))}],
    [Losing EXCEPT !.menu = {Pub("close", 0, Closing(2, 0, 30)), Pub("correction", 1, Closing(3, 0, -4))}],
    [Losing EXCEPT !.menu = {Pub("close", 0, [Closing(2, 0, -30) EXCEPT !.kind = "REWARD_OR_WITHDRAWAL"])}],
    [Losing EXCEPT !.reset.first = TRUE], [Losing EXCEPT !.reset.unambiguous = FALSE],
    [Losing EXCEPT !.definition = Since(1)], [Losing EXCEPT !.definition = During(-5, 1)],
    [Losing EXCEPT !.inception = 0, !.closes = {}, !.menu = {Pub("close", 0, Closing(2, 1, 30))}], [Losing EXCEPT !.trailing.understood = FALSE],
    [Losing EXCEPT !.admission.unresolved = {"history"}],
    [Losing EXCEPT !.regime.approvals = {Approval("P", "APPROVED", During(-5, 1))}],
    Changed([Losing.regime EXCEPT !.assignments = @ \cup {[Assignment(2, "P") EXCEPT !.phase = During(-3, -1)]}]),
    Changed([Losing.regime EXCEPT !.assignments = {Twice},
                                  !.packages = [p \in {"P", "Q"} |-> Package(p, {Trail, Daily})]]) }

MCWorlds == {Plain, Overcounted, Elsewhere} \cup Quantities \cup Rules \cup Floored \cup Changing \cup Untold \cup Revised \cup Losses
=============================================================================
