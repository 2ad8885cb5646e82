------------------------------ MODULE EntryDesk ------------------------------
(***************************************************************************)
(* The desk around the entry owners.  Providers, the venue and the planner *)
(* publish; the host captures what is published in packets, one for each   *)
(* group of owners, and admits the packets for a boundary; the owners      *)
(* answer, at the boundary, out of the captured packets alone.  None of    *)
(* the parties is code of the repository; what they hand over is.          *)
(*   A world is one set of circumstances:                                  *)
(*     the request and the facts published from the start;                 *)
(*     menu    what may be published later, and when it may take effect;   *)
(*     blur    what the captures fail to say, and admit that they do not.  *)
(***************************************************************************)
EXTENDS EntryHeadroom, LossFloors

CONSTANTS Worlds, LastInstant, Top

ASSUME BoundariesAreCounted == LastInstant \in Nat /\ Top \in Nat

\* What is unknown is not mistaken for a grid, nor for a fact.
ASSUME NoneIsApart ==
  None \notin [kind : {"REGULAR_GRID"}, origin : Int, step : Int, first : Int, last : Int] \cup {EmptyGrid} \cup BOOLEAN

\* In every world finitely much is published, and every revision of the
\* specification that a statement names is one that exists, from some instant on.
ASSUME WorldsAreFinite ==
  \A w \in Worlds :
    /\ IsFiniteSet(w.menu) /\ IsFiniteSet(w.assertions)
    /\ \A r \in DOMAIN w.revisions : w.revisions[r].effective \in Int
    /\ LET later == { p.item.says : p \in { p \in w.menu : p.topic = "assertion" } }
           said  == later \cup { a.says : a \in w.assertions }
       IN  \A says \in said :
             LET stated == IF says.kind = "CORRECTS" THEN says.by ELSE says
             IN  stated = None \/ Named2(stated) \subseteq DOMAIN w.revisions

\* The account's history is one of identified events and amounts, dated ...
ASSUME HistoriesAreCounted ==
  \A w \in Worlds :
    LET closes      == w.closes \cup { p.item : p \in { p \in w.menu : p.topic = "close" } }
        corrections == { p.item : p \in { p \in w.menu : p.topic = "correction" } }
    IN  /\ {w.inception, w.initial, w.floating, w.owed} \subseteq Int /\ w.reset.start \in Nat
        /\ IsFiniteSet(w.closes)
        /\ \A x \in closes \cup corrections : {x.id, x.at, x.delta} \subseteq Int
        /\ \A x, y \in closes : x.id = y.id => x = y

\* ... and so is what binds the account to its rules.
Period == [from : Int \cup {None}, until : Int \cup {None}]
ASSUME RegimesAreDated ==
  \A w \in Worlds :
    \A m \in {w.regime} \cup { p.item : p \in { p \in w.menu : p.topic = "regime" } } :
      /\ IsFiniteSet(m.assignments)
      /\ \A s \in m.assignments :
           /\ s.enrollment \in Period /\ s.phase \in Period /\ IsFiniteSet(s.packages)
           /\ \A b \in s.packages : b.period \in Period /\ b.package \in DOMAIN m.packages
      /\ \A k \in DOMAIN m.packages : m.packages[k].id = k /\ m.packages[k].period \in Period
      /\ \A a \in m.approvals : a.period \in Period

\* Prices, amounts and quantities are counted in units of a common denominator;
\* allowances and charges are never negative.
ASSUME OrdersAreCounted ==
  \A w \in Worlds :
    LET q == w.request.quote
        t == w.request.terms
    IN  /\ w.request.direction \in {"LONG", "SHORT"}
        /\ {w.request.stop, q.bid, q.ask, t.minimumClearance, t.maximumQuantity} \subseteq Int
        /\ {t.entryAllowance, t.stopAllowance} \subseteq Nat
        /\ t.charges \in Seq([minimum : Nat, fixed : Nat, perUnit : Nat, scheduled : BOOLEAN])
        /\ \A r \in DOMAIN w.revisions :
             /\ w.revisions[r].coefficient \in Nat \ {0}
             /\ w.revisions[r].payoff \in {"COMPLETE", "INCOMPLETE", "ABSENT", "UNSUPPORTED", "NONUNIFORM"}
        /\ w.same \subseteq Claims
ASSUME AccountsAreCounted ==
  \A w \in Worlds :
    LET later  == { p.item : p \in { p \in w.menu : p.topic = "trade" } }
        trades == w.trades \cup later
    IN  /\ \A a \in {w.account} \cup { p.item : p \in { p \in w.menu : p.topic = "account" } } :
             {a.balance, a.equity} \subseteq Int /\ IsFiniteSet(a.positions)
        /\ \A p \in w.menu : p.topic = "commitment" => \E x \in w.roster : p.item = [member |-> x]
        /\ IsFiniteSet(w.trades) /\ \A r \in w.trades : r.published \in Int
        /\ \A r, s \in trades : r.id = s.id => r = s
        /\ \A p, q \in w.menu : p.topic = "trade" /\ q.topic = "trade" /\ p.item = q.item => p = q
        /\ w.trades \cap later = {}
        \* How a trade was closed is known only of one that is closed.
        /\ \A r \in trades : r.mechanism = "INITIAL_PROTECTIVE_STOP" =>
             r.completed /\ r.structure = "SUPPORTED" /\ {r.close, r.amount} \subseteq Int

\* The rules of every package that may come to bind the account.
RulesOfWorld(w) ==
  UNION { UNION { m.packages[k].rules : k \in DOMAIN m.packages }
          : m \in {w.regime} \cup { p.item : p \in { p \in w.menu : p.topic = "regime" } } }
ASSUME RulesAreCounted ==
  \A w \in Worlds :
    /\ \A m \in {w.regime} \cup { p.item : p \in { p \in w.menu : p.topic = "regime" } } :
         \A k \in DOMAIN m.packages : IsFiniteSet(m.packages[k].rules)
    /\ \A r \in RulesOfWorld(w) :
         /\ r.type \in {"POSITION_QUANTITY", "POSITION_COUNT"} => r.maximum \in Int
         /\ r.type = "STATIC_FLOOR" =>
              IF r.threshold.fraction = None THEN r.threshold.amount \in Int ELSE r.threshold.fraction \in Int
    /\ w.reference \in Int
    /\ \A o \in w.operands : {o.from, o.until} \subseteq Int
    /\ \A o \in w.operands : o.role = "POSITION_COUNT_CONTEXT" => o.body.committed \in Nat

\* What is said is true: of the reference a fraction is taken of, of the notices
\* (that change a floor), and of each rule, whether it is about this instrument,
\* about the balance once settled, and waived.
ASSUME StatementsAreTrue ==
  \A w \in Worlds :
    LET notices == { p.item : p \in { p \in w.menu : p.topic = "notice" } }
    IN  /\ \A o \in w.operands : o.role = "INITIAL_REFERENCE" => o.body = w.reference
        /\ \A x \in notices :
             /\ {x.from, x.until, x.delta} \subseteq Int /\ x.kind = "CHANGE"
             /\ x.disposition \in Dismissed => x.delta = 0
        /\ \A x \in w.entries : x.kind = "WAIVER" => {x.from, x.until} \subseteq Int
        /\ w.asked = "entry" =>
             \A t \in 0 .. LastInstant : \A b \in w.floors[t].bindings : \A r \in RulesOfWorld(w) :
               LET here    == r.instruments = None \/ w.request.instrument \in r.instruments
                   waivers == { x \in w.entries : x.kind = "WAIVER" /\ r.id \in x.rules }
               IN  b.rule = r.id =>
                     /\ b.population = "CONTAINS_SCENARIO" => here
                     /\ b.population = "DISJOINT" => ~here
                     /\ b.endpoint = "OUTSIDE_SETTLED_ENDPOINT" => ~(r.type = "STATIC_FLOOR" /\ r.measure = "BALANCE")
                     /\ IF b.exceptions.resolution = "WAIVED_THROUGHOUT"
                          THEN { x \in w.entries : x.kind = "WAIVER" /\ x.id \in b.exceptions.entries } \subseteq waivers
                          ELSE \A x \in waivers : x.until <= t \/ t + 1 < x.from

Streams == {"grid", "effect", "projection", "floors"}

\* A stream declares records of their own identity; grids and intervals are of integers.
ASSUME TermsAreCounted ==
  \A w \in Worlds : \A topic \in Streams :
    LET later   == { p \in w.menu : p.topic = topic }
        records == w.declared[topic] \cup { p.item : p \in later }
    IN  /\ IsFiniteSet(w.declared[topic])
        /\ \A r, s \in records : r.id = s.id => r = s
        /\ \A p \in later : p.item \notin w.declared[topic] /\ \A q \in later : p.item = q.item => p = q
        /\ \A r \in records :
             /\ r.from \in Int
             /\ r.pred \in {NoPred, UnknownPred} \/ r.pred = PredRecord(r.pred.id)
             /\ topic = "grid" /\ r.kind = "DECLARE" =>
                  /\ {r.body.origin, r.body.step, r.body.min} \subseteq Int
                  /\ r.body.max.kind \in {"FINITE", "UNBOUNDED"}
                  /\ r.body.max.kind = "FINITE" => r.body.max.value \in Int
             /\ topic = "effect" /\ r.kind = "DECLARE" => {r.body.range.min, r.body.range.max} \subseteq Int

VARIABLES world, now, posted, taken, admission
vars == <<world, now, posted, taken, admission>>

Unposted == -1
Packets == IF world.asked = "entry" THEN {"financial", "position", "floor"} ELSE {"history"}

TypeOK ==
  /\ world \in Worlds
  /\ now \in 0 .. LastInstant
  /\ posted \in [world.menu -> {Unposted} \cup 0 .. now]
  /\ \A s \in Packets : taken[s] \in {None} \cup 0 .. now
  /\ admission # None =>
       /\ admission.boundary \in 0 .. now
       /\ \A s \in Packets : admission.pins[s] \in 0 .. admission.boundary

-----------------------------------------------------------------------------
(* What is published by t.                                                 *)

Posted(topic, t) == { p \in world.menu : p.topic = topic /\ posted[p] # Unposted /\ posted[p] <= t }
Items(topic, t) == { p.item : p \in Posted(topic, t) }
Newest(topic, t) ==
  IF Posted(topic, t) = {} THEN world[topic] ELSE (CHOOSE p \in Posted(topic, t) : TRUE).item
Declared(topic, t) ==
  world.declared[topic] \cup
  { [id |-> p.item.id, kind |-> p.item.kind, pred |-> p.item.pred, from |-> p.item.from, until |-> p.item.until,
     published |-> posted[p], body |-> p.item.body] : p \in Posted(topic, t) }
Trades(t) ==
  world.trades \cup
  { [id |-> p.item.id, trade |-> p.item.trade, pred |-> p.item.pred, completed |-> p.item.completed,
     close |-> p.item.close, structure |-> p.item.structure, mechanism |-> p.item.mechanism, net |-> p.item.net,
     amount |-> p.item.amount, published |-> posted[p]] : p \in Posted("trade", t) }
Assertions(t) ==
  world.assertions \cup
  { [id |-> p.item.id, published |-> posted[p], says |-> p.item.says] : p \in Posted("assertion", t) }
Decisions(t) ==
  world.plan \o
  SetToSeq({ [decision |-> p.item.decision, decided |-> posted[p], from |-> p.item.from, until |-> p.item.until,
              revision |-> p.item.revision] : p \in Posted("plan", t) })
Deltas(t) == world.closes \cup { p.item : p \in Posted("close", t) }

-----------------------------------------------------------------------------
(* What a capture at t says of it.                                         *)

Blurred(x) == x \in world.blur

\* What is told of the floors, but for notices left out.
ToldFloors(t) ==
  LET f == world.floors[t]
  IN  [cutoff |-> f.cutoff, until |-> f.until, subjects |-> f.subjects, stateAt |-> f.stateAt,
       expected |-> f.expected, reports |-> f.reports, bindings |-> f.bindings,
       complete |-> ~Blurred("notices"),
       entries |-> world.entries \cup (IF Blurred("notices") THEN {} ELSE Items("notice", t))]

\* Replacements are lost; the inventory admits that revisions may be missing.
\* Bodies about the time until the deadline are stated for the capture.
Inventory(topic, t) ==
  LET all   == Declared(topic, t)
      shown == IF Blurred(topic) THEN { r \in all : r.pred = NoPred } ELSE all
      Body(r) == CASE topic = "projection" -> world.projection[t]
                   [] topic = "floors" -> ToldFloors(t)
                   [] OTHER -> r.body
  IN  [records  |-> { [id |-> r.id, kind |-> r.kind, pred |-> r.pred, from |-> r.from, until |-> r.until,
                       published |-> r.published, body |-> Body(r)] : r \in shown },
       coverage |-> [missing |-> {}, omitted |-> Blurred(topic), truncated |-> FALSE,
                     start |-> "FROM_INCEPTION", roots |-> { r.id : r \in { r \in shown : r.pred = NoPred } },
                     revisions |-> IF Blurred(topic) THEN "INCOMPLETE" ELSE "COMPLETE",
                     declarations |-> "COMPLETE", cutoff |-> t, from |-> 0, until |-> Always],
       observed |-> t, supported |-> TRUE]

Account(t) ==
  LET a == Newest("account", t)
  IN  [effective |-> t, equity |-> IF Blurred("equity") THEN None ELSE a.equity, balance |-> a.balance,
       positions |-> a.positions, complete |-> TRUE, mode |-> "HEDGING"]

\* What a set of events or notices adds up to.
Total(events) == FoldSet(LAMBDA x, sum : sum + x.delta, 0, events)

\* A floor is reported as it stands, with the notices in effect worked in.
Raised(r, known, t) ==
  Total({ x \in known : r.id \in x.rules /\ x.from <= t /\ t < x.until })
Stated(r, t) ==
  IF r.type = "STATIC_FLOOR" /\ r.threshold.fraction = None
    THEN [id |-> r.id, type |-> r.type, effects |-> r.effects, instruments |-> r.instruments,
          foreign |-> r.foreign, supported |-> r.supported, measure |-> r.measure,
          separateCosts |-> r.separateCosts, strict |-> r.strict,
          threshold |-> [fraction |-> None, amount |-> r.threshold.amount + Raised(r, Items("notice", t), t)]]
    ELSE r

\* Starts that are not known; an assignment that is not reported.
Manifest(t) ==
  LET m == Newest("regime", t)
      Dim(s) == IF Blurred("phase")
                  THEN [id |-> s.id, enrollment |-> s.enrollment, identified |-> s.identified,
                        packages |-> s.packages, phase |-> [from |-> None, until |-> s.phase.until]]
                  ELSE s
      Told(p) == [id |-> p.id, period |-> p.period, complete |-> p.complete,
                  rules |-> { Stated(r, t) : r \in p.rules }]
  IN  [period      |-> m.period,
       assignments |-> { Dim(s) : s \in { s \in m.assignments : Blurred("manifest") => s.id = 1 } },
       packages    |-> [p \in DOMAIN m.packages |-> Told(m.packages[p])],
       approvals   |-> m.approvals,
       observed    |-> t, cutoff |-> t, complete |-> ~Blurred("manifest")]

\* Closing mechanisms and results that are still open; trades not yet known.
Shown(r) ==
  [id |-> r.id, trade |-> r.trade, pred |-> r.pred, completed |-> r.completed, close |-> r.close,
   structure |-> r.structure, amount |-> r.amount, published |-> r.published,
   mechanism |-> IF Blurred("mechanism") THEN "UNRESOLVED" ELSE r.mechanism,
   net |-> IF Blurred("mechanism") THEN "UNRESOLVED" ELSE r.net]
Ledger(t) == { Shown(r) : r \in IF Blurred("trades") THEN world.trades ELSE Trades(t) }

\* Assertions left out, by a reporter that says so, or that makes no claim.
Lifecycle(t) ==
  LET shown == IF Blurred("assertions") THEN world.assertions ELSE Assertions(t)
      silent == Blurred("silence")
      mentioned == UNION { Named2(s) : s \in Statements([assertions |-> shown]) }
  IN  [assertions   |-> shown,
       observed     |-> t,
       cutoff       |-> IF silent THEN None ELSE t,
       completeness |-> CASE silent -> "UNKNOWN"
                          [] Blurred("assertions") -> "LIMITED"
                          [] OTHER -> "COMPLETE",
       revisions    |-> [r \in mentioned \cup world.surplus |-> world.revisions[r]]]

Financial(t) ==
  [taken |-> t, lifecycle |-> Lifecycle(t), grid |-> Inventory("grid", t), account |-> Account(t), regime |-> Manifest(t),
   plan |-> [decisions |-> IF Blurred("plan") THEN world.plan ELSE Decisions(t),
             complete |-> ~Blurred("plan"), cutoff |-> t],
   policy |-> world.policy, compatible |-> world.compatible, operands |-> world.operands,
   trades |-> Ledger(t), day |-> world.day,
   coverage |-> { [start |-> 0, end |-> t, complete |-> ~Blurred("trades"), unbounded |-> Blurred("trades"),
                   refs |-> { r.id : r \in { r \in EffectiveTrades(Ledger(t)) : Relevant(r, world.day, t) } },
                   cutoff |-> t, published |-> t] },
   binding |-> [from |-> 0, until |-> world.bound, published |-> 0, supported |-> TRUE,
                claims |-> [c \in Claims |-> CASE Blurred("claims") -> "UNKNOWN"
                                               [] c \in world.same  -> "COMPATIBLE"
                                               [] OTHER             -> "INCOMPATIBLE"]]]

\* Members of the roster that do not report; exceptions that are not listed.
PositionPacket(t) ==
  [taken |-> t, effect |-> Inventory("effect", t), account |-> Account(t), regime |-> Manifest(t),
   roster |-> world.roster, unsupported |-> {},
   reports |-> { [member |-> x, stateAt |-> t, complete |-> TRUE,
                  status |-> IF [member |-> x] \in Items("commitment", t) THEN "NOT_EMPTY" ELSE "EMPTY"] :
                 x \in IF Blurred("roster") THEN {"provider"} ELSE world.roster },
   limits |-> [observed |-> t, scope |-> "COMPATIBLE", inventory |-> "COMPLETE",
               exceptions |-> IF Blurred("exceptions") THEN "UNKNOWN" ELSE "COMPLETE", cutoff |-> t,
               bindings |-> { [rule |-> b.rule, population |-> b.population, denomination |-> b.denomination,
                               projected |-> b.projected, mandatory |-> b.mandatory, exceptions |-> b.exceptions,
                               resolved |-> b.resolved, cutoff |-> t] : b \in world.limits }]]

FloorsPacket(t) ==
  [taken |-> t, projection |-> Inventory("projection", t), floors |-> Inventory("floors", t)]

\* The account's past as of each instant: closes in the order of the source, or
\* in another one when it does not vouch for its order.
Sooner(x, y) == x.at < y.at \/ (x.at = y.at /\ (IF Blurred("order") THEN x.id > y.id ELSE x.id < y.id))
InSequence(s) == \A i, j \in DOMAIN s : i < j => Sooner(s[i], s[j])
Reported(through, t) ==
  LET known == { x \in Deltas(t) : x.at <= through }
  IN  IF Blurred("closes") THEN { x \in known : x \in world.closes } ELSE known
Closes(through, t) == CHOOSE s \in SetToSeqs(Reported(through, t)) : InSequence(s)

\* Balances: after the first n events of a sequence; after everything up to an
\* instant, corrections included.
Running(events, n) == world.initial + Total({ events[i] : i \in 1 .. n })
Balance(through, t) ==
  world.initial + Total({ x \in Deltas(t) : x.at <= through })
                + Total({ x \in Items("correction", t) : x.at <= through })

Recorded(events) ==
  [i \in DOMAIN events |->
     [id |-> events[i].id, kind |-> events[i].kind, at |-> events[i].at, delta |-> events[i].delta,
      sequence |-> i, before |-> Running(events, i - 1), after |-> Running(events, i)]]

\* An equity that leaves out what is owed says so.
Equity(through, t) == Balance(through, t) + world.floating - (IF Blurred("parts") THEN 0 ELSE world.owed)

HistoryPacket(t) ==
  LET State(u) ==
        LET events == Closes(u, t)
        IN  [inception |-> world.inception, initial |-> world.initial, rule |-> world.trailing,
             topicsComplete |-> TRUE, revised |-> FALSE, undated |-> FALSE, cited |-> TRUE,
             coverage |-> [from |-> world.inception, through |-> u, cutoff |-> t,
                           complete |-> ~Blurred("closes"), expected |-> Len(events),
                           ordered |-> ~Blurred("order"),
                           notAbsent |-> { events[i].kind : i \in DOMAIN events } \ {"CLOSE"}],
             events |-> Recorded(events),
             revisions |-> { x \in Items("correction", t) : x.at <= u },
             account |-> [effective |-> u, balance |-> Balance(u, t), equity |-> Equity(u, t)],
             regime |-> Manifest(t)]
      Statement(u) ==
        [amount |-> Equity(u, t), originals |-> TRUE, cutoff |-> t, published |-> t, reported |-> t,
         revisions |-> "NONE", definition |-> world.definition, accountWide |-> TRUE,
         parts |-> [p \in Parts |-> IF p = "commissions" /\ Blurred("parts") THEN "OMITTED" ELSE "INCLUDED_ONCE"],
         integrity |-> IF Blurred("parts") THEN "OMISSION" ELSE "COMPLETE_EXACTLY_ONCE"]
      Day(m, u) ==
        LET atReset == { x \in Deltas(t) : x.at = m }
        IN  [cutoff |-> t, regime |-> Manifest(t), rule |-> world.daily,
             calendar |-> [start |-> m, end |-> world.reset.end, unambiguous |-> world.reset.unambiguous],
             meaning |-> IF Blurred("meaning") THEN "UNKNOWN"
                         ELSE IF atReset = {} THEN "NO_C8_EVENTS_AT_M"
                         ELSE IF world.reset.first THEN "BEFORE_SOME_EVENTS_AT_M"
                         ELSE "AFTER_ALL_C8_EVENTS_AT_M",
             sources |-> TRUE, complete |-> TRUE, from |-> world.inception, through |-> u,
             revisions |-> "NONE", notAbsent |-> {}, published |-> t, reported |-> t]
  IN  [taken |-> t, state |-> [u \in 0 .. t |-> State(u)], equity |-> [u \in 0 .. t |-> Statement(u)],
       day |-> [p \in (0 .. t) \X (0 .. t) |-> Day(p[1], p[2])]]

\* What an owner is asked with: the packets captured so far.
Captured(s, packet) == IF taken[s] = None THEN None ELSE packet
Evidence ==
  [direction |-> world.request.direction, mode |-> world.request.mode, instrument |-> world.request.instrument,
   measure |-> world.request.measure, scoped |-> world.request.scoped, literals |-> world.request.literals,
   stop |-> world.request.stop, quote |-> world.request.quote, candidate |-> world.request.candidate,
   terms |-> world.request.terms,
   at |-> now, end |-> now + 2, adm |-> admission,
   packet |-> IF world.asked = "entry"
                THEN [financial |-> Captured("financial", Financial(taken["financial"])),
                      position  |-> Captured("position", PositionPacket(taken["position"])),
                      floor     |-> Captured("floor", FloorsPacket(taken["floor"]))]
                ELSE [history |-> Captured("history", HistoryPacket(taken["history"]))]]

-----------------------------------------------------------------------------
(* The desk at work.                                                       *)

Init ==
  /\ world \in Worlds
  /\ now = 0
  /\ posted = [p \in world.menu |-> Unposted]
  /\ taken = [s \in Packets |-> None]
  /\ admission = None

\* A publication is not backdated past a capture: what a packet took at an
\* instant, it took at the end of it.
Publish(p) ==
  /\ posted[p] = Unposted /\ p.earliest <= now
  /\ \A s \in Packets : taken[s] # now
  /\ posted' = [posted EXCEPT ![p] = now]
  /\ UNCHANGED <<world, now, taken, admission>>

Capture(s) ==
  /\ taken[s] # now
  /\ taken' = [taken EXCEPT ![s] = now]
  /\ UNCHANGED <<world, now, posted, admission>>

Admit ==
  /\ \A s \in Packets : taken[s] # None
  /\ ~(admission # None /\ admission.boundary = now /\ admission.pins = taken)
  /\ LET a == world.admission
     IN  admission' = [from |-> a.from, until |-> a.until, mandate |-> a.mandate, unresolved |-> a.unresolved,
                       boundary |-> now, admitted |-> now, pins |-> taken]
  /\ UNCHANGED <<world, now, posted, taken>>

Tick ==
  /\ now < LastInstant
  /\ now' = now + 1
  /\ UNCHANGED <<world, posted, taken, admission>>

Next ==
  \/ \E p \in world.menu : Publish(p)
  \/ \E s \in Packets : Capture(s)
  \/ Admit
  \/ Tick

Spec == Init /\ [][Next]_vars

=============================================================================
