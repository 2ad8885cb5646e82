--------------------------- MODULE LiquidityEvents ---------------------------
(* liquidity_intelligence.py and liquidity_events.py: levels drawn through     *)
(* confirmed swings, what each candle did to the levels that existed before    *)
(* it, and the bounded list of events reported from that history.             *)
(*   config    [lookback, tolerance, members, reach, singles, maximum, touches] *)
EXTENDS CausalSource, MarketStructure, SequencesExt

LiquidityConfigErrors(config) ==
    {e \in {"lookback", "tolerance", "members", "reach", "maximum"} :
        CASE e = "lookback"  -> config.lookback < 3
          [] e = "tolerance" -> config.tolerance <= 0
          [] e = "members"   -> config.members < 2
          [] e = "reach"     -> config.reach < 0
          [] e = "maximum"   -> config.maximum \notin 1..1000}

\* A swing is known one candle after its own.
Pivots(candles) ==
    {[side |-> "high", index |-> i, price |-> candles[i].high] : i \in SwingHighs(candles)}
    \cup {[side |-> "low", index |-> i, price |-> candles[i].low] : i \in SwingLows(candles)}

\* From each swing upwards the longest run of prices within the tolerance.
Below(a, b) == a.price < b.price \/ (a.price = b.price /\ a.index < b.index)
Run(pivots, p, config) ==
    {q \in pivots : ~Below(q, p) /\ q.price - p.price <= config.tolerance}

\* Equal levels: a run that is large enough is a cluster and is not searched again.
Starts(pivots, config) ==
    LET large == {p \in pivots : Cardinality(Run(pivots, p, config)) >= config.members}
        starts[p \in large] ==
            \A q \in large : Below(q, p) /\ p \in Run(pivots, q, config) => ~starts[q]
    IN  {p \in large : starts[p]}

Clusters(pivots, side, config) ==
    LET mine == {p \in pivots : p.side = side}
    IN  {[side |-> side, type |-> "equal_cluster", members |-> Run(mine, p, config)] :
            p \in Starts(mine, config)}

\* The levels drawn through a set of swings.
Views(pivots, config) ==
    LET clusters == Clusters(pivots, "high", config) \cup Clusters(pivots, "low", config)
        clustered == UNION {c.members : c \in clusters}
    IN  clusters \cup IF config.singles
                        THEN {[side |-> p.side, type |-> "swing", members |-> {p}] :
                                 p \in pivots \ clustered}
                        ELSE {}

\* A level's identity is all it was drawn from, with the instant its last swing
\* was confirmed.
Boundary(level, candles, config, tf) ==
    LET prices == {m.price : m \in level.members}
    IN  [side |-> level.side, type |-> level.type, members |-> level.members,
         lower |-> Min(prices) - config.reach, upper |-> Max(prices) + config.reach,
         available |-> Max({Completion(candles[m.index + 1], tf) : m \in level.members}),
         lookback |-> config.lookback]

EventRank(kind) ==
    CASE kind = "closed_beyond" -> 3 [] kind = "breached" -> 2
      [] kind = "touched" -> 1 [] OTHER -> 0

\* What a candle does to a level: closes beyond it, only wicks through it, or
\* reaches into it.
InteractionOf(candle, boundary) ==
    LET wick == IF boundary.side = "high" THEN candle.high ELSE candle.low
        Beyond(price) == IF boundary.side = "high" THEN price > boundary.upper
                                                   ELSE price < boundary.lower
    IN  IF Beyond(candle.close) THEN "closed_beyond"
        ELSE IF Beyond(wick) THEN "breached"
        ELSE IF wick \in boundary.lower..boundary.upper THEN "touched"
        ELSE "none"

\* (mutant) The lookback counted from the end of the history.
EligibleFromTheEnd(candles, config, tf) ==
    LET pivots == {p \in Pivots(candles) : p.index > Len(candles) - config.lookback}
        At(i) == {[boundary |-> b, candle |-> i, kind |-> InteractionOf(candles[i], b)] :
                     b \in {Boundary(level, candles, config, tf) : level \in
                               Views({p \in pivots : p.index + 1 < i}, config)}}
    IN  {row \in UNION {At(i) : i \in DOMAIN candles} : row.kind # "none"}

\* The swings a candle is measured against: those of the lookback before it,
\* confirmed before it.  The lookback counts from that candle, never from the
\* end of the history.
Eligible(pivots, i, config) ==
    {p \in pivots : p.index >= i - config.lookback /\ p.index < i /\ p.index + 1 < i}

\* Every interaction of every candle, independent of the later ones.
InteractionHistory(candles, config, tf) ==
    LET pivots == Pivots(candles)
        At(i) == {[boundary |-> b, candle |-> i, kind |-> InteractionOf(candles[i], b)] :
                     b \in {Boundary(level, candles, config, tf) : level \in
                               Views(Eligible(pivots, i, config), config)}}
    IN  {row \in UNION {At(i) : i \in DOMAIN candles} : row.kind # "none"}

\* The levels standing at the end, each with the strongest thing done to it.
Levels(candles, history, config, tf) ==
    LET start == Len(candles) - config.lookback + 1
        pivots == {p \in Pivots(candles) : p.index >= start}
        Rows(b) == {row \in history : row.boundary = b}
        Strongest(rows) == Max({0} \cup {EventRank(row.kind) : row \in rows})
    IN  {[boundary |-> b,
          status |-> CASE Strongest(Rows(b)) = 3 -> "closed_beyond"
                       [] Strongest(Rows(b)) = 2 -> "breached"
                       [] Strongest(Rows(b)) = 1 -> "touched"
                       [] OTHER -> "active",
          last |-> Max({0} \cup {row.candle : row \in Rows(b)}),
          interactions |-> Cardinality(Rows(b))] :
             b \in {Boundary(level, candles, config, tf) : level \in Views(pivots, config)}}

\* The name of an interaction as a published event.
EventType(kind) ==
    CASE kind = "touched" -> "liquidity_touch" [] kind = "breached" -> "liquidity_sweep"
      [] OTHER -> "liquidity_close_beyond"

\* The reported events are the latest ones.
Events(candles, history, config, tf) ==
    LET events == {[type |-> EventType(row.kind), candle |-> row.candle,
                    boundary |-> row.boundary,
                    available |-> Completion(candles[row.candle], tf)] : row \in history}
        candidates == {e \in events : config.touches \/ e.type # "liquidity_touch"}
    IN  [emitted |-> LatestOf(candidates, [e \in candidates |-> e.candle], config.maximum),
         truncated |-> Max({0, Cardinality(candidates) - config.maximum}),
         excluded |-> Cardinality({e \in events : ~config.touches /\ e.type = "liquidity_touch"}),
         levels |-> Cardinality({row.boundary : row \in history})]
=============================================================================
