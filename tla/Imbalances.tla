------------------------------ MODULE Imbalances ------------------------------
(* The detectors of a sudden move and of what it leaves behind:               *)
(* fvg_imbalance_intelligence.py (gaps between a candle and the one two after *)
(* it), displacement_intelligence.py (wide candles and their runs) and        *)
(* order_block_intelligence.py (the opposite candle a move started from).     *)
(* Ratios are percentages and a median is kept doubled.                       *)
EXTENDS CausalSource, SequencesExt

GapConfigErrors(config) ==
    {e \in {"lookback", "reach", "minimum"} :
        CASE e = "lookback" -> config.lookback < 3
          [] e = "reach"    -> config.reach < 0
          [] e = "minimum"  -> config.minimum < 0}

\* The middle candles searched for a gap.
GapCandidates(candles, config) ==
    Max({2, Len(candles) - config.lookback + 1})..(Len(candles) - 1)

\* How deep a candle reaches into a gap, at most all of it.
FillDepth(candle, gap) ==
    LET depth == IF gap.side = "bullish" THEN gap.upper - candle.low ELSE candle.high - gap.lower
    IN  Max({0, Min({gap.upper - gap.lower, depth})})

GapEvent(candle, gap, config) ==
    LET full == IF gap.side = "bullish" THEN candle.low <= gap.lower
                                        ELSE candle.high >= gap.upper
    IN  IF full THEN "fully_filled_event"
        ELSE IF FillDepth(candle, gap) > 0 THEN "partial_fill_event"
        ELSE IF /\ candle.high >= gap.lower - config.reach
                /\ candle.low <= gap.upper + config.reach THEN "touched_event"
        ELSE "none"

\* The gap around the middle candle b, with all later candles that reached it.
GapAt(candles, b, config) ==
    LET first == candles[b - 1]
        third == candles[b + 1]
        bullish == first.high < third.low
        gap == [side |-> IF bullish THEN "bullish" ELSE "bearish", middle |-> b,
                lower |-> IF bullish THEN first.high ELSE third.high,
                upper |-> IF bullish THEN third.low ELSE first.low]
        events == {[candle |-> i, kind |-> GapEvent(candles[i], gap, config)] :
                      i \in (b + 2)..Len(candles)}
        kinds == {e.kind : e \in events}
    IN  [gap |-> gap,
         interactions |-> {e \in events : e.kind # "none"},
         depth |-> Max({0} \cup {FillDepth(candles[i], gap) : i \in (b + 2)..Len(candles)}),
         status |-> IF "fully_filled_event" \in kinds THEN "fully_filled"
                    ELSE IF "partial_fill_event" \in kinds THEN "partially_filled"
                    ELSE "open"]

\* All gaps of the window that are wide enough.
FoundGaps(candles, config) ==
    LET Separated(b) == \/ candles[b - 1].high < candles[b + 1].low
                        \/ candles[b - 1].low > candles[b + 1].high
    IN  {g \in {GapAt(candles, b, config) :
                   b \in {m \in GapCandidates(candles, config) : Separated(m)}} :
            g.gap.upper - g.gap.lower >= config.minimum}

\* What is told of them: the filled ones may be left out, and their number is told.
Gaps(candles, config) ==
    LET found == FoundGaps(candles, config)
        emitted == {g \in found : config.full \/ g.status # "fully_filled"}
    IN  [emitted |-> emitted, omitted |-> Cardinality(found \ emitted),
         scanned |-> Cardinality(GapCandidates(candles, config))]
-------------------------------------------------------------------------------
DisplacementConfigErrors(config) ==
    {e \in {"lookback", "baseline", "ratio", "expansion", "sequence", "location"} :
        CASE e = "lookback"  -> config.lookback < 1
          [] e = "baseline"  -> config.baseline < 1
          [] e = "ratio"     -> {config.body, config.bullish, config.bearish} \ (0..100) # {}
          [] e = "expansion" -> config.expansion <= 0
          [] e = "sequence"  -> config.sequence < 2
          [] e = "location"  -> config.bearish >= config.bullish}

Direction(candle) ==
    IF candle.close > candle.open THEN "bullish"
    ELSE IF candle.close < candle.open THEN "bearish" ELSE "neutral"

Distance(a, b) == IF a >= b THEN a - b ELSE b - a

TrueRange(candles, i) ==
    LET candle == candles[i]
    IN  Max({candle.high - candle.low} \cup
            IF i = 1 THEN {}
            ELSE {Distance(candle.high, candles[i - 1].close),
                  Distance(candle.low, candles[i - 1].close)})

\* Twice the median of the true ranges of the window before candle i: half of them
\* are no greater than the lesser of the two in the middle, more than half no
\* greater than the other.
Baseline(candles, i, window) ==
    LET before == (i - window)..(i - 1)
        Smallest(n) == Min({TrueRange(candles, k) : k \in {m \in before :
            Cardinality({j \in before : TrueRange(candles, j) <= TrueRange(candles, m)}) >= n}})
    IN  Smallest((window + 1) \div 2) + Smallest((window \div 2) + 1)

BaselineState(candles, i, config) ==
    IF i - 1 < config.baseline THEN "insufficient_history"
    ELSE IF Baseline(candles, i, config.baseline) = 0 THEN "insufficient_context"
    ELSE "available"

\* A displacement: a body that fills its range, closes near the extreme of its
\* direction and is wide against the window before it.
Displaces(candles, i, config) ==
    LET candle == candles[i]
        spread == candle.high - candle.low
    IN  /\ Direction(candle) # "neutral"
        /\ spread > 0
        /\ BaselineState(candles, i, config) = "available"
        /\ Distance(candle.close, candle.open) * 100 >= config.body * spread
        /\ IF Direction(candle) = "bullish"
             THEN (candle.close - candle.low) * 100 >= config.bullish * spread
             ELSE (candle.close - candle.low) * 100 <= config.bearish * spread
        /\ 200 * TrueRange(candles, i)
             >= config.expansion * Baseline(candles, i, config.baseline)

\* The displacements of the window and the runs of them; a run that began
\* before the window is not reported, for its beginning is not in it.
Displacements(candles, config) ==
    LET start == Max({1, Len(candles) - config.lookback + 1})
        all == {i \in Max({1, start - 1})..Len(candles) : Displaces(candles, i, config)}
        Joined(i) == /\ {i, i + 1} \subseteq all
                     /\ Direction(candles[i]) = Direction(candles[i + 1])
        Unready(state) == Cardinality({i \in start..Len(candles) :
                                          BaselineState(candles, i, config) = state})
    IN  [events |-> {[direction |-> Direction(candles[i]), candle |-> i] :
                        i \in {k \in all : k >= start}},
         sequences |->
            {[direction |-> Direction(candles[run[1]]), first |-> run[1], last |-> run[2],
              created |-> run[1] + config.sequence - 1] :
                run \in {r \in (all \ {start - 1}) \X all :
                           /\ r[2] - r[1] + 1 >= config.sequence
                           /\ \A i \in r[1]..(r[2] - 1) : Joined(i)
                           /\ ~Joined(r[1] - 1) /\ ~Joined(r[2])}},
         scanned |-> Len(candles) - start + 1,
         unready |-> Unready("insufficient_history") + Unready("insufficient_context")]
-------------------------------------------------------------------------------
OrderBlockConfigErrors(config) ==
    {e \in {"lookback", "search", "blocks", "interactions"} :
        CASE e = "lookback"     -> config.lookback < 1
          [] e = "search"       -> config.search \notin 1..10
          [] e = "blocks"       -> config.blocks \notin 1..1000
          [] e = "interactions" -> config.interactions \notin 1..1000}

\* The opposite candles a displacement may have started from.
Origins(candles, event, config) ==
    {j \in Max({1, event.candle - config.search})..(event.candle - 1) :
        Direction(candles[j]) = IF event.direction = "bullish" THEN "bearish" ELSE "bullish"}

BlockEvent(candle, origin, direction) ==
    LET low == Min({origin.open, origin.close})
        high == Max({origin.open, origin.close})
    IN  IF IF direction = "bullish" THEN candle.close < origin.low
                                    ELSE candle.close > origin.high
          THEN "order_block_close_through"
        ELSE IF /\ low <= Max({candle.open, candle.close})
                /\ Min({candle.open, candle.close}) <= high
          THEN "order_block_body_revisit"
        ELSE IF candle.high >= low /\ candle.low <= high
          THEN "order_block_wick_touch"
        ELSE "none"

\* What a block has been through, named by the strongest of its interactions.
BlockState(kinds) ==
    IF "order_block_close_through" \in kinds THEN "closed_through"
    ELSE IF "order_block_body_revisit" \in kinds THEN "body_revisited"
    ELSE IF "order_block_wick_touch" \in kinds THEN "wick_revisited" ELSE "unvisited"

\* One block per origin and direction, confirmed by the first displacement of the
\* window that started there; the latest blocks, each with its latest interactions.
OrderBlocks(candles, displacements, config) ==
    LET started == {e \in displacements.events : Origins(candles, e, config) # {}}
        Origin(e) == Max(Origins(candles, e, config))
        confirmed == {e \in started : ~\E other \in started :
                         /\ other.direction = e.direction /\ Origin(other) = Origin(e)
                         /\ other.candle < e.candle}
        Reached(e) == {[candle |-> i,
                        kind |-> BlockEvent(candles[i], candles[Origin(e)], e.direction)] :
                          i \in (e.candle + 1)..Len(candles)}
        Interactions(e) == {r \in Reached(e) : r.kind # "none"}
        Later(e) == Cardinality({other \in confirmed : other.candle > e.candle})
        Kept(rows) == {r \in rows : Cardinality({s \in rows : s.candle > r.candle})
                                      < config.interactions}
        retained == {e \in confirmed : Later(e) < config.blocks}
    IN  [blocks |-> {[origin |-> Origin(e), direction |-> e.direction, confirmed |-> e.candle,
                      state |-> BlockState({r.kind : r \in Interactions(e)}),
                      interactions |-> Kept(Interactions(e))] : e \in retained},
         truncated |-> Cardinality(confirmed \ retained),
         shortened |-> Cardinality({e \in retained :
                                      Cardinality(Interactions(e)) > config.interactions})]
=============================================================================
