----------------------------- MODULE MarketTruth -----------------------------
(* What is true of a history of candles under a profile, by definitions that   *)
(* look at the candles and not at the detectors' answers.                      *)
EXTENDS MarketSynthesis

Directions == {"bullish", "bearish"}
-------------------------------------------------------------------------------
(* Gaps of the lookback, each with what later candles did to it.               *)

GapMiddles(bars, config, side) ==
    {b \in 2..(Len(bars) - 1) :
        /\ b > Len(bars) - config.lookback
        /\ LET width == IF side = "bullish" THEN bars[b + 1].low - bars[b - 1].high
                                            ELSE bars[b - 1].low - bars[b + 1].high
           IN  width > 0 /\ width >= config.minimum}

Filled(bars, b, side, i) ==
    IF side = "bullish" THEN bars[i].low <= bars[b - 1].high ELSE bars[i].high >= bars[b - 1].low

Entered(bars, b, side, i) ==
    IF side = "bullish" THEN bars[i].low < bars[b + 1].low ELSE bars[i].high > bars[b + 1].high

After(bars, b) == (b + 2)..Len(bars)

TrueGap(bars, b, side) ==
    [side |-> side,
     current_status |->
        IF \E i \in After(bars, b) : Filled(bars, b, side, i) THEN "fully_filled"
        ELSE IF \E i \in After(bars, b) : Entered(bars, b, side, i) THEN "partially_filled"
        ELSE "open"]

TrueGaps(bars, config) ==
    UNION {{TrueGap(bars, b, side) : b \in GapMiddles(bars, config, side)} : side \in Directions}
-------------------------------------------------------------------------------
(* Moves.                                                                      *)

\* The middles of a window: no more than half of it is less, nor greater.
Middles(bars, window) ==
    {TrueRange(bars, k) : k \in {m \in window :
        /\ 2 * Cardinality({j \in window : TrueRange(bars, j) < TrueRange(bars, m)})
             <= Cardinality(window)
        /\ 2 * Cardinality({j \in window : TrueRange(bars, j) > TrueRange(bars, m)})
             <= Cardinality(window)}}

\* The median lies halfway between the least of them and the greatest.
TwiceMedian(bars, window) == Min(Middles(bars, window)) + Max(Middles(bars, window))

\* A move is wide against the candles before it, and its body and its close say
\* where it went.
Moves(bars, config, lookback, direction) ==
    {i \in DOMAIN bars :
        LET bar == bars[i]
            spread == bar.high - bar.low
            usual == TwiceMedian(bars, (i - config.baseline)..(i - 1))
        IN  /\ i > Len(bars) - lookback /\ i > config.baseline /\ spread > 0
            /\ IF direction = "bullish"
                 THEN /\ 100 * (bar.close - bar.open) >= config.body * spread
                      /\ bar.close > bar.open
                      /\ 100 * (bar.close - bar.low) >= config.bullish * spread
                 ELSE /\ 100 * (bar.open - bar.close) >= config.body * spread
                      /\ bar.open > bar.close
                      /\ 100 * (bar.close - bar.low) <= config.bearish * spread
            /\ usual # 0 /\ 200 * TrueRange(bars, i) >= config.expansion * usual}

\* The nearest opposite candle before a move, with the move.
Blocks(bars, profile, direction) ==
    {pair \in (DOMAIN bars) \X Moves(bars, profile.displacement, profile.blocks.lookback, direction) :
        LET Opposite(i) == IF direction = "bullish" THEN bars[i].close < bars[i].open
                                                    ELSE bars[i].close > bars[i].open
        IN  /\ pair[1] < pair[2] /\ pair[1] >= pair[2] - profile.blocks.search
            /\ Opposite(pair[1])
            /\ \A i \in (pair[1] + 1)..(pair[2] - 1) : ~Opposite(i)}

ClosedThrough(bars, profile, direction) ==
    \E pair \in Blocks(bars, profile, direction) : \E i \in (pair[2] + 1)..Len(bars) :
        IF direction = "bullish" THEN bars[i].close < bars[pair[1]].low
                                 ELSE bars[i].close > bars[pair[1]].high
-------------------------------------------------------------------------------
(* Levels.                                                                     *)

\* The swings a candle could be measured against, and those that stand alone.
Known(bars, config, side, i) ==
    {s \in IF side = "high" THEN SwingHighs(bars) ELSE SwingLows(bars) :
        s + 1 < i /\ s >= i - config.lookback}

PriceOf(bar, side) == IF side = "high" THEN bar.high ELSE bar.low

Alone(bars, config, side, i, s) ==
    \A other \in Known(bars, config, side, i) \ {s} :
        Distance(PriceOf(bars[other], side), PriceOf(bars[s], side)) > config.tolerance

\* A candle takes, or only reaches, the price of a swing.
Does(family, bar, side, price, reach, slack) ==
    LET Beyond(x) == IF side = "high" THEN x - price ELSE price - x
        wick == PriceOf(bar, side)
    IN  CASE family = "liquidity_touch" -> Distance(wick, price) <= reach + slack
          [] family = "liquidity_sweep" -> Beyond(wick) > reach /\ Beyond(bar.close) <= reach + slack
          [] OTHER -> Beyond(bar.close) > reach

\* Something was done to a swing that stands alone, and something could have been
\* done to the level of one that does not.
SurelyTaken(family, bars, config) ==
    \E side \in {"high", "low"} : \E i \in DOMAIN bars : \E s \in Known(bars, config, side, i) :
        /\ Alone(bars, config, side, i, s)
        /\ Does(family, bars[i], side, PriceOf(bars[s], side), config.reach, 0)

PossiblyTaken(family, bars, config) ==
    \E side \in {"high", "low"} : \E i \in DOMAIN bars : \E s \in Known(bars, config, side, i) :
        Does(family, bars[i], side, PriceOf(bars[s], side), config.reach, config.tolerance)
-------------------------------------------------------------------------------
(* Claims.                                                                     *)

\* Whether a family's event certainly happened in its configured domain.
Happened(family, bars, profile) ==
    CASE family \in Families.events ->
            profile.liquidity.singles /\ SurelyTaken(family, bars, profile.liquidity)
      [] family = "fvg_created" -> TrueGaps(bars, profile.gaps) # {}
      [] family = "fvg_fully_filled" ->
            \E g \in TrueGaps(bars, profile.gaps) : g.current_status = "fully_filled"
      [] family = "fvg_partial_fill" ->
            \E g \in TrueGaps(bars, profile.gaps) : g.current_status = "partially_filled"
      [] family = "displacement" ->
            \E d \in Directions :
                Moves(bars, profile.displacement, profile.displacement.lookback, d) # {}
      [] family = "order_block_created" -> \E d \in Directions : Blocks(bars, profile, d) # {}
      [] family = "order_block_close_through" -> \E d \in Directions : ClosedThrough(bars, profile, d)
      [] OTHER -> FALSE

\* Whether nothing on the candles could be called such an event.
Impossible(family, bars, profile) ==
    CASE family \in Families.events -> ~PossiblyTaken(family, bars, profile.liquidity)
      [] family \in Families.gaps \ {"fvg_fully_filled"} -> TrueGaps(bars, profile.gaps) = {}
      [] family \in Families.blocks \ {"order_block_close_through"} ->
            ~Happened("order_block_created", bars, profile)
      [] OTHER -> ~Happened(family, bars, profile)

HistoryIsTrue(history, bars, profile) ==
    \A c \in DOMAIN history : \A family \in DOMAIN history[c] :
        /\ history[c][family] = "EVIDENCED" => ~Impossible(family, bars, profile)
        /\ history[c][family] = "ABSENT_IN_SCOPE" => ~Happened(family, bars, profile)

Absent(claims, field) == claims[field].support = "ABSENT_IN_SCOPE"

CurrentIsTrue(claims, bars, profile) ==
    /\ claims.fair_value_gaps.values \subseteq TrueGaps(bars, profile.gaps)
    /\ Absent(claims, "fair_value_gaps") => TrueGaps(bars, profile.gaps) = {}
    /\ Absent(claims, "displacement_events") => ~Happened("displacement", bars, profile)
    /\ \A value \in claims.order_blocks.values : Blocks(bars, profile, value.direction) # {}
    /\ Absent(claims, "order_blocks") => ~Happened("order_block_created", bars, profile)
    /\ Absent(claims, "current_range") =>
          \A high \in SwingHighs(bars), low \in SwingLows(bars) : bars[high].high <= bars[low].low
-------------------------------------------------------------------------------
(* Conditions.                                                                 *)

\* The last two swings of a side, the later one higher.
Rising(bars, side) ==
    LET swings == IF side = "high" THEN SwingHighs(bars) ELSE SwingLows(bars)
    IN  \E a \in swings, b \in swings :
            /\ a < b /\ \A c \in swings : c <= a \/ c = b
            /\ PriceOf(bars[a], side) < PriceOf(bars[b], side)

\* The conditions whose truth is defined here: whether there is a gap, a move or
\* the block of a move that passes the filters, and whether the structure is
\* bullish or is not.
Judged(condition) ==
    \/ condition.target = "fair_value_gaps"
    \/ /\ condition.target \in {"displacement_events", "order_blocks"}
       /\ \A f \in condition.filters : f.field = "direction"
    \/ /\ condition.target = "structure_state"
       /\ condition.reads = "SCALAR" /\ condition.expected = "bullish_structure"

Holds(condition, bars, profile) ==
    LET Filtered(values) == \E v \in values : \A f \in condition.filters :
                               Compared(v[f.field], f.equal, f.expected)
        Directed(directions) == Filtered({[direction |-> d] : d \in directions})
    IN  CASE condition.target = "fair_value_gaps" -> Filtered(TrueGaps(bars, profile.gaps))
          [] condition.target = "displacement_events" ->
                Directed({d \in Directions :
                    Moves(bars, profile.displacement, profile.displacement.lookback, d) # {}})
          [] condition.target = "order_blocks" ->
                Directed({d \in Directions : Blocks(bars, profile, d) # {}})
          [] OTHER -> condition.equal = (Rising(bars, "high") /\ Rising(bars, "low"))

OutcomeIsTrue(condition, outcome, bars, profile) ==
    LET parts == IF condition.reads = "ALL" THEN Range(condition.of) ELSE {condition}
    IN  /\ outcome = "SATISFIED" => \A c \in parts : Judged(c) => Holds(c, bars, profile)
        /\ outcome = "NOT_SATISFIED" => \E c \in parts : Judged(c) => ~Holds(c, bars, profile)
=============================================================================
