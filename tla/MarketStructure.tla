--------------------------- MODULE MarketStructure ---------------------------
(* market_structure.py: three-candle swings, the relation of the last two of   *)
(* each side, the structure they make, and the break of the structure that     *)
(* held before the last candle.  Candles are numbered from one.                *)
EXTENDS Integers, Sequences, FiniteSets, FiniteSetsExt

\* The latest n of a set of dated things.  Which of those of one instant are left
\* out is for a digest to say and left open (CHOOSE).
LatestOf(set, at, n) ==
    LET After(x) == {y \in set : at[y] > at[x]}
        With(x) == {y \in set : at[y] = at[x]}
    IN  {x \in set :
            \/ Cardinality(After(x) \cup With(x)) <= n
            \/ /\ Cardinality(After(x)) < n
               /\ x \in CHOOSE some \in kSubset(n - Cardinality(After(x)), With(x)) : TRUE}

SwingHighs(candles) ==
    {i \in 2..(Len(candles) - 1) : /\ candles[i].high > candles[i - 1].high
                                   /\ candles[i].high > candles[i + 1].high}

SwingLows(candles) ==
    {i \in 2..(Len(candles) - 1) : /\ candles[i].low < candles[i - 1].low
                                   /\ candles[i].low < candles[i + 1].low}

Latest(swings) == Max(swings)
BeforeLatest(swings) == Max(swings \ {Max(swings)})

HighRelation(candles, highs) ==
    LET current == candles[Latest(highs)].high
        previous == candles[BeforeLatest(highs)].high
    IN  IF current > previous THEN "HH"
        ELSE IF current < previous THEN "LH" ELSE "UNCLASSIFIED_HIGH"

LowRelation(candles, lows) ==
    LET current == candles[Latest(lows)].low
        previous == candles[BeforeLatest(lows)].low
    IN  IF current > previous THEN "HL"
        ELSE IF current < previous THEN "LL" ELSE "UNCLASSIFIED_LOW"

\* Two confirmed swings of each side or nothing is classified at all.
Structure(candles, highs, lows) ==
    IF Cardinality(highs) < 2 \/ Cardinality(lows) < 2
      THEN [state |-> "unresolved_structure",
            high |-> "UNCLASSIFIED_HIGH", low |-> "UNCLASSIFIED_LOW"]
      ELSE LET high == HighRelation(candles, highs)
               low == LowRelation(candles, lows)
           IN  [state |-> IF high = "HH" /\ low = "HL" THEN "bullish_structure"
                          ELSE IF high = "LH" /\ low = "LL" THEN "bearish_structure"
                          ELSE "unresolved_structure",
                high |-> high, low |-> low]

NoBreak == [candidates |-> {}, confirmed |-> {}, anchor |-> "none"]

\* The last candle against the latest swings of the structure before it: a wick
\* beyond an anchor is a candidate, a close beyond it a confirmation, and the
\* continuation names the broken anchor when both are confirmed.
Break(last, high, low, upward) ==
    LET anchors == [continuation |-> IF upward THEN "swing_high" ELSE "swing_low",
                    reversal |-> IF upward THEN "swing_low" ELSE "swing_high"]
        Pierced(anchor, up, down) ==
            IF anchor = "swing_high" THEN up > high ELSE down < low
        confirmed == {k \in DOMAIN anchors : Pierced(anchors[k], last.close, last.close)}
    IN  [candidates |-> {k \in DOMAIN anchors : Pierced(anchors[k], last.high, last.low)},
         confirmed |-> confirmed,
         anchor |-> CASE "continuation" \in confirmed -> anchors.continuation
                      [] confirmed = {"reversal"} -> anchors.reversal
                      [] OTHER -> "none"]

\* The whole result: the structure of all candles, and the break of the one
\* that stood before the last of them.
MarketStructureOf(candles) ==
    LET highs == SwingHighs(candles)
        lows == SwingLows(candles)
        before == SubSeq(candles, 1, Len(candles) - 1)
        earlierHighs == SwingHighs(before)
        earlierLows == SwingLows(before)
        prior == Structure(before, earlierHighs, earlierLows).state
        structure == Structure(candles, highs, lows)
    IN  [state |-> structure.state, high |-> structure.high, low |-> structure.low,
         swings |-> [high |-> IF highs = {} THEN 0 ELSE Latest(highs),
                     low |-> IF lows = {} THEN 0 ELSE Latest(lows)],
         break |-> IF prior = "unresolved_structure" THEN NoBreak
                   ELSE Break(candles[Len(candles)],
                              candles[Latest(earlierHighs)].high,
                              candles[Latest(earlierLows)].low,
                              prior = "bullish_structure")]
=============================================================================
