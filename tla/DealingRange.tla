----------------------------- MODULE DealingRange -----------------------------
(* structural_dealing_range_intelligence.py: ranges between alternating swings *)
(* of the whole history; premium_discount_intelligence.py: where the last      *)
(* close stands in the latest of them.                                         *)
EXTENDS MarketStructure

\* Swings of both sides in time; a candle that is both counts as a high first.
ConfirmedSwings(candles) ==
    {[type |-> "high", index |-> i, price |-> candles[i].high] : i \in SwingHighs(candles)}
    \cup {[type |-> "low", index |-> i, price |-> candles[i].low] : i \in SwingLows(candles)}

Earlier(a, b) == a.index < b.index \/ (a.index = b.index /\ a.type = "high" /\ b.type = "low")
Between(a, b, set) == {c \in set : Earlier(a, c) /\ Earlier(c, b)}

\* Of swings of one type in a row the most extreme stays, and the latest of
\* equal ones.
Collapse(swings) ==
    LET InARow(a, b) ==
            a.type = b.type /\ \A c \in Between(a, b, swings) \cup Between(b, a, swings) : c.type = a.type
        Outdoes(b, a) == IF a.type = "high" THEN b.price > a.price ELSE b.price < a.price
    IN  {a \in swings : \A b \in swings :
            InARow(a, b) => ~Outdoes(b, a) /\ ~(b.price = a.price /\ Earlier(a, b))}

\* The ranges between neighbours; one without width is dropped.
Ranges(candles) ==
    LET swings == Collapse(ConfirmedSwings(candles))
    IN  {[low |-> Min({pair[1].price, pair[2].price}),
          high |-> Max({pair[1].price, pair[2].price}),
          upward |-> pair[1].type = "low",
          first |-> pair[1].index, second |-> pair[2].index,
          confirmed |-> Max({pair[1].index, pair[2].index}) + 1] :
             pair \in {p \in swings \X swings : /\ Earlier(p[1], p[2]) /\ Between(p[1], p[2], swings) = {}
                                               /\ p[1].price # p[2].price}}

\* The latest ranges, and the one in force.
RetainedRanges(ranges, maximum) ==
    LET at == [r \in ranges |-> r.second]
        retained == LatestOf(ranges, at, maximum)
    IN  [retained |-> retained,
         truncated |-> Max({0, Cardinality(ranges) - maximum}),
         current |-> LatestOf(retained, at, 1)]

\* The place of a price in a range; the middle is compared doubled.
PremiumOf(price, range) ==
    IF price < range.low THEN "below_range"
    ELSE IF 2 * price < range.low + range.high THEN "discount"
    ELSE IF 2 * price = range.low + range.high THEN "equilibrium"
    ELSE IF price <= range.high THEN "premium" ELSE "above_range"

\* The observation speaks of a range confirmed by the observed candle.
PremiumObservation(candles, current) ==
    {[range |-> range, price |-> candles[Len(candles)].close,
      position |-> PremiumOf(candles[Len(candles)].close, range)] :
        range \in {r \in current : r.confirmed <= Len(candles) /\ r.high > r.low}}
=============================================================================
