---------------------------- MODULE TradePaths ----------------------------
(***************************************************************************)
(* The paired comparison of two management variants, against the price     *)
(* paths a minute candle stands for.  A candle does not say in which order *)
(* its prices came; the experiment keeps every alternative and pairs those *)
(* of two variants that can come from one path.                            *)
(***************************************************************************)
EXTENDS TradeManagement, SequencesExt

\* Wrong on purpose: the nearer stop is the higher one for a SHORT too.
HigherIsNearer(x, y) ==
    LET nearer(a, b) == a.stop > b.stop
        skipsNear(a, b) == /\ nearer(a, b)
                           /\ a.order = "TARGET_BEFORE_STOP"
                           /\ b.order = "STOP_BEFORE_TARGET"
    IN  IF "NONE" \in {x.order, y.order} \/ <<x.candle, x.at>> # <<y.candle, y.at>> THEN TRUE
        ELSE IF x.stop = y.stop THEN x.order = y.order
        ELSE ~skipsNear(x, y) /\ ~skipsNear(y, x)

\* Can both alternatives come from one path?  Of two stops on the same candle
\* the one nearer the opening is touched first.
Compatible(x, y) ==
    LET nearer(a, b) == sign * a.stop > sign * b.stop
        skipsNear(a, b) == /\ nearer(a, b)
                           /\ a.order = "TARGET_BEFORE_STOP"
                           /\ b.order = "STOP_BEFORE_TARGET"
    IN  IF "NONE" \in {x.order, y.order} \/ <<x.candle, x.at>> # <<y.candle, y.at>> THEN TRUE
        ELSE IF x.stop = y.stop THEN x.order = y.order
        ELSE ~skipsNear(x, y) /\ ~skipsNear(y, x)

Pairs(v, w) ==
    {p \in replay[v].alternatives \X replay[w].alternatives : Compatible(p[1], p[2])}

-----------------------------------------------------------------------------
(* The paths themselves *)

\* A price path inside a candle, as the order in which it first touches the
\* levels the candle reaches: away from the opening no level can be skipped.
Levels(c) ==
    {l \in {Level(0), Level(1), Level(2), Target} : c.low <= l /\ l <= c.high}

Between(l, a, b) == (a <= l /\ l <= b) \/ (b <= l /\ l <= a)

Paths(c) ==
    {p \in SetToSeqs(Levels(c)) :
        \A i, j \in DOMAIN p : i < j => ~Between(p[j], c.open, p[i])}

\* Where a position with this stop leaves on a path, as mechanism and mark: at an
\* opening beyond a barrier, or at the first barrier met.
ExitOnPath(stage, c, path) ==
    LET met == {i \in DOMAIN path : path[i] \in {Level(stage), Target}}
        first == path[CHOOSE i \in met : \A j \in met : i <= j]
        beyond == (c.open - Level(stage)) * sign <= 0
    IN  IF beyond \/ (c.open - Target) * sign >= 0
        THEN <<IF beyond THEN Mechanisms[stage + 1] ELSE "FINAL_TARGET", c.open>>
        ELSE <<IF first = Target THEN "FINAL_TARGET" ELSE Mechanisms[stage + 1], first>>

Exit(x) == <<x.mechanism, x.mark>>

\* A variant that ends on the same candle as A is paired with it on exactly the
\* outcomes that one and the same price path can give both: no path is left out
\* and no pair is impossible.  A variant paired with itself, too, which makes
\* RESOLVED exact and AMBIGUOUS real.
PairsAreExactlyThePaths ==
    \A v, w \in Variants :
        v \in {"A", w} /\ Ended(v) /\ Ended(w) /\ replay[v].completed = replay[w].completed =>
            LET c == (CHOOSE x \in replay[v].alternatives : TRUE).candle
            IN  {<<Exit(p[1]), Exit(p[2])>> : p \in Pairs(v, w)} =
                {<<ExitOnPath(replay[v].stage, c, p), ExitOnPath(replay[w].stage, c, p)>> :
                    p \in Paths(c)}
=============================================================================
