----------------------------- MODULE CandleFeed -----------------------------
(* A market whose candles complete one after the other, and the reports made   *)
(* of them: each evaluation takes the histories delivered at its instant, runs *)
(* every detector on every timeframe and publishes facts, claims and outcomes, *)
(* or refuses.  Histories begin with the market; a slow candle is made of two  *)
(* fast ones.                                                                  *)
EXTENDS MarketSynthesis

CONSTANTS
    Openings,      \* the shapes of the candles completed before the first step
    Shapes,        \* the shapes a further candle may have
    Profiles,      \* configurations of the detectors
    Deliveries,    \* how each timeframe's history may be delivered
    Conditions,    \* the conditions evaluated on every report
    LastCandle,    \* bound: no further candle after this many, or after the last report
    MaxReports     \* bound: no further report after this many

Fast == TimeframeOrder[Len(TimeframeOrder)]

\* The timeframes have an order, and conditions are well formed.
ASSUME FeedAssumption ==
    /\ TimeframeOrder \in Seq(Timeframes) /\ TimeframeOrder # << >>
    /\ \A tf \in Timeframes : Duration[tf] \in {1, 2}
    /\ Duration[Fast] = 1
    /\ \A condition \in Conditions :
          /\ condition.reads = "ALL" => condition.of \in Seq(Range(condition.of))
          /\ ValidCondition(condition)

\* Prices are counted, and a market has a candle on every timeframe from the start.
Shape == [open : Int, high : Int, low : Int, close : Int]
ASSUME MarketAssumption ==
    /\ Shapes \subseteq Shape
    /\ \A prefix \in Openings : prefix \in Seq(Shape) /\ Len(prefix) >= 2

\* Windows, distances and ratios are whole numbers.
ASSUME SettingsAreCounted ==
    \A p \in Profiles :
        /\ {p.liquidity.lookback, p.liquidity.tolerance, p.liquidity.members,
            p.liquidity.reach, p.gaps.lookback, p.gaps.minimum, p.blocks.lookback} \subseteq Int
        /\ p.displacement \in [lookback : Int, baseline : Int, body : Int, expansion : Int,
                               bullish : Int, bearish : Int, sequence : Int]

VARIABLES
    profile,       \* the configuration in use
    candles,       \* the completed candles of the fast timeframe
    log            \* the reports made, refusals included

vars == <<profile, candles, log>>

now == Len(candles)
-------------------------------------------------------------------------------
Candle(shape, at) ==
    [at |-> at, open |-> shape.open, high |-> shape.high, low |-> shape.low,
     close |-> shape.close]

Merged(a, b) == [a EXCEPT !.high = Max({a.high, b.high}), !.low = Min({a.low, b.low}),
                          !.close = b.close]

\* The completed candles of a timeframe.
Closed(tf) ==
    IF Duration[tf] = 1 THEN candles
    ELSE [k \in 1..(now \div 2) |-> Merged(candles[2 * k - 1], candles[2 * k])]

\* The candle still forming: what has been traded of it, or only its first price.
Forming(tf) ==
    LET price == candles[now].close
    IN  IF Duration[tf] = 2 /\ now % 2 = 1 THEN candles[now]
        ELSE Candle([open |-> price, high |-> price, low |-> price, close |-> price], now)

\* A feed delivers what is closed, or more, or less, or something impossible.
Delivered(tf, how) ==
    LET closed == Closed(tf)
    IN  CASE how = "forming"  -> Append(closed, Forming(tf))
          [] how = "late"     -> Front(closed)
          [] how = "repeated" -> Append(closed, Last(closed))
          [] how = "ahead"    -> Append(closed, [Forming(tf) EXCEPT !.at = now + 1])
          [] how = "nothing"  -> << >>
          [] OTHER            -> closed
-------------------------------------------------------------------------------
BundleOf(source, tf) == Bundle(source, profile, ResultsOf(source.approved, profile, tf))

\* What retention and filters kept back, as every answer tells.
KeptBack(results) ==
    [events |-> results.events.truncated + results.events.excluded,
     gaps |-> results.gaps.omitted,
     displacement |-> 0,
     blocks |-> results.blocks.truncated + results.blocks.shortened]

Outcomes(claims) == {<<c, Outcome(claims, c)>> : c \in Conditions}

Issued(how, factual, bundles, chronology, claims) ==
    [status |-> "issued", requested |-> factual.requested, how |-> how,
     sources |-> factual.sources, state |-> factual.state,
     facts |-> [tf \in Timeframes |-> chronology.frames[tf].facts],
     coverage |-> [tf \in Timeframes |-> chronology.frames[tf].coverage],
     keptBack |-> [tf \in Timeframes |-> KeptBack(bundles[tf].results)],
     relations |-> Composition(factual),
     claims |-> claims, outcomes |-> Outcomes(claims.current)]

Refused(how, requested) == [status |-> "refused", requested |-> requested, how |-> how]

\* The stages in turn, each refusing what does not belong together.
Reported(how, context, factual, bundles, chronology) ==
    IF \/ SourceContextErrors(context.sources, context.requested) # {}
       \/ ~ValidSourceContext(context)
       \/ FactualContextErrors(context, bundles) # {}
       \/ ~ValidFactualContext(factual)
       \/ SynthesisErrors(factual, bundles) # {}
       \/ chronology.refused
      THEN Refused(how, context.requested)
      ELSE Issued(how, factual, bundles, chronology, Synthesis(bundles, chronology, profile))

Report(how, context, bundles) ==
    LET factual == FactualContext(context, bundles)
    IN  Reported(how, context, factual, bundles, Chronology(factual, bundles, profile))
-------------------------------------------------------------------------------
Init ==
    /\ profile \in {p \in Profiles : ProfileErrors(p) = {}}
    /\ \E prefix \in Openings :
          candles = [k \in DOMAIN prefix |-> Candle(prefix[k], k - 1)]
    /\ log = << >>

\* A fast candle completes.
Tick ==
    /\ now < LastCandle /\ Len(log) < MaxReports
    /\ \E shape \in Shapes : candles' = Append(candles, Candle(shape, now))
    /\ UNCHANGED <<profile, log>>

\* An evaluation of what is delivered now; on a timeframe whose history is "kept"
\* the envelopes of the report before it are handed in again.
Evaluate ==
    /\ Len(log) < MaxReports
    /\ \E how \in Deliveries :
          LET kept == {tf \in Timeframes : how[tf] = "kept"}
              sources == OnTimeframes([tf \in Timeframes |-> Snapshot(tf, Delivered(tf, how[tf]), now)])
              bundles == OnTimeframes([tf \in Timeframes |->
                            BundleOf(IF tf \in kept THEN log[Len(log)].sources[tf]
                                     ELSE sources[tf], tf)])
          IN  /\ kept # {} => log # << >> /\ log[Len(log)].status = "issued"
              /\ log' = Append(log, Report(how, SourceContext(sources, now), bundles))
    /\ UNCHANGED <<profile, candles>>

Next == Tick \/ Evaluate

Spec == Init /\ [][Next]_vars
=============================================================================
