---------------------------- MODULE EventChronology ----------------------------
(* causal_factual_event_chronology.py: the dated facts of all timeframes brought *)
(* to one form, each with the instant it was known, and what was covered.        *)
EXTENDS FactualContext

EventCapabilities == {"events", "gaps", "displacement", "blocks", "ranges"}

Families ==
    [events |-> {"liquidity_touch", "liquidity_sweep", "liquidity_close_beyond"},
     gaps |-> {"fvg_created", "fvg_touched", "fvg_partial_fill", "fvg_fully_filled"},
     displacement |-> {"displacement"},
     blocks |-> {"order_block_created", "order_block_wick_touch",
                 "order_block_body_revisit", "order_block_close_through"},
     ranges |-> {"structural_range_created"}]

\* A fact: what happened to what, at which candle, known when all the candles it
\* rests on were complete.
Fact(candles, tf, family, object, candle, needed) ==
    [tf |-> tf, family |-> family, object |-> object, candle |-> candle,
     available |-> Max({Completion(candles[i], tf) : i \in needed \cup {candle}})]

\* An event on a level is known with its candle, and never before its level.
LiquidityFacts(candles, tf, events) ==
    {[tf |-> tf, family |-> e.type, object |-> e.boundary, candle |-> e.candle,
      available |-> Max({Completion(candles[e.candle], tf), e.boundary.available})] :
        e \in events.emitted}

GapFamily(kind) ==
    CASE kind = "touched_event"      -> "fvg_touched"
      [] kind = "partial_fill_event" -> "fvg_partial_fill"
      [] OTHER                       -> "fvg_fully_filled"

GapFacts(candles, tf, gaps) ==
    UNION {LET created == g.gap.middle + 1
           IN  {Fact(candles, tf, "fvg_created", g.gap, created, {})}
               \cup {Fact(candles, tf, GapFamily(i.kind), g.gap, i.candle, {created}) :
                        i \in g.interactions} : g \in gaps.emitted}

DisplacementFacts(candles, tf, displacement) ==
    {Fact(candles, tf, "displacement", [direction |-> d.direction], d.candle, {}) :
        d \in displacement.events}

BlockFacts(candles, tf, blocks) ==
    UNION {LET block == [origin |-> b.origin, direction |-> b.direction, confirmed |-> b.confirmed]
           IN  {Fact(candles, tf, "order_block_created", block, b.confirmed, {b.origin})}
               \cup {Fact(candles, tf, i.kind, block, i.candle, {b.confirmed}) :
                        i \in b.interactions} : b \in blocks.blocks}

RangeFacts(candles, tf, ranges) ==
    {Fact(candles, tf, "structural_range_created", r, r.confirmed, {r.first + 1, r.second + 1}) :
        r \in ranges.retained}

\* Only an envelope that found something contributes.
Normalized(bundle, tf, capability) ==
    LET candles == bundle.source.approved
        results == bundle.results
    IN  IF bundle.envelopes[capability].availability # "AVAILABLE_PRESENT" THEN {}
        ELSE CASE capability = "events"       -> LiquidityFacts(candles, tf, results.events)
               [] capability = "gaps"         -> GapFacts(candles, tf, results.gaps)
               [] capability = "displacement" -> DisplacementFacts(candles, tf, results.displacement)
               [] capability = "blocks"       -> BlockFacts(candles, tf, results.blocks)
               [] OTHER                       -> RangeFacts(candles, tf, results.ranges)

\* Evidence that would make the whole chronology refuse: a fact after its cutoff
\* or before its own candle, or a level that its event could not yet know.
Contradictions(bundle, tf, facts) ==
    LET candles == bundle.source.approved
    IN  {f \in facts :
            \/ candles[f.candle].at > f.available
            \/ f.available > bundle.source.cutoff
            \/ f.family \in Families.events
                 /\ f.available # Completion(candles[f.candle], tf)}
-------------------------------------------------------------------------------
\* What retention left out of an answer.
Truncated(capability, results) ==
    CASE capability = "events" -> results.events.truncated
      [] capability = "blocks" -> results.blocks.truncated + results.blocks.shortened
      [] capability = "ranges" -> results.ranges.truncated
      [] OTHER -> 0

Lookback(capability, profile) ==
    CASE capability = "events"       -> profile.liquidity.lookback
      [] capability = "gaps"         -> profile.gaps.lookback
      [] capability = "displacement" -> profile.displacement.lookback
      [] capability = "blocks"       -> profile.blocks.lookback
      [] OTHER                       -> 0

Coverage(bundle, capability, profile) ==
    LET supplied == Len(bundle.source.approved)
        lookback == Lookback(capability, profile)
    IN  IF ~Successful(bundle.envelopes[capability]) THEN "UNKNOWN_COVERAGE"
        ELSE IF capability = "displacement" /\ bundle.results.displacement.unready > 0
          THEN "UNKNOWN_COVERAGE"
        ELSE IF Truncated(capability, bundle.results) > 0 THEN "TRUNCATED"
        ELSE IF lookback > 0 /\ supplied > lookback THEN "SOURCE_BOUNDED"
        ELSE "FULLY_COVERED"

\* The chronology orders groups of facts known at the same instant, and says
\* nothing of the order within a group.
Groups(facts) ==
    LET instants == SetToSortSeq({f.available : f \in facts}, <)
    IN  [k \in DOMAIN instants |-> {f \in facts : f.available = instants[k]}]

WorstCoverage(coverages) ==
    LET order == <<"FULLY_COVERED", "SOURCE_BOUNDED", "TRUNCATED", "UNKNOWN_COVERAGE">>
    IN  order[Max({1} \cup {k \in DOMAIN order : order[k] \in coverages})]

\* The facts of one timeframe and their coverage, by capability.
TimeframeFacts(bundle, tf, profile) ==
    [facts |-> UNION {Normalized(bundle, tf, c) : c \in EventCapabilities},
     coverage |-> [c \in EventCapabilities |-> Coverage(bundle, c, profile)]]

Chronology(context, bundles, profile) ==
    LET frames == OnTimeframes([tf \in Timeframes |-> TimeframeFacts(bundles[tf], tf, profile)])
        facts == UNION {frames[tf].facts : tf \in Timeframes}
    IN  [frames |-> frames, facts |-> facts, groups |-> Groups(facts),
         coverage |-> WorstCoverage(UNION {{frames[tf].coverage[c] : c \in EventCapabilities} :
                                              tf \in Timeframes}),
         refused |-> \E tf \in Timeframes :
                        Contradictions(bundles[tf], tf, frames[tf].facts) # {},
         state |-> context.state]
=============================================================================
