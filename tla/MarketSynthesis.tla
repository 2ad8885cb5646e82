--------------------------- MODULE MarketSynthesis ---------------------------
(* causal_market_state_synthesis.py: the claims a report makes, each evidenced, *)
(* absent in its scope or unknown; causal_factual_condition_evaluation.py: the  *)
(* outcome of a condition on them.                                             *)
EXTENDS EventChronology

\* An answer counts only from a finished execution that found or missed something.
UsableEnvelope(envelope) == Successful(envelope) /\ envelope.result

\* A claim: the values seen, or why there is none.
Claim(envelope, values, absent) ==
    [support |-> IF UsableEnvelope(envelope) /\ values # {} THEN "EVIDENCED"
                 ELSE IF absent THEN "ABSENT_IN_SCOPE" ELSE "UNKNOWN",
     values |-> IF UsableEnvelope(envelope) THEN values ELSE {}]

\* When an empty answer may be called an absence: the owner classified it so, and
\* nothing was left out, unevaluated or without material.
Absence(field, envelope, results, profile, swings) ==
    /\ UsableEnvelope(envelope) /\ envelope.availability = "AVAILABLE_ABSENT"
    /\ CASE field = "fair_value_gaps" ->
              /\ results.gaps.scanned > 0
              /\ profile.gaps.full /\ results.gaps.omitted = 0
         [] field = "displacement_events" ->
              /\ results.displacement.scanned > results.displacement.unready
              /\ results.displacement.unready = 0
         [] field = "order_blocks" ->
              results.blocks.truncated = 0 /\ results.blocks.shortened = 0
         [] field = "current_range" -> swings # {}
         [] OTHER -> FALSE

\* The fields of the current state, and the capability that answers each.
Owner ==
    [structure_state |-> "structure", latest_high_relationship |-> "structure",
     latest_low_relationship |-> "structure", continuation_break_candidate |-> "structure",
     continuation_break_confirmed |-> "structure", reversal_break_candidate |-> "structure",
     reversal_break_confirmed |-> "structure", liquidity_levels |-> "liquidity",
     fair_value_gaps |-> "gaps", displacement_events |-> "displacement",
     displacement_sequences |-> "displacement", order_blocks |-> "blocks",
     current_range |-> "ranges", observation |-> "premium"]

\* What a field of an answer shows to conditions.
ValuesOf(field, results) ==
    CASE field = "structure_state" -> {results.structure.state}
      [] field = "latest_high_relationship" -> {results.structure.high}
      [] field = "latest_low_relationship" -> {results.structure.low}
      [] field = "continuation_break_candidate" ->
            {"continuation" \in results.structure.break.candidates}
      [] field = "continuation_break_confirmed" ->
            {"continuation" \in results.structure.break.confirmed}
      [] field = "reversal_break_candidate" ->
            {"reversal" \in results.structure.break.candidates}
      [] field = "reversal_break_confirmed" ->
            {"reversal" \in results.structure.break.confirmed}
      [] field = "liquidity_levels" ->
            {[side |-> l.boundary.side, level_type |-> l.boundary.type,
              current_status |-> l.status] : l \in results.liquidity.levels}
      [] field = "fair_value_gaps" ->
            {[side |-> g.gap.side, current_status |-> g.status] : g \in results.gaps.emitted}
      [] field = "displacement_events" ->
            {[direction |-> d.direction] : d \in results.displacement.events}
      [] field = "displacement_sequences" ->
            {[direction |-> s.direction] : s \in results.displacement.sequences}
      [] field = "order_blocks" ->
            {[direction |-> b.direction, current_state |-> b.state] : b \in results.blocks.blocks}
      [] field = "current_range" ->
            {[chronological_order |-> IF r.upward THEN "low_to_high" ELSE "high_to_low"] :
                r \in results.ranges.current}
      [] OTHER -> {[classification |-> o.position] : o \in results.premium}

CurrentClaims(bundle, profile) ==
    LET candles == bundle.source.approved
        swings == SwingHighs(candles) \cup SwingLows(candles)
    IN  [field \in DOMAIN Owner |->
            LET envelope == bundle.envelopes[Owner[field]]
            IN  IF ~UsableEnvelope(envelope) THEN [support |-> "UNKNOWN", values |-> {}]
                ELSE Claim(envelope, ValuesOf(field, bundle.results),
                           Absence(field, envelope, bundle.results, profile, swings))]

\* (mutant) Filters left out of account.
ClearOfRetention(capability, results, profile) == Truncated(capability, results) = 0

\* Whether everything of a capability's history would have been told.
Clear(capability, results, profile) ==
    /\ Truncated(capability, results) = 0
    /\ capability = "events" => profile.liquidity.touches /\ results.events.excluded = 0
    /\ capability = "gaps" => profile.gaps.full /\ results.gaps.omitted = 0

\* The history of a family of events within its configured domain.
HistorySupport(bundle, frame, capability, family, profile) ==
    IF \E f \in frame.facts : f.family = family THEN "EVIDENCED"
    ELSE IF /\ UsableEnvelope(bundle.envelopes[capability])
            /\ frame.coverage[capability] \in {"FULLY_COVERED", "SOURCE_BOUNDED"}
            /\ Clear(capability, bundle.results, profile)
      THEN "ABSENT_IN_SCOPE"
    ELSE "UNKNOWN"

HistoryClaims(bundle, frame, profile) ==
    [capability \in EventCapabilities \ {"ranges"} |->
        [family \in Families[capability] |->
            HistorySupport(bundle, frame, capability, family, profile)]]

\* A relation between neighbours is evidenced when both sides are usable.
AdjacentSupport(bundles, edge, capability) ==
    IF /\ UsableEnvelope(bundles[edge[1]].envelopes[capability])
       /\ UsableEnvelope(bundles[edge[2]].envelopes[capability])
      THEN "EVIDENCED" ELSE "UNKNOWN"

\* The bundle a synthesis is made of belongs together.
SynthesisErrors(context, bundles) ==
    {tf \in Timeframes : \E c \in Capabilities :
        \/ ~ValidEnvelope(bundles[tf].envelopes[c], context.sources[tf])
        \/ bundles[tf].envelopes[c].availability # context.availability[tf][c]}

Synthesis(bundles, chronology, profile) ==
    [current |-> OnTimeframes([tf \in Timeframes |-> CurrentClaims(bundles[tf], profile)]),
     history |-> [tf \in Timeframes |->
                    HistoryClaims(bundles[tf], chronology.frames[tf], profile)],
     adjacent |-> [edge \in Neighbours |->
                    [c \in Capabilities |-> AdjacentSupport(bundles, edge, c)]]]
-------------------------------------------------------------------------------
\* What conditions may name: the field, how it is read, and what may be filtered.
StructureFields ==
    {field \in DOMAIN Owner : Owner[field] = "structure"}

Target(field, reads, projection, filters) ==
    [field |-> field, reads |-> reads, projection |-> projection, filters |-> filters]

OtherTargets ==
    [current_structural_range |-> Target("current_range", {"CLAIM"}, "value", {}),
     current_range_order |->
        Target("current_range", {"SCALAR"}, "chronological_order", {}),
     premium_discount_observation |-> Target("observation", {"CLAIM"}, "value", {}),
     premium_discount_classification |->
        Target("observation", {"SCALAR"}, "classification", {}),
     liquidity_levels |-> Target("liquidity_levels", {"OBJECT"}, "value",
                                 {"side", "level_type", "current_status"}),
     fair_value_gaps |-> Target("fair_value_gaps", {"OBJECT"}, "value",
                                {"side", "current_status"}),
     displacement_events |-> Target("displacement_events", {"OBJECT"}, "value", {"direction"}),
     displacement_sequences |->
        Target("displacement_sequences", {"OBJECT"}, "value", {"direction"}),
     order_blocks |-> Target("order_blocks", {"OBJECT"}, "value",
                             {"direction", "current_state"})]

Targets ==
    [target \in StructureFields \cup DOMAIN OtherTargets |->
        IF target \in StructureFields THEN Target(target, {"SCALAR", "CLAIM"}, "value", {})
        ELSE OtherTargets[target]]

\* An atomic condition reads a target the way the target allows.
ValidAtom(condition) ==
    /\ condition.tf \in Timeframes
    /\ condition.target \in DOMAIN Targets
    /\ condition.reads \in Targets[condition.target].reads
    /\ condition.reads = "OBJECT" =>
          \A f \in condition.filters : f.field \in Targets[condition.target].filters
    /\ condition.reads = "OBJECT" =>
          \A f, g \in condition.filters : f.field = g.field => f = g

\* A conjunction is of one timeframe and is not nested.
ValidCondition(condition) ==
    IF condition.reads # "ALL" THEN ValidAtom(condition)
    ELSE /\ Len(condition.of) \in 1..32
         /\ \A k \in DOMAIN condition.of :
               /\ condition.of[k].reads # "ALL" /\ ValidAtom(condition.of[k])
               /\ condition.of[k].tf = condition.tf

Compared(actual, equal, expected) == (actual = expected) = equal

Matches(condition, value) ==
    LET projection == Targets[condition.target].projection
    IN  CASE condition.reads = "SCALAR" ->
               Compared(IF projection = "value" THEN value ELSE value[projection],
                        condition.equal, condition.expected)
          [] condition.reads = "OBJECT" ->
               \A f \in condition.filters : Compared(value[f.field], f.equal, f.expected)
          [] OTHER -> TRUE

\* A comparison needs a value; an existence is denied only by a stated absence.
AtomOutcome(claims, condition) ==
    LET claim == claims[condition.tf][Targets[condition.target].field]
        matched == \E value \in claim.values : Matches(condition, value)
    IN  IF condition.reads = "SCALAR"
          THEN IF claim.support # "EVIDENCED" THEN "UNKNOWN"
               ELSE IF matched THEN "SATISFIED" ELSE "NOT_SATISFIED"
        ELSE IF matched THEN "SATISFIED"
        ELSE IF claim.support = "ABSENT_IN_SCOPE" THEN "NOT_SATISFIED" ELSE "UNKNOWN"

Outcome(claims, condition) ==
    IF condition.reads # "ALL" THEN AtomOutcome(claims, condition)
    ELSE LET outcomes == {AtomOutcome(claims, condition.of[k]) : k \in DOMAIN condition.of}
         IN  IF "NOT_SATISFIED" \in outcomes THEN "NOT_SATISFIED"
             ELSE IF "UNKNOWN" \in outcomes THEN "UNKNOWN" ELSE "SATISFIED"
=============================================================================
