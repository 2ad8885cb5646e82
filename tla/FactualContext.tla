---------------------------- MODULE FactualContext ----------------------------
(* causal_multi_timeframe_context.py, causal_factual_multi_timeframe_context.py *)
(* and factual_market_context_composition.py: the sources of all timeframes at  *)
(* one instant, the envelopes bound to them, and the relation of each           *)
(* capability on neighbouring timeframes.                                       *)
EXTENDS FactualEnvelope

CONSTANT TimeframeOrder    \* the timeframes, the slowest first

Timeframes == {TimeframeOrder[k] : k \in DOMAIN TimeframeOrder}

\* A function on the timeframes, each value computed once.
OnTimeframes(f) ==
    LET values == SubSeq([k \in DOMAIN TimeframeOrder |-> f[TimeframeOrder[k]]],
                         1, Len(TimeframeOrder))
    IN  [tf \in Timeframes |-> values[CHOOSE k \in DOMAIN TimeframeOrder : TimeframeOrder[k] = tf]]

\* The worst of a set of states decides.
StateOrder == <<"COMPLETE", "INCOMPLETE", "NOT_EVALUATED", "UNAVAILABLE", "INVALID">>

Worst(states) == StateOrder[Max({k \in DOMAIN StateOrder : StateOrder[k] \in states})]

SourceState(source) ==
    CASE source.availability # "AVAILABLE" -> source.availability
      [] source.completion = "UNKNOWN"     -> "UNAVAILABLE"
      [] source.completion = "INCOMPLETE"  -> "INCOMPLETE"
      [] OTHER                             -> "COMPLETE"

Alignment(parent, child) ==
    CASE parent.availability = "INVALID"         -> "PARENT_INVALID"
      [] child.availability = "INVALID" /\ parent.availability # "INVALID" -> "CHILD_INVALID"
      [] OTHER -> IF ~Usable(parent) /\ ~Usable(child) THEN "UNAVAILABLE"
                  ELSE IF ~Usable(parent) THEN "PARENT_UNAVAILABLE"
                  ELSE IF ~Usable(child) THEN "CHILD_UNAVAILABLE" ELSE "ALIGNED"

\* Each timeframe with the next faster one.
Neighbours == {<<TimeframeOrder[k], TimeframeOrder[k + 1]>> : k \in 1..(Len(TimeframeOrder) - 1)}

\* The context of the sources, refused unless all are valid and of one instant.
SourceContextErrors(sources, requested) ==
    {tf \in Timeframes : \/ ~ValidSource(sources[tf])
                         \/ sources[tf].tf # tf
                         \/ sources[tf].requested # requested}

SourceContext(sources, requested) ==
    [requested |-> requested, sources |-> sources,
     state |-> Worst({SourceState(sources[tf]) : tf \in Timeframes}),
     edges |-> [edge \in Neighbours |-> Alignment(sources[edge[1]], sources[edge[2]])]]

ValidSourceContext(context) ==
    /\ context.state = Worst({SourceState(context.sources[tf]) : tf \in Timeframes})
    /\ \A tf \in Timeframes :
          LET source == context.sources[tf]
          IN  /\ source.tf = tf /\ source.requested = context.requested
              /\ IF source.availability = "AVAILABLE" THEN source.cutoff <= context.requested
                 ELSE source.approved = << >> /\ source.cutoff = 0
    /\ \A edge \in Neighbours :
          context.edges[edge] = Alignment(context.sources[edge[1]], context.sources[edge[2]])
-------------------------------------------------------------------------------
TimeframeState(source, availabilities) ==
    LET Is(state) == source.availability = state \/ state \in availabilities
    IN  IF Is("INVALID") THEN "INVALID"
        ELSE IF Is("UNAVAILABLE") THEN "UNAVAILABLE"
        ELSE IF Is("NOT_EVALUATED") THEN "NOT_EVALUATED"
        ELSE IF source.completion # "COMPLETED" THEN "INCOMPLETE" ELSE "COMPLETE"

Availabilities(bundle) == {bundle.envelopes[c].availability : c \in Capabilities}

\* A bundle whose envelopes were made from another source than the slot's is
\* refused, also when it is of the same timeframe.
FactualContextErrors(context, bundles) ==
    {tf \in Timeframes : \E c \in Capabilities :
        \/ bundles[tf].envelopes[c].capability # c
        \/ bundles[tf].envelopes[c].source.requested # context.requested
        \/ ~ValidEnvelope(bundles[tf].envelopes[c], context.sources[tf])}

FactualContext(context, bundles) ==
    LET states == [tf \in Timeframes |->
                     TimeframeState(context.sources[tf], Availabilities(bundles[tf]))]
    IN  [requested |-> context.requested, sources |-> context.sources, states |-> states,
         availability |-> [tf \in Timeframes |->
                             [c \in Capabilities |-> bundles[tf].envelopes[c].availability]],
         state |-> Worst({states[tf] : tf \in Timeframes})]

ValidFactualContext(context) ==
    /\ \A tf \in Timeframes :
          LET source == context.sources[tf]
          IN  /\ source.availability = "AVAILABLE" => source.cutoff <= context.requested
              /\ (source.availability = "AVAILABLE") = (source.approved # << >>)
              /\ context.states[tf] =
                   TimeframeState(source, {context.availability[tf][c] : c \in Capabilities})
    /\ context.state = Worst({context.states[tf] : tf \in Timeframes})
-------------------------------------------------------------------------------
\* How a capability's outcomes on two timeframes compare.
Relationship(parent, child) ==
    LET both == {parent, child}
    IN  CASE "INVALID" \in both -> "INVALID"
          [] "UNAVAILABLE" \in both /\ "INVALID" \notin both -> "UNAVAILABLE"
          [] both = {"AVAILABLE_PRESENT"} -> "PRESENT_ON_BOTH"
          [] both = {"AVAILABLE_ABSENT"} -> "ABSENT_ON_BOTH"
          [] parent = "AVAILABLE_PRESENT" /\ child = "AVAILABLE_ABSENT" -> "PRESENT_ON_PARENT_ONLY"
          [] parent = "AVAILABLE_ABSENT" /\ child = "AVAILABLE_PRESENT" -> "PRESENT_ON_CHILD_ONLY"
          [] OTHER -> "NOT_EVALUATED"

Composition(context) ==
    [edge \in Neighbours |->
        [c \in Capabilities |-> Relationship(context.availability[edge[1]][c],
                                             context.availability[edge[2]][c])]]
=============================================================================
