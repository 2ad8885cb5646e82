--------------------------- MODULE FactualEnvelope ---------------------------
(* causal_factual_intelligence_envelope.py: the detectors run on one causal    *)
(* source, each behind the detectors it depends on, and an envelope saying     *)
(* what came of it.  A detector does not fail on a history that passed         *)
(* validation, so the failure states of an execution do not occur here.        *)
EXTENDS LiquidityEvents, Imbalances, DealingRange

Capabilities ==
    {"structure", "liquidity", "gaps", "displacement", "events", "blocks", "ranges", "premium"}

\* "moves" are the displacements of the order blocks' own lookback.
Dependencies(capability) ==
    CASE capability = "events"  -> <<"liquidity">>
      [] capability = "blocks"  -> <<"moves">>
      [] capability = "ranges"  -> <<"structure">>
      [] capability = "premium" -> <<"structure", "ranges">>
      [] OTHER                  -> << >>

\* A profile is the configuration of every detector.
ProfileErrors(profile) ==
    LiquidityConfigErrors(profile.liquidity) \cup GapConfigErrors(profile.gaps)
      \cup DisplacementConfigErrors(profile.displacement)
      \cup OrderBlockConfigErrors(profile.blocks)
      \cup IF profile.ranges \in 1..1000 THEN {} ELSE {"ranges"}

\* What each detector answers for the approved candles.
Results(candles, profile, tf, history, moves, ranges) ==
    [structure |-> MarketStructureOf(candles),
     liquidity |-> [levels |-> Levels(candles, history, profile.liquidity, tf),
                    interactions |-> history],
     gaps |-> Gaps(candles, profile.gaps),
     displacement |-> Displacements(candles, profile.displacement),
     events |-> Events(candles, history, profile.liquidity, tf),
     moves |-> moves,
     blocks |-> OrderBlocks(candles, moves, profile.blocks),
     ranges |-> ranges,
     premium |-> PremiumObservation(candles, ranges.current)]

ResultsOf(candles, profile, tf) ==
    Results(candles, profile, tf,
            InteractionHistory(candles, profile.liquidity, tf),
            Displacements(candles, [profile.displacement EXCEPT !.lookback = profile.blocks.lookback]),
            RetainedRanges(Ranges(candles), profile.ranges))
-------------------------------------------------------------------------------
Found(rows) == IF rows = {} THEN "AVAILABLE_ABSENT" ELSE "AVAILABLE_PRESENT"

ClassifyStructure(structure) ==
    IF structure.state = "unresolved_structure" THEN "UNAVAILABLE" ELSE "AVAILABLE_PRESENT"

ClassifyLiquidity(liquidity) ==
    IF liquidity.levels = {} /\ liquidity.interactions = {}
      THEN "UNAVAILABLE" ELSE "AVAILABLE_PRESENT"

ClassifyGaps(gaps) ==
    IF gaps.emitted = {} /\ gaps.scanned < 1 THEN "UNAVAILABLE" ELSE Found(gaps.emitted)

\* Finding nothing means nothing while some candles had no baseline.
ClassifyDisplacement(displacement) ==
    IF displacement.events = {} /\ displacement.unready > 0
      THEN "UNAVAILABLE" ELSE Found(displacement.events)

ClassifyRanges(ranges, candles) ==
    IF ranges.current = {} /\ SwingHighs(candles) \cup SwingLows(candles) = {}
      THEN "UNAVAILABLE" ELSE Found(ranges.current)

\* The classification of every detector's own answer.
Classes(candles, results) ==
    [structure |-> ClassifyStructure(results.structure),
     liquidity |-> ClassifyLiquidity(results.liquidity),
     gaps |-> ClassifyGaps(results.gaps),
     displacement |-> ClassifyDisplacement(results.displacement),
     moves |-> ClassifyDisplacement(results.moves),
     events |-> Found(results.events.emitted),
     blocks |-> Found(results.blocks.blocks),
     ranges |-> ClassifyRanges(results.ranges, candles),
     premium |-> Found(results.premium)]
-------------------------------------------------------------------------------
Usable(source) == source.availability = "AVAILABLE" /\ source.completion # "UNKNOWN"

\* An unavailable dependency stops the chain; only the premium observation still
\* runs on ranges that are unavailable, and is then unavailable itself.
Stops(capability, dependency, classes) ==
    /\ classes[dependency] = "UNAVAILABLE"
    /\ ~(capability = "premium" /\ dependency = "ranges")

\* How far the chain of a capability ran.
Progress(capability, source, classes) ==
    LET chain == Dependencies(capability)
        Reached(k) == /\ Usable(source)
                      /\ \A j \in 1..(k - 1) : ~Stops(capability, chain[j], classes)
    IN  [k \in 1..(Len(chain) + 1) |-> IF Reached(k) THEN "COMPLETED" ELSE "NOT_STARTED"]

EnvelopeAvailability(capability, source, progress, classes) ==
    LET chain == Dependencies(capability)
    IN  IF source.availability # "AVAILABLE" THEN source.availability
        ELSE IF source.completion = "UNKNOWN" THEN "UNAVAILABLE"
        ELSE IF progress[Len(chain) + 1] = "NOT_STARTED" THEN "UNAVAILABLE"
        ELSE IF \E k \in DOMAIN chain : classes[chain[k]] = "UNAVAILABLE" THEN "UNAVAILABLE"
        ELSE classes[capability]

\* The envelope: its source, how far it got, what its dependencies said.
Envelope(capability, source, classes) ==
    LET chain == Dependencies(capability)
        progress == Progress(capability, source, classes)
        completed == {k \in DOMAIN chain : progress[k] = "COMPLETED"}
    IN  [capability |-> capability, source |-> source, progress |-> progress,
         dependencies |-> [k \in completed |->
                             [capability |-> chain[k], availability |-> classes[chain[k]],
                              requested |-> source.requested, cutoff |-> source.cutoff]],
         result |-> progress[Len(chain) + 1] = "COMPLETED",
         availability |-> EnvelopeAvailability(capability, source, progress, classes)]

NothingFound == [c \in Capabilities \cup {"moves"} |-> "UNAVAILABLE"]

\* All envelopes of one source, with the answers they carry.
Bundle(source, profile, results) ==
    LET classes == IF Usable(source) THEN Classes(source.approved, results) ELSE NothingFound
    IN  [source |-> source, results |-> results,
         envelopes |-> [c \in Capabilities |-> Envelope(c, source, classes)]]

Successful(envelope) == envelope.availability \in {"AVAILABLE_PRESENT", "AVAILABLE_ABSENT"}

\* Progress only ever stops once, and every record agrees with it.
ValidExecution(envelope, source) ==
    LET chain == Dependencies(envelope.capability)
        last == Len(chain) + 1
    IN  /\ Len(envelope.progress) = last
        /\ \A j \in 1..last, k \in 1..last :
              j < k /\ envelope.progress[j] # "COMPLETED" => envelope.progress[k] = "NOT_STARTED"
        /\ DOMAIN envelope.dependencies = {k \in DOMAIN chain : envelope.progress[k] = "COMPLETED"}
        /\ \A k \in DOMAIN envelope.dependencies :
              LET record == envelope.dependencies[k]
              IN  /\ record.capability = chain[k]
                  /\ record.requested = source.requested /\ record.cutoff = source.cutoff
                  /\ record.availability = "UNAVAILABLE"
                       => \/ envelope.capability = "premium" /\ k = 2
                          \/ \A j \in (k + 1)..last : envelope.progress[j] = "NOT_STARTED"
        /\ envelope.result = (envelope.progress[last] = "COMPLETED")
        /\ Successful(envelope) => envelope.result
        /\ Usable(source) \/ /\ \A k \in 1..last : envelope.progress[k] = "NOT_STARTED"
                             /\ envelope.availability =
                                  IF source.availability = "AVAILABLE" THEN "UNAVAILABLE"
                                  ELSE source.availability

\* An envelope belongs to the very source it is checked against.
ValidEnvelope(envelope, source) ==
    /\ envelope.source = source
    /\ source.availability = "AVAILABLE" => source.cutoff <= source.requested
    /\ ValidExecution(envelope, source)
=============================================================================
