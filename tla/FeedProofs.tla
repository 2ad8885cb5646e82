---------------------------- MODULE FeedProofs ----------------------------
(***************************************************************************)
(* No report rewrites what an earlier one could know: whatever two reports *)
(* say of a timeframe agrees on what both could know, and a report is      *)
(* refused only when something of another instant was handed in.           *)
(*                                                                         *)
(* The argument has three parts.  What one source makes a report say is    *)
(* what the detectors say of a history (the facts of a timeframe), so two  *)
(* reports agree when one history goes on from the other (two reports      *)
(* agree).  Whatever a feed delivers, an admitted source has read a        *)
(* beginning of what is closed, up to its cutoff (what is delivered).  And *)
(* envelopes made of a source are accepted with that source and no other   *)
(* (what is accepted).  The invariant carries this from report to report;  *)
(* that a candle closed stays closed is what a tick contributes.           *)
(*                                                                         *)
(* And what a report claims is so.  A claim shows nothing but the answer   *)
(* of a detector and calls it an absence only when the answer is empty and *)
(* leaves nothing out, so that the truth of the detectors (DetectorProofs) *)
(* is the truth of the claims, and of the conditions evaluated on them;    *)
(* the invariant says that a report's claims are those of its own bundles. *)
(***************************************************************************)
EXTENDS FeedTruth, DetectorProofs

-----------------------------------------------------------------------------
(* Settings.                                                               *)

\* What a configuration that is accepted guarantees.
Sound(p) ==
  /\ p.liquidity.tolerance \in Nat /\ p.liquidity.maximum \in Nat /\ p.liquidity.lookback \in Int
  /\ p.gaps.lookback \in Int /\ p.gaps.minimum \in Nat
  /\ p.displacement.lookback \in Nat \ {0} /\ p.displacement.baseline \in Nat
  /\ p.blocks.lookback \in Nat \ {0} /\ p.blocks.search \in Nat
  /\ p.blocks.blocks \in Nat /\ p.blocks.interactions \in Nat
  /\ p.displacement \in [lookback : Int, baseline : Int, body : Int, expansion : Int,
                         bullish : Int, bearish : Int, sequence : Int]

\* A profile without errors is sound.
LEMMA AcceptedSettingsAreSound ==
  ASSUME NEW p \in Profiles, ProfileErrors(p) = {}
  PROVE  Sound(p)
<1>1. /\ LiquidityConfigErrors(p.liquidity) = {} /\ GapConfigErrors(p.gaps) = {}
      /\ DisplacementConfigErrors(p.displacement) = {} /\ OrderBlockConfigErrors(p.blocks) = {}
  BY DEF ProfileErrors
<1>2. /\ p.liquidity.lookback \in Int /\ p.liquidity.tolerance \in Int
      /\ p.gaps.lookback \in Int /\ p.gaps.minimum \in Int
      /\ p.displacement.lookback \in Int /\ p.displacement.baseline \in Int
      /\ p.blocks.lookback \in Int
  BY SettingsAreCounted
<1>3. p.liquidity.tolerance \in Nat /\ p.liquidity.maximum \in 1..1000
  <2>1. "tolerance" \notin LiquidityConfigErrors(p.liquidity)
        /\ "maximum" \notin LiquidityConfigErrors(p.liquidity)
    BY <1>1
  <2> QED
    BY <1>2, <2>1 DEF LiquidityConfigErrors
<1>4. p.displacement.lookback >= 1 /\ p.displacement.baseline >= 1
  <2>1. "lookback" \notin DisplacementConfigErrors(p.displacement)
        /\ "baseline" \notin DisplacementConfigErrors(p.displacement)
    BY <1>1
  <2> QED
    BY <1>2, <2>1 DEF DisplacementConfigErrors
<1>5. /\ p.blocks.lookback >= 1 /\ p.blocks.search \in 1..10
      /\ p.blocks.blocks \in 1..1000 /\ p.blocks.interactions \in 1..1000
  <2>1. /\ "lookback" \notin OrderBlockConfigErrors(p.blocks)
        /\ "search" \notin OrderBlockConfigErrors(p.blocks)
        /\ "blocks" \notin OrderBlockConfigErrors(p.blocks)
        /\ "interactions" \notin OrderBlockConfigErrors(p.blocks)
    BY <1>1
  <2> DEFINE wrong(e) == CASE e = "lookback"     -> p.blocks.lookback < 1
                           [] e = "search"       -> p.blocks.search \notin 1..10
                           [] e = "blocks"       -> p.blocks.blocks \notin 1..1000
                           [] e = "interactions" -> p.blocks.interactions \notin 1..1000
  <2>6. OrderBlockConfigErrors(p.blocks) = {e \in {"lookback", "search", "blocks", "interactions"} : wrong(e)}
    BY DEF OrderBlockConfigErrors
  <2>7. ~wrong("lookback") /\ ~wrong("search")
    <3> HIDE DEF wrong
    <3> QED
      BY <2>1, <2>6
  <2>2. ~(p.blocks.lookback < 1)
    BY <2>7
  <2>3. p.blocks.search \in 1..10
    BY <2>7
  <2>4. p.blocks.blocks \in 1..1000
    BY <2>1 DEF OrderBlockConfigErrors
  <2>5. p.blocks.interactions \in 1..1000
    BY <2>1 DEF OrderBlockConfigErrors
  <2> QED
    BY <1>2, <2>2, <2>3, <2>4, <2>5
<1>6. p.gaps.minimum >= 0
  <2>1. "minimum" \notin GapConfigErrors(p.gaps)
    BY <1>1
  <2> QED
    BY <1>2, <2>1 DEF GapConfigErrors
<1> QED
  <2>1. /\ p.liquidity.maximum \in Nat /\ p.blocks.search \in Nat
        /\ p.blocks.blocks \in Nat /\ p.blocks.interactions \in Nat
    <3>1. \A n : n \in 1..10 \/ n \in 1..1000 => n \in Nat
      OBVIOUS
    <3> QED
      BY <1>3, <1>5, <3>1
  <2>2. /\ p.displacement.lookback \in Nat \ {0} /\ p.displacement.baseline \in Nat
        /\ p.blocks.lookback \in Nat \ {0} /\ p.gaps.minimum \in Nat
    BY <1>2, <1>4, <1>5, <1>6
  <2> QED
    BY <1>2, <1>3, <2>1, <2>2, SettingsAreCounted DEF Sound

-----------------------------------------------------------------------------
(* The facts of a timeframe.                                               *)

\* Facts about a block are found again in longer histories that still search it; one
\* of a longer history tells of a block that was told before.
THEOREM BlocksAgree ==
  ASSUME NEW tf, Duration[tf] \in {1, 2}, NEW bars, History(bars, tf),
         NEW longer, History(longer, tf), Continues(longer, bars),
         NEW config, config.search \in Nat, config.interactions \in Nat,
         NEW moving, moving.lookback \in Int, moving.baseline \in Nat
  PROVE  LET earlier == AnswerOn(bars, moving, config)
             later == AnswerOn(longer, moving, config)
         IN  /\ later.truncated + later.shortened = 0 =>
                  \A f \in ToldBlocks(bars, moving, config, tf) :
                     f.object.confirmed > Len(longer) - moving.lookback =>
                        f \in ToldBlocks(longer, moving, config, tf)
             /\ earlier.truncated + earlier.shortened = 0 =>
                  \A f \in ToldBlocks(longer, moving, config, tf) :
                     f.available <= Duration[tf] * Len(bars) =>
                        \E g \in ToldBlocks(bars, moving, config, tf) : SameBlock(f, g)
<1> DEFINE earlier == AnswerOn(bars, moving, config)
           later == AnswerOn(longer, moving, config)
<1>1. /\ bars \in Seq(Bar) /\ longer \in Seq(Bar)
      /\ Len(bars) \in Nat /\ Len(longer) \in Nat /\ Len(bars) <= Len(longer)
  BY DEF History, Continues
<1>2. ASSUME later.truncated + later.shortened = 0,
             NEW f \in ToldBlocks(bars, moving, config, tf),
             f.object.confirmed > Len(longer) - moving.lookback
      PROVE  f \in ToldBlocks(longer, moving, config, tf)
  <2>1. PICK e \in BlockMoves(bars, moving, config) : OfBlock(f, bars, e, config, tf)
    BY BlockFactsAreOfBlocks
  <2>2. e.candle \in 1..Len(bars)
    BY <1>1, MovesAreFinite DEF BlockMoves, Confirmed
  <2>3. BlockDated(f, e, bars, config, tf)
    BY <1>1, <2>1, <2>2, OfBlockIsDated
  <2>4. e.candle > Len(longer) - moving.lookback
    BY <1>2, <2>3 DEF BlockDated
  <2>5. e \in BlockMoves(longer, moving, config) /\ OfBlock(f, longer, e, config, tf)
    BY <1>1, <2>1, <2>4, BlocksAreKept
  <2> QED
    BY <1>2, <2>5, BlockFactsAreOfBlocks
<1>3. ASSUME earlier.truncated + earlier.shortened = 0,
             NEW f \in ToldBlocks(longer, moving, config, tf),
             f.available <= Duration[tf] * Len(bars)
      PROVE  \E g \in ToldBlocks(bars, moving, config, tf) : SameBlock(f, g)
  <2>1. PICK e \in BlockMoves(longer, moving, config) : OfBlock(f, longer, e, config, tf)
    BY BlockFactsAreOfBlocks
  <2>2. e.candle \in 1..Len(longer)
    BY <1>1, MovesAreFinite DEF BlockMoves, Confirmed
  <2>3. BlockDated(f, e, longer, config, tf)
    BY <1>1, <2>1, <2>2, OfBlockIsDated
  <2>4. e.candle <= Len(bars)
    <3>1. f.candle \in Int /\ f.available = Duration[tf] * f.candle /\ e.candle <= f.candle
      BY <2>3 DEF BlockDated
    <3>2. f.candle <= Len(bars)
      BY <1>1, <1>3, <3>1, DatedBefore
    <3> QED
      BY <1>1, <2>2, <3>1, <3>2
  <2>5. PICK first \in BlockMoves(bars, moving, config) :
            /\ first.direction = e.direction
            /\ StartOf(bars, first, config) = StartOf(longer, e, config)
    BY <1>1, <2>1, <2>4, BlocksWereThere
  <2> DEFINE g == CreatedBlock(bars, first, config, tf)
  <2>6. g \in ToldBlocks(bars, moving, config, tf)
    <3>1. OfBlock(g, bars, first, config, tf)
      BY DEF OfBlock
    <3> QED
      BY <1>3, <2>5, <3>1, BlockFactsAreOfBlocks
  <2>7. SameBlock(f, g)
    BY <2>3, <2>5 DEF SameBlock, BlockDated, BlockOf, CreatedBlock, Dated
  <2> QED
    BY <2>6, <2>7
<1> QED
  BY <1>2, <1>3 DEF earlier, later

\* A range is dated by the candle that confirms its second swing.
LEMMA RangesAreConfirmed ==
  ASSUME NEW bars, Len(bars) \in Nat, NEW r \in Ranges(bars)
  PROVE  /\ r.confirmed \in 1..Len(bars)
         /\ r.first + 1 \in 1..r.confirmed /\ r.second + 1 \in 1..r.confirmed
<1> DEFINE swings == Collapse(ConfirmedSwings(bars))
           confirmed(pair) == Max({pair[1].index, pair[2].index}) + 1
<1>1. \A s \in swings : s.index \in 2..(Len(bars) - 1)
  BY DEF Collapse, ConfirmedSwings, SwingHighs, SwingLows
<1>2. PICK pair \in swings \X swings :
        /\ r.first = pair[1].index /\ r.second = pair[2].index
        /\ r.confirmed = confirmed(pair)
  <2> DEFINE range(pair) ==
               [low |-> Min({pair[1].price, pair[2].price}),
                high |-> Max({pair[1].price, pair[2].price}),
                upward |-> pair[1].type = "low",
                first |-> pair[1].index, second |-> pair[2].index,
                confirmed |-> confirmed(pair)]
             pairs == {p \in swings \X swings : /\ Earlier(p[1], p[2]) /\ Between(p[1], p[2], swings) = {}
                                                /\ p[1].price # p[2].price}
  <2>1. Ranges(bars) = {range(pair) : pair \in pairs}
    BY DEF Ranges
  <2>2. \A pair : /\ range(pair).first = pair[1].index /\ range(pair).second = pair[2].index
                  /\ range(pair).confirmed = confirmed(pair)
    OBVIOUS
  <2>3. pairs \subseteq swings \X swings
    OBVIOUS
  <2> HIDE DEF pairs, range, confirmed, swings
  <2>4. PICK pair \in pairs : r = range(pair)
    BY <2>1
  <2> QED
    BY <2>2, <2>3, <2>4
<1> DEFINE i == pair[1].index
           j == pair[2].index
<1>3. i \in 2..(Len(bars) - 1) /\ j \in 2..(Len(bars) - 1)
  BY <1>1, <1>2
<1> HIDE DEF swings
<1>4. confirmed(pair) = Max({i, j}) + 1
  OBVIOUS
<1> HIDE DEF i, j, confirmed
<1> DEFINE later == Max({i, j})
<1>5. later \in {i, j} /\ i <= later /\ j <= later
  <2>1. later \in {i, j} /\ \A b \in Int : later <= b <=> i <= b /\ j <= b
    BY <1>3, BothAtMost
  <2>2. later \in Int
    BY <1>3, <2>1
  <2> HIDE DEF later
  <2> QED
    BY <2>1, <2>2
<1>6. r.confirmed = later + 1
  BY <1>2, <1>4
<1>7. r.first = i /\ r.second = j
  BY <1>2 DEF i, j
<1> HIDE DEF later
<1> QED
  BY <1>3, <1>5, <1>6, <1>7

\* A fact is dated by its candle, which is one of the history.
WellDated(f, bars, tf) ==
  /\ f.tf = tf /\ f.candle \in 1..Len(bars) /\ f.available = Duration[tf] * f.candle

\* The facts about ranges are dated by their candles.
LEMMA RangeFactsAreDated ==
  ASSUME NEW tf, Duration[tf] \in {1, 2}, NEW bars, History(bars, tf),
         NEW ranges, ranges.retained \subseteq Ranges(bars), NEW f \in RangeFacts(bars, tf, ranges)
  PROVE  WellDated(f, bars, tf) /\ f.family = "structural_range_created"
<1>1. Len(bars) \in Nat
  BY DEF History
<1>2. PICK r \in ranges.retained :
        f = Fact(bars, tf, "structural_range_created", r, r.confirmed, {r.first + 1, r.second + 1})
  BY DEF RangeFacts
<1> DEFINE needed == {r.first + 1, r.second + 1}
<1>3. r.confirmed \in 1..Len(bars) /\ \A i \in needed : i \in 1..Len(bars) /\ i <= r.confirmed
  <2>1. /\ r.confirmed \in 1..Len(bars)
        /\ r.first + 1 \in 1..r.confirmed /\ r.second + 1 \in 1..r.confirmed
    BY <1>1, RangesAreConfirmed
  <2>2. \A i \in 1..r.confirmed : i \in 1..Len(bars) /\ i <= r.confirmed
    BY <1>1, <2>1
  <2> QED
    BY <2>1, <2>2
<1> HIDE DEF needed
<1>4. Fact(bars, tf, "structural_range_created", r, r.confirmed, needed)
        = Dated(tf, "structural_range_created", r, r.confirmed)
  BY <1>3, FactIsDated
<1>5. f = Dated(tf, "structural_range_created", r, r.confirmed)
  BY <1>2, <1>4 DEF needed
<1> QED
  BY <1>3, <1>5 DEF Dated, WellDated

\* What an envelope of a usable source says of its capability.
LEMMA LoneEnvelopesAnswer ==
  ASSUME NEW c, Dependencies(c) = << >>, NEW s, Usable(s), NEW classes
  PROVE  Envelope(c, s, classes).availability = classes[c]
<1>1. Len(Dependencies(c)) = 0 /\ DOMAIN Dependencies(c) = {}
  OBVIOUS
<1>2. Progress(c, s, classes)[1] = "COMPLETED"
  BY <1>1 DEF Progress
<1>3. EnvelopeAvailability(c, s, Progress(c, s, classes), classes) = classes[c]
  BY <1>1, <1>2 DEF EnvelopeAvailability, Usable
<1> QED
  BY <1>3 DEF Envelope

\* A detector behind another one answers for itself unless that one is unavailable.
LEMMA DependentEnvelopesAnswer ==
  ASSUME NEW c, c # "premium", NEW d, Dependencies(c) = <<d>>, NEW s, Usable(s), NEW classes
  PROVE  Envelope(c, s, classes).availability
           = IF classes[d] = "UNAVAILABLE" THEN "UNAVAILABLE" ELSE classes[c]
<1> DEFINE chain == Dependencies(c)
           progress == Progress(c, s, classes)
<1>1. Len(chain) = 1 /\ DOMAIN chain = {1} /\ chain[1] = d
  OBVIOUS
<1>2. progress[2] = IF classes[d] = "UNAVAILABLE" THEN "NOT_STARTED" ELSE "COMPLETED"
  <2>1. progress[2] = IF Usable(s) /\ \A j \in 1..1 : ~Stops(c, chain[j], classes)
                        THEN "COMPLETED" ELSE "NOT_STARTED"
    BY <1>1 DEF Progress
  <2>2. \A j \in 1..1 : j = 1
    OBVIOUS
  <2>3. Stops(c, d, classes) <=> classes[d] = "UNAVAILABLE"
    BY DEF Stops
  <2> QED
    BY <1>1, <2>1, <2>2, <2>3
<1>3. EnvelopeAvailability(c, s, progress, classes)
        = IF classes[d] = "UNAVAILABLE" THEN "UNAVAILABLE" ELSE classes[c]
  <2> HIDE DEF progress
  <2> QED
    BY <1>1, <1>2 DEF EnvelopeAvailability, Usable
<1> QED
  BY <1>3 DEF Envelope

\* The facts of a capability are those of its detector: an envelope that hides
\* them has nothing to hide.
FactsOn(bars, p, tf, c) ==
  CASE c = "events"       -> LiquidityFacts(bars, tf, ToldEvents(bars, p.liquidity, tf))
    [] c = "gaps"         -> ToldGaps(bars, p.gaps, tf)
    [] c = "displacement" -> ToldMoves(bars, p.displacement, tf)
    [] c = "blocks"       -> ToldBlocks(bars, Moving(p), p.blocks, tf)

BundleOn(s, p, tf) == Bundle(s, p, ResultsOf(s.approved, p, tf))

\* The answers of the detectors, one by one.
LEMMA ResultsAre ==
  ASSUME NEW bars, NEW p, NEW tf
  PROVE  LET results == ResultsOf(bars, p, tf)
         IN  /\ results.events = ToldEvents(bars, p.liquidity, tf)
             /\ results.gaps = Gaps(bars, p.gaps)
             /\ results.displacement = Displacements(bars, p.displacement)
             /\ results.moves = Displacements(bars, Moving(p))
             /\ results.blocks = AnswerOn(bars, Moving(p), p.blocks)
             /\ results.ranges = RetainedRanges(Ranges(bars), p.ranges)
             /\ results.liquidity.interactions = InteractionHistory(bars, p.liquidity, tf)
BY DEF ResultsOf, Results, ToldEvents, AnswerOn, Moving

\* What an envelope contributes is what its detector says: an answer that is absent or
\* unavailable has no facts.
LEMMA NormalizedIs ==
  ASSUME NEW tf, Duration[tf] \in {1, 2}, NEW p, Sound(p), NEW s, Usable(s), History(s.approved, tf),
         NEW c \in {"events", "gaps", "displacement", "blocks"}
  PROVE  Normalized(BundleOn(s, p, tf), tf, c) = FactsOn(s.approved, p, tf, c)
<1> DEFINE bars == s.approved
           results == ResultsOf(bars, p, tf)
           classes == Classes(bars, results)
           bundle == BundleOn(s, p, tf)
           facts == CASE c = "events"       -> LiquidityFacts(bars, tf, results.events)
                      [] c = "gaps"         -> GapFacts(bars, tf, results.gaps)
                      [] c = "displacement" -> DisplacementFacts(bars, tf, results.displacement)
                      [] c = "blocks"       -> BlockFacts(bars, tf, results.blocks)
           availability == Envelope(c, s, classes).availability
<1>1. bundle.source = s /\ bundle.results = results /\ bundle.envelopes[c] = Envelope(c, s, classes)
  BY DEF BundleOn, Bundle, Capabilities
<1>2. facts = FactsOn(bars, p, tf, c)
  BY ResultsAre DEF FactsOn, ToldGaps, ToldMoves, ToldBlocks
<1>3. Normalized(bundle, tf, c) = IF availability = "AVAILABLE_PRESENT" THEN facts ELSE {}
  <2> HIDE DEF bundle, results, classes
  <2> QED
    BY <1>1 DEF Normalized
<1>4. /\ classes.events = Found(results.events.emitted)
      /\ classes.gaps = ClassifyGaps(results.gaps)
      /\ classes.displacement = ClassifyDisplacement(results.displacement)
      /\ classes.blocks = Found(results.blocks.blocks)
      /\ classes.liquidity = ClassifyLiquidity(results.liquidity)
      /\ classes.moves = ClassifyDisplacement(results.moves)
  BY DEF Classes
<1>5. Sound(p) /\ Moving(p).lookback \in Int
  BY DEF Sound, Moving
<1> HIDE DEF bundle, classes
<1>6. ASSUME availability # "AVAILABLE_PRESENT"
      PROVE  facts = {}
  <2>1. CASE c = "events"
    <3>1. availability = IF classes.liquidity = "UNAVAILABLE" THEN "UNAVAILABLE" ELSE classes.events
      BY <2>1, DependentEnvelopesAnswer DEF Dependencies
    <3>2. results.liquidity.interactions = {} \/ results.events.emitted = {}
      BY <1>4, <1>6, <3>1 DEF Found, ClassifyLiquidity
    <3>3. results.events.emitted = {}
      <4>1. InteractionHistory(bars, p.liquidity, tf) = {} => ToldEvents(bars, p.liquidity, tf).emitted = {}
        BY <1>5, EventFactsAre DEF Sound
      <4> QED
        BY <3>2, <4>1, ResultsAre
    <3> QED
      BY <2>1, <3>3 DEF LiquidityFacts
  <2>2. CASE c = "gaps"
    <3>1. availability = classes.gaps
      BY <2>2, LoneEnvelopesAnswer DEF Dependencies
    <3>2. results.gaps.emitted = {}
      BY <1>4, <1>6, <3>1 DEF Found, ClassifyGaps
    <3> QED
      BY <2>2, <3>2 DEF GapFacts
  <2>3. CASE c = "displacement"
    <3>1. availability = classes.displacement
      BY <2>3, LoneEnvelopesAnswer DEF Dependencies
    <3>2. results.displacement.events = {}
      BY <1>4, <1>6, <3>1 DEF Found, ClassifyDisplacement
    <3> QED
      BY <2>3, <3>2 DEF DisplacementFacts
  <2>4. CASE c = "blocks"
    <3>1. availability = IF classes.moves = "UNAVAILABLE" THEN "UNAVAILABLE" ELSE classes.blocks
      BY <2>4, DependentEnvelopesAnswer DEF Dependencies
    <3>2. results.moves.events = {} \/ results.blocks.blocks = {}
      BY <1>4, <1>6, <3>1 DEF Found, ClassifyDisplacement
    <3>3. results.moves.events = {} => results.blocks.blocks = {}
      <4>1. results.blocks = OrderBlocks(bars, results.moves, p.blocks)
        BY ResultsAre DEF AnswerOn
      <4> QED
        BY <4>1, NoMovesNoBlocks
    <3> QED
      BY <2>4, <3>2, <3>3 DEF BlockFacts
  <2> QED
    BY <2>1, <2>2, <2>3, <2>4
<1> QED
  BY <1>2, <1>3, <1>6 DEF bundle

\* The capabilities whose facts are never redrawn.
Detecting == {"events", "gaps", "displacement", "blocks"}

\* Every fact is dated by its candle and belongs to its capability.
LEMMA FactsAreDated ==
  ASSUME NEW tf, Duration[tf] \in {1, 2}, NEW p, Sound(p), NEW bars, History(bars, tf),
         NEW c \in Detecting, NEW f \in FactsOn(bars, p, tf, c)
  PROVE  WellDated(f, bars, tf) /\ f.family \in Families[c]
<1>1. Len(bars) \in Nat
  BY DEF History
<1>2. CASE c = "events"
  <2>1. f \in LiquidityFacts(bars, tf, ToldEvents(bars, p.liquidity, tf))
    BY <1>2 DEF FactsOn
  <2>2. PICK row \in InteractionHistory(bars, p.liquidity, tf) : f = InteractionFact(row, tf)
    BY <2>1, EventFactsAre DEF Sound
  <2>3. row.candle \in 1..Len(bars)
    BY RowsAreOfLevels DEF History
  <2>4. EventType(row.kind) \in Families.events
    BY DEF EventType, Families
  <2> QED
    BY <1>2, <2>2, <2>3, <2>4 DEF InteractionFact, Dated, WellDated
<1>3. CASE c = "gaps"
  <2>1. f \in ToldGaps(bars, p.gaps, tf)
    BY <1>3 DEF FactsOn
  <2>2. PICK b \in GapsOf(bars, p.gaps) : OfGap(f, bars, b, p.gaps, tf)
    BY <2>1, GapFactsAreOfGaps DEF Sound
  <2>3. b \in 2..(Len(bars) - 1)
    BY DEF GapsOf, GapWindow
  <2>4. GapDated(f, b, bars, tf)
    BY <1>1, <2>2, <2>3, OfGapIsDated
  <2>5. f.candle \in 1..Len(bars)
    BY <1>1, <2>3, <2>4 DEF GapDated
  <2>6. f.tf = tf
    BY <2>2 DEF OfGap, CreatedGap, VisitedGap, Dated
  <2> QED
    BY <1>3, <2>4, <2>5, <2>6 DEF GapDated, WellDated
<1>4. CASE c = "displacement"
  <2>1. f \in ToldMoves(bars, p.displacement, tf)
    BY <1>4 DEF FactsOn
  <2>2. PICK i \in MoveCandles(bars, p.displacement) : f = MoveFact(bars, tf, i)
    BY <2>1, MoveFactsAre DEF Sound
  <2>3. i \in 1..Len(bars)
    BY DEF MoveCandles, Window
  <2> QED
    BY <1>4, <2>2, <2>3 DEF MoveFact, Dated, WellDated, Families
<1>5. CASE c = "blocks"
  <2>1. f \in ToldBlocks(bars, Moving(p), p.blocks, tf)
    BY <1>5 DEF FactsOn
  <2>2. p.blocks.search \in Nat /\ p.blocks.interactions \in Nat /\ Moving(p).lookback \in Int
    BY DEF Sound, Moving
  <2>3. PICK e \in BlockMoves(bars, Moving(p), p.blocks) : OfBlock(f, bars, e, p.blocks, tf)
    BY <2>1, <2>2, BlockFactsAreOfBlocks
  <2>4. e.candle \in 1..Len(bars)
    BY <1>1, MovesAreFinite DEF BlockMoves, Confirmed
  <2>5. BlockDated(f, e, bars, p.blocks, tf)
    BY <1>1, <2>3, <2>4, OfBlockIsDated
  <2>6. f.candle \in 1..Len(bars)
    BY <1>1, <2>4, <2>5 DEF BlockDated
  <2>7. f.tf = tf
    BY <2>3 DEF OfBlock, CreatedBlock, VisitedBlock, Dated
  <2> QED
    BY <1>5, <2>5, <2>6, <2>7 DEF BlockDated, WellDated
<1> QED
  BY <1>2, <1>3, <1>4, <1>5 DEF Detecting

\* The families of different capabilities are different.
LEMMA FamiliesAreApart ==
  ASSUME NEW c \in EventCapabilities, NEW d \in EventCapabilities, NEW family,
         family \in Families[c], family \in Families[d]
  PROVE  c = d
BY DEF EventCapabilities, Families

\* The facts of one timeframe: those of the detectors, and ranges.
FactsOfFrame(s, p, tf) == TimeframeFacts(BundleOn(s, p, tf), tf, p).facts

\* The facts of a frame are those of its detectors, and of ranges.
LEMMA FrameFactsAre ==
  ASSUME NEW tf, Duration[tf] \in {1, 2}, NEW p, Sound(p), NEW s, Usable(s), History(s.approved, tf)
  PROVE  /\ \A c \in Detecting : FactsOn(s.approved, p, tf, c) \subseteq FactsOfFrame(s, p, tf)
         /\ \A f \in FactsOfFrame(s, p, tf) :
               /\ WellDated(f, s.approved, tf)
               /\ f.family \notin Families.ranges => \E c \in Detecting : f \in FactsOn(s.approved, p, tf, c)
<1> DEFINE bundle == BundleOn(s, p, tf)
           told(c) == Normalized(bundle, tf, c)
<1>1. FactsOfFrame(s, p, tf) = UNION {told(c) : c \in EventCapabilities}
  BY DEF FactsOfFrame, TimeframeFacts
<1>2. \A c \in Detecting : told(c) = FactsOn(s.approved, p, tf, c)
  BY NormalizedIs DEF Detecting
<1>3. ASSUME NEW f \in told("ranges")
      PROVE  WellDated(f, s.approved, tf) /\ f.family \in Families.ranges
  <2> DEFINE results == ResultsOf(s.approved, p, tf)
  <2>1. f \in RangeFacts(s.approved, tf, results.ranges)
    BY <1>3 DEF Normalized, BundleOn, Bundle
  <2>2. results.ranges.retained \subseteq Ranges(s.approved)
    <3>1. results.ranges = RetainedRanges(Ranges(s.approved), p.ranges)
      BY ResultsAre
    <3> QED
      BY <3>1, LatestAreMembers DEF RetainedRanges
  <2> HIDE DEF results
  <2>3. WellDated(f, s.approved, tf) /\ f.family = "structural_range_created"
    BY <2>1, <2>2, RangeFactsAreDated
  <2> QED
    BY <2>3 DEF Families
<1>4. EventCapabilities = Detecting \cup {"ranges"}
  BY DEF EventCapabilities, Detecting
<1> HIDE DEF told
<1>5. \A c \in Detecting : \A f \in told(c) : WellDated(f, s.approved, tf)
  BY <1>2, FactsAreDated
<1> QED
  BY <1>1, <1>2, <1>3, <1>4, <1>5

-----------------------------------------------------------------------------
(* Two reports agree.                                                      *)

\* What a report says of a timeframe it could read.
Says(report, tf) ==
  LET s == report.sources[tf]
  IN  /\ History(s.approved, tf)
      /\ s.cutoff = Duration[tf] * Len(s.approved)
      /\ report.facts[tf] = FactsOfFrame(s, profile, tf)
      /\ report.keptBack[tf] = KeptBack(ResultsOf(s.approved, profile, tf))

\* What a report says was kept back, capability by capability.
LEMMA KeptBackIs ==
  ASSUME NEW tf, NEW report, Says(report, tf)
  PROVE  LET bars == Reads(report, tf)
             events == ToldEvents(bars, profile.liquidity, tf)
             blocks == AnswerOn(bars, Moving(profile), profile.blocks)
         IN  /\ report.keptBack[tf].events = events.truncated + events.excluded
             /\ report.keptBack[tf].gaps = Gaps(bars, profile.gaps).omitted
             /\ report.keptBack[tf].blocks = blocks.truncated + blocks.shortened
<1> DEFINE bars == Reads(report, tf)
<1>1. report.keptBack[tf] = KeptBack(ResultsOf(bars, profile, tf))
  BY DEF Says, Reads
<1> HIDE DEF bars
<1> QED
  BY <1>1, ResultsAre DEF KeptBack, bars

\* A fact belongs to one capability only.
LEMMA OwnersAreUnique ==
  ASSUME NEW c \in Detecting, NEW f, f.family \in Families[c]
  PROVE  /\ CapabilityOf(f) = c
         /\ \A d \in EventCapabilities : f.family \in Families[d] => d = c
<1>1. c \in EventCapabilities
  BY DEF EventCapabilities, Detecting
<1>2. \A d \in EventCapabilities : f.family \in Families[d] => d = c
  BY <1>1, FamiliesAreApart
<1> QED
  BY <1>1, <1>2 DEF CapabilityOf

\* What an earlier report told is told again while the later one still covers it.
LEMMA ToldAgain ==
  ASSUME NEW tf \in Timeframes, Duration[tf] \in {1, 2}, Sound(profile),
         NEW a, NEW b, Usable(a.sources[tf]), Usable(b.sources[tf]), Says(a, tf), Says(b, tf),
         Continues(Reads(b, tf), Reads(a, tf)),
         NEW f \in Lasting(a, tf), StillTold(f, b, tf)
  PROVE  f \in b.facts[tf]
<1> DEFINE bars == Reads(a, tf)
           longer == Reads(b, tf)
<1>1. /\ History(bars, tf) /\ History(longer, tf) /\ Continues(longer, bars)
      /\ a.facts[tf] = FactsOfFrame(a.sources[tf], profile, tf)
      /\ b.facts[tf] = FactsOfFrame(b.sources[tf], profile, tf)
      /\ a.sources[tf].approved = bars /\ b.sources[tf].approved = longer
  BY DEF Says, Reads
<1> HIDE DEF bars, longer
<1>2. PICK c \in Detecting : f \in FactsOn(bars, profile, tf, c)
  BY <1>1, FrameFactsAre DEF Lasting
<1>3. f.family \in Families[c]
  BY <1>1, <1>2, FactsAreDated
<1>4. /\ c # "events" => f.family \notin Families.events
      /\ c # "gaps" => f.family \notin Families.gaps
      /\ c # "displacement" => f.family \notin Families.displacement
  BY <1>3, OwnersAreUnique DEF EventCapabilities
<1>5. f \in FactsOn(longer, profile, tf, c)
  <2>1. CASE c = "events"
    <3>1. ToldEvents(longer, profile.liquidity, tf).truncated + ToldEvents(longer, profile.liquidity, tf).excluded = 0
      <4>1. b.keptBack[tf].events = 0
        BY <1>3, <1>4, <2>1 DEF StillTold
      <4> QED
        BY <4>1, KeptBackIs DEF longer
    <3>2. profile.liquidity.tolerance \in Nat /\ profile.liquidity.maximum \in Nat
      BY DEF Sound
    <3> QED
      BY <1>1, <1>2, <2>1, <3>1, <3>2, EventsAgree DEF FactsOn
  <2>2. CASE c = "gaps"
    <3>1. f.object.middle > Len(longer) - profile.gaps.lookback /\ b.keptBack[tf].gaps = 0
      BY <1>3, <1>4, <2>2 DEF StillTold, InLookback, longer
    <3>2. Gaps(longer, profile.gaps).omitted = 0
      BY <3>1, KeptBackIs DEF longer
    <3>3. profile.gaps.lookback \in Int
      BY DEF Sound
    <3> QED
      BY <1>1, <1>2, <2>2, <3>1, <3>2, <3>3, GapsAgree DEF FactsOn
  <2>3. CASE c = "displacement"
    <3>1. f.candle > Len(longer) - profile.displacement.lookback
      BY <1>3, <1>4, <2>3 DEF StillTold, InLookback, longer
    <3>2. profile.displacement.lookback \in Int /\ profile.displacement.baseline \in Nat
      BY DEF Sound
    <3> QED
      BY <1>1, <1>2, <2>3, <3>1, <3>2, MovesAgree DEF FactsOn
  <2>4. CASE c = "blocks"
    <3>1. f.object.confirmed > Len(longer) - profile.blocks.lookback /\ b.keptBack[tf].blocks = 0
      BY <1>3, <1>4, <2>4 DEF StillTold, InLookback, longer
    <3>2. AnswerOn(longer, Moving(profile), profile.blocks).truncated
            + AnswerOn(longer, Moving(profile), profile.blocks).shortened = 0
      BY <3>1, KeptBackIs DEF longer
    <3>3. /\ profile.blocks.search \in Nat /\ profile.blocks.interactions \in Nat
          /\ Moving(profile).lookback = profile.blocks.lookback
          /\ Moving(profile).lookback \in Int /\ Moving(profile).baseline \in Nat
      BY DEF Sound, Moving
    <3> QED
      BY <1>1, <1>2, <2>4, <3>1, <3>2, <3>3, BlocksAgree DEF FactsOn
  <2> QED
    BY <2>1, <2>2, <2>3, <2>4 DEF Detecting
<1> QED
  BY <1>1, <1>5, FrameFactsAre

\* What a later report dates before the cutoff of an earlier one was told by that
\* one already, or is about a block that was.
LEMMA ToldBefore ==
  ASSUME NEW tf \in Timeframes, Duration[tf] \in {1, 2}, Sound(profile),
         NEW a, NEW b, Usable(a.sources[tf]), Usable(b.sources[tf]), Says(a, tf), Says(b, tf),
         Continues(Reads(b, tf), Reads(a, tf)),
         NEW f \in Lasting(b, tf), f.available <= a.sources[tf].cutoff,
         a.keptBack[tf][CapabilityOf(f)] = 0
  PROVE  IF f.family \in Families.blocks
           THEN \E g \in a.facts[tf] : g.family \in Families.blocks /\ SameBlock(f, g)
           ELSE f \in a.facts[tf]
<1> DEFINE bars == Reads(a, tf)
           longer == Reads(b, tf)
<1>1. /\ History(bars, tf) /\ History(longer, tf) /\ Continues(longer, bars)
      /\ a.facts[tf] = FactsOfFrame(a.sources[tf], profile, tf)
      /\ b.facts[tf] = FactsOfFrame(b.sources[tf], profile, tf)
      /\ a.sources[tf].approved = bars /\ b.sources[tf].approved = longer
      /\ f.available <= Duration[tf] * Len(bars)
  BY DEF Says, Reads
<1> HIDE DEF bars, longer
<1>2. PICK c \in Detecting : f \in FactsOn(longer, profile, tf, c)
  BY <1>1, FrameFactsAre DEF Lasting
<1>3. f.family \in Families[c]
  BY <1>1, <1>2, FactsAreDated
<1>4. /\ CapabilityOf(f) = c
      /\ c # "blocks" => f.family \notin Families.blocks
  BY <1>3, OwnersAreUnique DEF EventCapabilities
<1>5. CASE c = "events"
  <2>1. ToldEvents(bars, profile.liquidity, tf).truncated + ToldEvents(bars, profile.liquidity, tf).excluded = 0
    BY <1>4, <1>5, KeptBackIs DEF bars
  <2>2. profile.liquidity.tolerance \in Nat /\ profile.liquidity.maximum \in Nat
    BY DEF Sound
  <2>3. f \in FactsOn(bars, profile, tf, c)
    BY <1>1, <1>2, <1>5, <2>1, <2>2, EventsAgree DEF FactsOn
  <2> QED
    BY <1>1, <1>4, <1>5, <2>3, FrameFactsAre
<1>6. CASE c = "gaps"
  <2>1. Gaps(bars, profile.gaps).omitted = 0
    BY <1>4, <1>6, KeptBackIs DEF bars
  <2>2. profile.gaps.lookback \in Int
    BY DEF Sound
  <2>3. f \in FactsOn(bars, profile, tf, c)
    BY <1>1, <1>2, <1>6, <2>1, <2>2, GapsAgree DEF FactsOn
  <2> QED
    BY <1>1, <1>4, <1>6, <2>3, FrameFactsAre
<1>7. CASE c = "displacement"
  <2>1. profile.displacement.lookback \in Int /\ profile.displacement.baseline \in Nat
    BY DEF Sound
  <2>2. f \in FactsOn(bars, profile, tf, c)
    BY <1>1, <1>2, <1>7, <2>1, MovesAgree DEF FactsOn
  <2> QED
    BY <1>1, <1>4, <1>7, <2>2, FrameFactsAre
<1>8. CASE c = "blocks"
  <2>1. AnswerOn(bars, Moving(profile), profile.blocks).truncated
          + AnswerOn(bars, Moving(profile), profile.blocks).shortened = 0
    BY <1>4, <1>8, KeptBackIs DEF bars
  <2>2. /\ profile.blocks.search \in Nat /\ profile.blocks.interactions \in Nat
        /\ Moving(profile).lookback \in Int /\ Moving(profile).baseline \in Nat
    BY DEF Sound, Moving
  <2>3. PICK g \in FactsOn(bars, profile, tf, c) : SameBlock(f, g)
    BY <1>1, <1>2, <1>8, <2>1, <2>2, BlocksAgree DEF FactsOn
  <2>4. g.family \in Families.blocks
    BY <1>1, <1>8, <2>3, FactsAreDated
  <2>5. g \in a.facts[tf]
    BY <1>1, <2>3, FrameFactsAre
  <2> QED
    BY <1>3, <1>8, <2>3, <2>4, <2>5
<1> QED
  BY <1>5, <1>6, <1>7, <1>8 DEF Detecting

\* Two reports on one market agree.
LEMMA ReportsAgree ==
  ASSUME NEW tf \in Timeframes, Duration[tf] \in {1, 2}, Sound(profile),
         NEW a, NEW b, Usable(a.sources[tf]), Usable(b.sources[tf]), Says(a, tf), Says(b, tf),
         Continues(Reads(b, tf), Reads(a, tf))
  PROVE  Agree(a, b, tf)
BY ToldAgain, ToldBefore DEF Agree

-----------------------------------------------------------------------------
(* What is delivered.                                                      *)

\* A value that is computed once is the value.
LEMMA TabulatedIs ==
  ASSUME NEW f, NEW tf \in Timeframes
  PROVE  OnTimeframes(f)[tf] = f[tf]
<1> DEFINE n == Len(TimeframeOrder)
           table == [k \in DOMAIN TimeframeOrder |-> f[TimeframeOrder[k]]]
           values == SubSeq(table, 1, n)
           k == CHOOSE k \in DOMAIN TimeframeOrder : TimeframeOrder[k] = tf
<1>1. n \in Nat /\ DOMAIN TimeframeOrder = 1..n
  BY FeedAssumption
<1>2. k \in 1..n /\ TimeframeOrder[k] = tf
  <2>1. \E x \in DOMAIN TimeframeOrder : TimeframeOrder[x] = tf
    BY DEF Timeframes
  <2> QED
    BY <1>1, <2>1
<1>3. OnTimeframes(f)[tf] = values[k]
  BY DEF OnTimeframes
<1>4. values[k] = table[k]
  <2>1. table \in Seq({f[TimeframeOrder[x]] : x \in 1..n}) /\ Len(table) = n
    BY <1>1
  <2> HIDE DEF table, k
  <2> QED
    BY <1>1, <1>2, <2>1
<1> QED
  BY <1>1, <1>2, <1>3, <1>4

\* A valid history is in the order of time.
LEMMA ValidHistoriesAreOrdered ==
  ASSUME NEW bars \in Seq(Bar), ValidHistory(bars),
         NEW i \in 1..Len(bars), NEW j \in 1..Len(bars), i <= j
  PROVE  bars[i].at <= bars[j].at
<1> DEFINE wrong == {k \in i..Len(bars) : bars[k].at < bars[i].at}
<1>1. Len(bars) \in Nat /\ \A k \in 1..Len(bars) : bars[k].at \in Int
  <2>1. Len(bars) \in Nat /\ \A k \in 1..Len(bars) : bars[k] \in Bar
    OBVIOUS
  <2>2. \A bar \in Bar : bar.at \in Int
    BY DEF Bar
  <2> QED
    BY <2>1, <2>2
<1>2. ASSUME wrong # {}
      PROVE  FALSE
  <2>1. wrong \subseteq Nat
    BY <1>1
  <2> HIDE DEF wrong
  <2>2. PICK k \in wrong : \A x \in wrong : k <= x
    BY <1>2, <2>1, LeastIndex
  <2>3. k \in i..Len(bars) /\ k \in Int /\ bars[k].at < bars[i].at
    BY <1>1, <2>2 DEF wrong
  <2>4. k # i
    BY <1>1, <2>3
  <2>5. k - 1 \in i..Len(bars) /\ k - 1 \notin wrong
    BY <2>1, <2>2, <2>3, <2>4
  <2>6. ~(bars[k - 1].at < bars[i].at)
    BY <2>5 DEF wrong
  <2>7. bars[k - 1].at < bars[k].at
    <3>1. k \in 2..Len(bars)
      BY <1>1, <2>3, <2>4
    <3> QED
      BY <3>1 DEF ValidHistory
  <2>8. bars[k - 1].at \in Int /\ bars[k].at \in Int /\ bars[i].at \in Int
    <3>1. k - 1 \in 1..Len(bars) /\ k \in 1..Len(bars)
      BY <1>1, <2>3, <2>5
    <3> QED
      BY <1>1, <3>1
  <2> QED
    BY <2>3, <2>6, <2>7, <2>8
<1>3. j \in i..Len(bars)
  OBVIOUS
<1>4. ~(bars[j].at < bars[i].at)
  BY <1>2, <1>3
<1> QED
  BY <1>1, <1>4

\* The complete candles, and the last of them.
CompleteOf(bars, tf, requested) == {i \in DOMAIN bars : Completion(bars[i], tf) <= requested}
ApprovedOf(bars, tf, requested) == Max({0} \cup CompleteOf(bars, tf, requested))

\* What is complete of a valid history is its beginning.
LEMMA TheBeginningIsComplete ==
  ASSUME NEW tf, Duration[tf] \in {1, 2}, NEW bars \in Seq(Bar), NEW requested \in Int
  PROVE  /\ ApprovedOf(bars, tf, requested) \in 0..Len(bars)
         /\ ApprovedOf(bars, tf, requested) # 0 =>
              ApprovedOf(bars, tf, requested) \in CompleteOf(bars, tf, requested)
         /\ \A i \in 1..Len(bars) : Completion(bars[i], tf) <= requested => i <= ApprovedOf(bars, tf, requested)
         /\ ValidHistory(bars) =>
              \A i \in 1..ApprovedOf(bars, tf, requested) : Completion(bars[i], tf) <= requested
<1> DEFINE complete == CompleteOf(bars, tf, requested)
           some == {0} \cup complete
           m == Max(some)
<1>1. Len(bars) \in Nat /\ DOMAIN bars = 1..Len(bars)
      /\ \A k \in 1..Len(bars) : bars[k].at \in Int /\ Completion(bars[k], tf) \in Int
  <2>1. \A k \in 1..Len(bars) : bars[k] \in Bar
    OBVIOUS
  <2>2. \A k \in 1..Len(bars) : bars[k].at \in Int
    BY <2>1 DEF Bar
  <2> QED
    BY <2>2 DEF Completion
<1>2. some \subseteq Int /\ some # {} /\ \A y \in some : y <= Len(bars) /\ y >= 0
  BY <1>1 DEF CompleteOf
<1>3. ApprovedOf(bars, tf, requested) = m
  BY DEF ApprovedOf
<1> HIDE DEF some
<1>4. m \in some /\ \A y \in some : y <= m
  <2>1. \A y \in some : y <= Len(bars)
    BY <1>2
  <2>2. Len(bars) \in Int
    BY <1>1
  <2> QED
    BY <1>2, <2>1, <2>2, GreatestIndex
<1> HIDE DEF m
<1>5. m \in 0..Len(bars) /\ (m # 0 => m \in complete)
  BY <1>1, <1>2, <1>4 DEF some
<1>6. \A i \in 1..Len(bars) : Completion(bars[i], tf) <= requested => i <= m
  BY <1>1, <1>4 DEF some, CompleteOf
<1>7. ASSUME ValidHistory(bars), NEW i \in 1..m
      PROVE  Completion(bars[i], tf) <= requested
  <2>1. m \in 1..Len(bars) /\ i \in 1..Len(bars) /\ i <= m /\ m # 0
    BY <1>1, <1>5
  <2>2. Completion(bars[m], tf) <= requested
    BY <1>5, <2>1 DEF CompleteOf
  <2>3. bars[i].at <= bars[m].at
    BY <1>7, <2>1, ValidHistoriesAreOrdered
  <2>4. Completion(bars[i], tf) <= Completion(bars[m], tf)
    BY <1>1, <2>1, <2>3 DEF Completion
  <2> QED
    BY <1>1, <2>1, <2>2, <2>4
<1> QED
  BY <1>3, <1>5, <1>6, <1>7

\* What an available source holds of what was delivered.
LastCompletion(bars, tf) == Max({Completion(bars[i], tf) : i \in DOMAIN bars})
FormingOf(bars, tf, requested) == DOMAIN bars \ CompleteOf(bars, tf, requested)
Reading(s, bars, tf, requested) ==
  /\ ValidHistory(bars)
  /\ \A i \in DOMAIN bars : ~(bars[i].at > requested)
  /\ s.approved = SubSeq(bars, 1, ApprovedOf(bars, tf, requested)) /\ s.approved # << >>
  /\ s.cutoff = LastCompletion(s.approved, tf)
  /\ s.supplied = Len(bars)
  /\ s.incomplete = Cardinality(FormingOf(bars, tf, requested))
  /\ s.completion = IF s.incomplete > 0 THEN "INCOMPLETE" ELSE "COMPLETED"

\* A source that is available holds the complete beginning of what was delivered.
LEMMA SnapshotIs ==
  ASSUME NEW tf, NEW bars, NEW requested
  PROVE  LET s == Snapshot(tf, bars, requested)
         IN  /\ s.tf = tf /\ s.requested = requested
             /\ s.availability \in {"AVAILABLE", "UNAVAILABLE", "INVALID"}
             /\ s.availability # "AVAILABLE" => s.approved = << >> /\ s.cutoff = 0
             /\ s.availability = "AVAILABLE" => Reading(s, bars, tf, requested)
<1> DEFINE future == {i \in DOMAIN bars : bars[i].at > requested}
           approved == SubSeq(bars, 1, ApprovedOf(bars, tf, requested))
           incomplete == Cardinality((DOMAIN bars \ future) \ CompleteOf(bars, tf, requested))
           read == [tf |-> tf, requested |-> requested, availability |-> "AVAILABLE",
                    completion |-> IF incomplete > 0 THEN "INCOMPLETE" ELSE "COMPLETED",
                    approved |-> approved, cutoff |-> LastCompletion(approved, tf),
                    supplied |-> Len(bars), incomplete |-> incomplete]
           s == Snapshot(tf, bars, requested)
<1>1. s = IF ~ValidHistory(bars) \/ future # {}
            THEN Rejected(tf, requested, "INVALID", "UNKNOWN", Len(bars), incomplete)
          ELSE IF approved = << >>
            THEN Rejected(tf, requested, "UNAVAILABLE",
                          IF incomplete > 0 THEN "INCOMPLETE" ELSE "UNKNOWN",
                          Len(bars), incomplete)
          ELSE read
  BY DEF Snapshot, CompleteOf, ApprovedOf, LastCompletion
<1>2. CASE ~ValidHistory(bars) \/ future # {}
  <2>1. s = Rejected(tf, requested, "INVALID", "UNKNOWN", Len(bars), incomplete)
    BY <1>1, <1>2
  <2> HIDE DEF s, incomplete
  <2> QED
    BY <2>1 DEF Rejected, s
<1>3. CASE ValidHistory(bars) /\ future = {} /\ approved = << >>
  <2>1. s = Rejected(tf, requested, "UNAVAILABLE",
                     IF incomplete > 0 THEN "INCOMPLETE" ELSE "UNKNOWN", Len(bars), incomplete)
    BY <1>1, <1>3
  <2> HIDE DEF s, incomplete
  <2> QED
    BY <2>1 DEF Rejected, s
<1>4. CASE ValidHistory(bars) /\ future = {} /\ approved # << >>
  <2>1. s = read
    BY <1>1, <1>4
  <2>2. \A i \in DOMAIN bars : ~(bars[i].at > requested)
    BY <1>4
  <2>3. incomplete = Cardinality(FormingOf(bars, tf, requested))
    <3>1. (DOMAIN bars \ future) \ CompleteOf(bars, tf, requested) = FormingOf(bars, tf, requested)
      BY <1>4 DEF FormingOf
    <3> QED
      BY <3>1
  <2> HIDE DEF s, incomplete, approved
  <2>4. Reading(s, bars, tf, requested) /\ s.tf = tf /\ s.requested = requested /\ s.availability = "AVAILABLE"
    BY <1>4, <2>1, <2>2, <2>3 DEF Reading, approved
  <2> QED
    BY <2>4 DEF s
<1> QED
  BY <1>2, <1>3, <1>4

\* Every source that a snapshot makes is valid.
LEMMA SnapshotsAreValid ==
  ASSUME NEW tf, Duration[tf] \in {1, 2}, NEW bars \in Seq(Bar), NEW requested \in Int
  PROVE  LET s == Snapshot(tf, bars, requested)
         IN  /\ ValidSource(s)
             /\ s.availability = "AVAILABLE" => s.cutoff <= requested
             /\ (Usable(s) <=> s.availability = "AVAILABLE")
             /\ (s.availability = "AVAILABLE" <=> s.approved # << >>)
<1> DEFINE s == Snapshot(tf, bars, requested)
           m == ApprovedOf(bars, tf, requested)
<1>1. /\ s.tf = tf /\ s.requested = requested
      /\ s.availability # "AVAILABLE" => s.approved = << >> /\ s.cutoff = 0
      /\ s.availability = "AVAILABLE" => Reading(s, bars, tf, requested)
  BY SnapshotIs
<1>2. /\ m \in 0..Len(bars)
      /\ \A i \in 1..Len(bars) : Completion(bars[i], tf) <= requested => i <= m
      /\ ValidHistory(bars) => \A i \in 1..m : Completion(bars[i], tf) <= requested
  BY TheBeginningIsComplete
<1> HIDE DEF s, m
<1>3. ASSUME s.availability = "AVAILABLE"
      PROVE  /\ ValidHistory(s.approved) /\ s.approved # << >>
             /\ s.cutoff = LastCompletion(s.approved, tf) /\ s.cutoff <= requested
             /\ s.supplied = Len(s.approved) + s.incomplete
             /\ s.completion = IF s.incomplete > 0 THEN "INCOMPLETE" ELSE "COMPLETED"
  <2>1. Reading(s, bars, tf, requested)
    BY <1>1, <1>3
  <2>2. Len(bars) \in Nat /\ DOMAIN bars = 1..Len(bars) /\ m \in Nat
    BY <1>2
  <2>7. \A i \in 1..m : Completion(bars[i], tf) <= requested
    <3>1. ValidHistory(bars)
      BY <2>1 DEF Reading
    <3> QED
      BY <1>2, <3>1
  <2>3. /\ s.approved \in Seq(Bar) /\ Len(s.approved) = m /\ DOMAIN s.approved = 1..m
        /\ \A i \in 1..m : s.approved[i] = bars[i]
    BY <1>2, <2>1 DEF Reading, m
  <2>4. ValidHistory(s.approved)
    <3>1. \A i \in 1..m : PossiblePrices(bars[i])
      BY <1>2, <2>1, <2>2 DEF Reading, ValidHistory
    <3>2. \A i \in 2..m : i - 1 \in 1..m /\ i \in 1..m /\ bars[i - 1].at < bars[i].at
      BY <1>2, <2>1, <2>2 DEF Reading, ValidHistory
    <3> QED
      BY <2>3, <3>1, <3>2 DEF ValidHistory
  <2>5. s.cutoff = LastCompletion(s.approved, tf) /\ s.cutoff <= requested
    <3> DEFINE done == {Completion(s.approved[i], tf) : i \in DOMAIN s.approved}
    <3>1. m # 0
      BY <2>1, <2>3 DEF Reading
    <3>2. \A i \in 1..m : Completion(s.approved[i], tf) <= requested
      BY <2>3, <2>7
    <3>3. \A i \in 1..m : Completion(s.approved[i], tf) \in Int
      <4>1. \A i \in 1..m : s.approved[i] \in Bar
        BY <2>3
      <4>2. \A bar \in Bar : Completion(bar, tf) \in Int
        BY DEF Bar, Completion
      <4> QED
        BY <4>1, <4>2
    <3>4. done \subseteq Int /\ done # {} /\ \A y \in done : y <= requested
      <4>1. 1 \in 1..m
        BY <2>2, <3>1
      <4> QED
        BY <2>3, <3>2, <3>3, <4>1
    <3>5. s.cutoff = LastCompletion(s.approved, tf) /\ LastCompletion(s.approved, tf) = Max(done)
      BY <2>1 DEF Reading, LastCompletion
    <3> HIDE DEF done
    <3>6. Max(done) \in done
      BY <3>4, GreatestIndex
    <3> QED
      BY <3>4, <3>5, <3>6
  <2>6. s.supplied = Len(s.approved) + s.incomplete
    <3>1. FormingOf(bars, tf, requested) = (m + 1)..Len(bars)
      <4>1. \A i \in 1..Len(bars) : Completion(bars[i], tf) <= requested <=> i <= m
        BY <1>2, <2>2, <2>7
      <4> QED
        BY <2>2, <4>1 DEF FormingOf, CompleteOf
    <3>2. Cardinality((m + 1)..Len(bars)) = Len(bars) - m
      <4>1. m + 1 \in Int /\ Len(bars) \in Int /\ m <= Len(bars)
        BY <1>2, <2>2
      <4>2. Cardinality((m + 1)..Len(bars)) = IF m + 1 > Len(bars) THEN 0 ELSE Len(bars) - (m + 1) + 1
        BY <4>1, FS_Interval
      <4> QED
        BY <2>2, <4>1, <4>2
    <3> QED
      BY <2>1, <2>2, <2>3, <3>1, <3>2 DEF Reading
  <2> QED
    BY <2>1, <2>4, <2>5, <2>6 DEF Reading
<1>4. CASE s.availability # "AVAILABLE"
  BY <1>1, <1>4 DEF ValidSource, Usable, s
<1>5. CASE s.availability = "AVAILABLE"
  <2>1. s.completion = "INCOMPLETE" \/ s.completion = "COMPLETED"
    BY <1>3, <1>5
  <2>2. ValidSource(s)
    BY <1>1, <1>3, <1>5 DEF ValidSource, LastCompletion
  <2> QED
    BY <1>3, <1>5, <2>1, <2>2 DEF Usable, s
<1> QED
  BY <1>4, <1>5

\* The market from its beginning, and what of it is closed on a timeframe.
Market(bars) ==
  /\ bars \in Seq(Bar) /\ Len(bars) >= 2
  /\ \A k \in 1..Len(bars) : bars[k].at = k - 1
ClosedOf(bars, tf) ==
  IF Duration[tf] = 1 THEN bars
  ELSE [k \in 1..(Len(bars) \div 2) |-> Merged(bars[2 * k - 1], bars[2 * k])]

\* Two candles merged are a candle, of the time of the first.
LEMMA MergedIs ==
  ASSUME NEW a \in Bar, NEW b \in Bar
  PROVE  Merged(a, b) \in Bar /\ Merged(a, b).at = a.at
<1> DEFINE top == Max({a.high, b.high})
           bottom == Min({a.low, b.low})
<1>1. a.high \in Int /\ b.high \in Int /\ a.low \in Int /\ b.low \in Int /\ b.close \in Int
  BY DEF Bar
<1>2. top \in Int
  BY <1>1, BothAtMost
<1>3. bottom \in Int
  <2>1. bottom \in {a.low, b.low}
    <3>1. \E x \in {a.low, b.low} : \A y \in {a.low, b.low} : x <= y
      BY <1>1
    <3> QED
      BY <3>1 DEF Min
  <2> QED
    BY <1>1, <2>1
<1>4. Merged(a, b) = [a EXCEPT !.high = top, !.low = bottom, !.close = b.close]
  BY DEF Merged
<1> HIDE DEF top, bottom
<1> QED
  BY <1>1, <1>2, <1>3, <1>4 DEF Bar

\* What is closed on a timeframe is a history.
LEMMA ClosedIsHistory ==
  ASSUME NEW tf, Duration[tf] \in {1, 2}, NEW bars, Market(bars)
  PROVE  /\ History(ClosedOf(bars, tf), tf)
         /\ Len(ClosedOf(bars, tf)) \in Nat /\ Len(ClosedOf(bars, tf)) >= 1
         /\ Len(ClosedOf(bars, tf)) = Len(bars) \div Duration[tf]
<1>1. bars \in Seq(Bar) /\ Len(bars) \in Nat /\ Len(bars) >= 2
      /\ \A k \in 1..Len(bars) : bars[k] \in Bar /\ bars[k].at = k - 1
  BY DEF Market
<1>2. CASE Duration[tf] = 1
  BY <1>1, <1>2 DEF ClosedOf, History
<1>3. CASE Duration[tf] = 2
  <2> DEFINE n == Len(bars) \div 2
             closed == ClosedOf(bars, tf)
  <2>1. n \in Nat /\ n >= 1 /\ \A k \in 1..n : 2 * k - 1 \in 1..Len(bars) /\ 2 * k \in 1..Len(bars)
    BY <1>1
  <2>2. closed = [k \in 1..n |-> Merged(bars[2 * k - 1], bars[2 * k])]
    BY <1>3 DEF ClosedOf
  <2>3. \A k \in 1..n : /\ Merged(bars[2 * k - 1], bars[2 * k]) \in Bar
                        /\ Merged(bars[2 * k - 1], bars[2 * k]).at = 2 * k - 1 - 1
    BY <1>1, <2>1, MergedIs
  <2> HIDE DEF n, closed
  <2>4. closed \in Seq(Bar) /\ Len(closed) = n
    BY <2>1, <2>2, <2>3
  <2>5. \A k \in 1..n : closed[k].at = 2 * (k - 1)
    BY <2>2, <2>3
  <2> QED
    BY <1>3, <2>1, <2>4, <2>5 DEF History, closed, n
<1> QED
  BY <1>2, <1>3

\* What is closed stays closed.
LEMMA ClosedGoesOn ==
  ASSUME NEW tf, Duration[tf] \in {1, 2}, NEW bars, Market(bars), NEW longer, Market(longer),
         Continues(longer, bars)
  PROVE  Continues(ClosedOf(longer, tf), ClosedOf(bars, tf))
<1>1. /\ Len(bars) \in Nat /\ Len(longer) \in Nat /\ Len(bars) <= Len(longer)
      /\ \A i \in 1..Len(bars) : longer[i] = bars[i]
  BY DEF Market, Continues
<1>2. CASE Duration[tf] = 1
  BY <1>2 DEF ClosedOf
<1>3. CASE Duration[tf] = 2
  <2>1. /\ ClosedOf(bars, tf) = [k \in 1..(Len(bars) \div 2) |-> Merged(bars[2 * k - 1], bars[2 * k])]
        /\ ClosedOf(longer, tf) = [k \in 1..(Len(longer) \div 2) |-> Merged(longer[2 * k - 1], longer[2 * k])]
    BY <1>3 DEF ClosedOf
  <2>2. /\ Len(ClosedOf(bars, tf)) = Len(bars) \div 2
        /\ Len(ClosedOf(longer, tf)) = Len(longer) \div 2
    BY <1>3, ClosedIsHistory
  <2>3. Len(bars) \div 2 <= Len(longer) \div 2
    BY <1>1
  <2>4. \A k \in 1..(Len(bars) \div 2) :
          /\ k \in 1..(Len(longer) \div 2)
          /\ longer[2 * k - 1] = bars[2 * k - 1] /\ longer[2 * k] = bars[2 * k]
    BY <1>1
  <2> QED
    BY <2>1, <2>2, <2>3, <2>4 DEF Continues
<1> QED
  BY <1>2, <1>3

\* What is delivered begins with what is closed and goes on with what is not
\* complete, or is no history of the present.
Begins(bars, closed, tf, requested) ==
  \A i \in 1..Len(bars) :
    /\ i <= Len(closed) => bars[i] = closed[i]
    /\ i > Len(closed) => ~(Completion(bars[i], tf) <= requested)
OfNoPresent(bars, requested) == ~ValidHistory(bars) \/ \E i \in DOMAIN bars : bars[i].at > requested

\* The candle still forming is a candle, and not complete.
LEMMA FormingIsNotComplete ==
  ASSUME NEW tf, Duration[tf] \in {1, 2}, Market(candles)
  PROVE  /\ Forming(tf) \in Bar
         /\ ~(Completion(Forming(tf), tf) <= now)
         /\ [Forming(tf) EXCEPT !.at = now + 1] \in Bar
         /\ [Forming(tf) EXCEPT !.at = now + 1].at = now + 1
<1>1. now \in Nat /\ now >= 2 /\ candles[now] \in Bar /\ candles[now].at = now - 1
  BY DEF Market, now
<1> DEFINE price == candles[now].close
           fresh == Candle([open |-> price, high |-> price, low |-> price, close |-> price], now)
<1>2. price \in Int
  BY <1>1 DEF Bar
<1>3. fresh \in Bar /\ fresh.at = now
  BY <1>1, <1>2 DEF Candle, Bar
<1>4. Forming(tf) = IF Duration[tf] = 2 /\ now % 2 = 1 THEN candles[now] ELSE fresh
  BY DEF Forming
<1> HIDE DEF fresh
<1>5. Forming(tf) \in Bar /\ ~(Completion(Forming(tf), tf) <= now)
  BY <1>1, <1>3, <1>4 DEF Completion
<1>6. \A bar \in Bar : [bar EXCEPT !.at = now + 1] \in Bar /\ [bar EXCEPT !.at = now + 1].at = now + 1
  BY <1>1 DEF Bar
<1> QED
  BY <1>5, <1>6

\* However a history is delivered, it begins with what is closed or is of no present.
LEMMA DeliveredIs ==
  ASSUME NEW tf, Duration[tf] \in {1, 2}, Market(candles), NEW how
  PROVE  /\ Delivered(tf, how) \in Seq(Bar)
         /\ Begins(Delivered(tf, how), Closed(tf), tf, now) \/ OfNoPresent(Delivered(tf, how), now)
<1> DEFINE closed == Closed(tf)
           forming == Forming(tf)
           early == [Forming(tf) EXCEPT !.at = now + 1]
<1>1. closed = ClosedOf(candles, tf)
  BY DEF Closed, ClosedOf, now
<1>2. closed \in Seq(Bar) /\ Len(closed) \in Nat /\ Len(closed) >= 1
  BY <1>1, ClosedIsHistory DEF History
<1>3. forming \in Bar /\ ~(Completion(forming, tf) <= now) /\ early \in Bar /\ early.at = now + 1
  BY FormingIsNotComplete
<1>4. now \in Nat
  BY DEF now, Market
<1>5. Delivered(tf, how) = CASE how = "forming"  -> Append(closed, forming)
                             [] how = "late"     -> Front(closed)
                             [] how = "repeated" -> Append(closed, Last(closed))
                             [] how = "ahead"    -> Append(closed, early)
                             [] how = "nothing"  -> << >>
                             [] OTHER            -> closed
  BY DEF Delivered
<1> HIDE DEF closed, forming, early
<1>6. CASE how = "forming"
  <2> DEFINE bars == Append(closed, forming)
  <2>1. Delivered(tf, how) = bars
    BY <1>5, <1>6
  <2>2. /\ bars \in Seq(Bar) /\ Len(bars) = Len(closed) + 1
        /\ \A i \in 1..Len(closed) : bars[i] = closed[i]
        /\ bars[Len(closed) + 1] = forming
    BY <1>2, <1>3
  <2> HIDE DEF bars
  <2>3. Begins(bars, closed, tf, now)
    <3>1. \A i \in 1..Len(bars) : i \in 1..Len(closed) \/ i = Len(closed) + 1
      BY <1>2, <2>2
    <3>2. ~(Len(closed) + 1 <= Len(closed))
      BY <1>2
    <3>3. \A i \in 1..Len(closed) : ~(i > Len(closed))
      BY <1>2
    <3> QED
      BY <1>3, <2>2, <3>1, <3>2, <3>3 DEF Begins
  <2> QED
    BY <2>1, <2>2, <2>3 DEF closed
<1>7. CASE how = "late"
  <2> DEFINE m == Len(closed) - 1
             bars == SubSeq(closed, 1, m)
  <2>1. Delivered(tf, how) = bars
    BY <1>5, <1>7 DEF Front
  <2>2. m \in Nat /\ m <= Len(closed)
    BY <1>2
  <2> HIDE DEF m
  <2>3. /\ bars \in Seq(Bar) /\ Len(bars) = m
        /\ \A i \in 1..m : bars[i] = closed[i]
    BY <1>2, <2>2
  <2> HIDE DEF bars
  <2>4. Begins(bars, closed, tf, now)
    BY <1>2, <2>2, <2>3 DEF Begins
  <2> QED
    BY <2>1, <2>3, <2>4 DEF closed
<1>8. CASE how = "repeated"
  <2> DEFINE n == Len(closed)
             bars == Append(closed, closed[n])
  <2>1. Delivered(tf, how) = bars
    BY <1>5, <1>8 DEF Last
  <2>2. /\ bars \in Seq(Bar) /\ Len(bars) = n + 1
        /\ bars[n] = closed[n] /\ bars[n + 1] = closed[n]
    BY <1>2
  <2>3. closed[n].at \in Int
    <3>1. closed[n] \in Bar
      BY <1>2
    <3> QED
      BY <3>1 DEF Bar
  <2> HIDE DEF bars
  <2>4. ~ValidHistory(bars)
    <3>1. n + 1 \in 2..Len(bars) /\ n + 1 - 1 = n
      BY <1>2, <2>2
    <3>2. ValidHistory(bars) => bars[n].at < bars[n + 1].at
      BY <3>1 DEF ValidHistory
    <3> QED
      BY <2>2, <2>3, <3>2
  <2> QED
    BY <2>1, <2>2, <2>4 DEF OfNoPresent
<1>9. CASE how = "ahead"
  <2> DEFINE bars == Append(closed, early)
  <2>1. Delivered(tf, how) = bars
    BY <1>5, <1>9
  <2>2. bars \in Seq(Bar) /\ Len(closed) + 1 \in DOMAIN bars /\ bars[Len(closed) + 1] = early
    BY <1>2, <1>3
  <2> HIDE DEF bars
  <2>3. early.at > now
    BY <1>3, <1>4
  <2> QED
    BY <2>1, <2>2, <2>3 DEF OfNoPresent
<1>10. CASE how = "nothing"
  <2>1. Delivered(tf, how) = << >>
    BY <1>5, <1>10
  <2> QED
    BY <2>1 DEF Begins
<1>11. CASE how \notin {"forming", "late", "repeated", "ahead", "nothing"}
  <2>1. Delivered(tf, how) = closed
    BY <1>5, <1>11
  <2>2. Begins(closed, closed, tf, now)
    BY <1>2 DEF Begins
  <2> QED
    BY <1>2, <2>1, <2>2 DEF closed
<1> QED
  BY <1>6, <1>7, <1>8, <1>9, <1>10, <1>11

\* An admitted source has read a beginning of what is closed, up to its cutoff.
LEMMA SnapshotReads ==
  ASSUME NEW tf, Duration[tf] \in {1, 2}, Market(candles), NEW how,
         Usable(Snapshot(tf, Delivered(tf, how), now))
  PROVE  LET s == Snapshot(tf, Delivered(tf, how), now)
         IN  /\ History(s.approved, tf)
             /\ Continues(Closed(tf), s.approved)
             /\ s.cutoff = Duration[tf] * Len(s.approved)
<1> DEFINE bars == Delivered(tf, how)
           closed == Closed(tf)
           s == Snapshot(tf, bars, now)
           m == ApprovedOf(bars, tf, now)
<1>1. bars \in Seq(Bar) /\ (Begins(bars, closed, tf, now) \/ OfNoPresent(bars, now))
  BY DeliveredIs
<1>2. now \in Int
  BY DEF now, Market
<1>3. Reading(s, bars, tf, now)
  BY SnapshotIs DEF Usable
<1>4. History(closed, tf) /\ Len(closed) \in Nat
  <2>1. closed = ClosedOf(candles, tf)
    BY DEF Closed, ClosedOf, now
  <2> QED
    BY <2>1, ClosedIsHistory
<1> HIDE DEF bars, closed, s
<1>5. /\ m \in 0..Len(bars)
      /\ m # 0 => m \in CompleteOf(bars, tf, now)
      /\ ValidHistory(bars) => \A i \in 1..m : Completion(bars[i], tf) <= now
  BY <1>1, <1>2, TheBeginningIsComplete
<1> HIDE DEF m
<1>6. /\ s.approved \in Seq(Bar) /\ Len(s.approved) = m /\ m \in Nat /\ m # 0 /\ m <= Len(bars)
      /\ \A i \in 1..m : s.approved[i] = bars[i]
  <2>1. Len(bars) \in Nat
    BY <1>1
  <2>2. s.approved = SubSeq(bars, 1, m) /\ s.approved # << >>
    BY <1>3 DEF Reading, m
  <2>3. /\ SubSeq(bars, 1, m) \in Seq(Bar) /\ Len(SubSeq(bars, 1, m)) = m
        /\ \A i \in 1..m : SubSeq(bars, 1, m)[i] = bars[i]
    BY <1>1, <1>5
  <2>4. m # 0
    BY <1>1, <2>2, <2>3
  <2> QED
    BY <1>5, <2>1, <2>2, <2>3, <2>4
<1>7. Begins(bars, closed, tf, now)
  BY <1>1, <1>3 DEF Reading, OfNoPresent
<1>8. m <= Len(closed)
  <2>1. m \in 1..Len(bars) /\ Completion(bars[m], tf) <= now
    BY <1>1, <1>5, <1>6 DEF CompleteOf
  <2> QED
    BY <1>4, <1>6, <1>7, <2>1 DEF Begins
<1>9. \A i \in 1..m : s.approved[i] = closed[i]
  BY <1>1, <1>4, <1>6, <1>7, <1>8 DEF Begins
<1>10. History(s.approved, tf)
  <2>1. \A i \in 1..m : closed[i].at = Duration[tf] * (i - 1)
    BY <1>4, <1>6, <1>8 DEF History
  <2> QED
    BY <1>6, <1>9, <2>1 DEF History
<1>11. Continues(closed, s.approved)
  BY <1>6, <1>8, <1>9 DEF Continues
<1>12. s.cutoff = Duration[tf] * Len(s.approved)
  <2> DEFINE done == {Completion(s.approved[i], tf) : i \in DOMAIN s.approved}
  <2>1. s.cutoff = Max(done)
    BY <1>3 DEF Reading, LastCompletion
  <2>2. DOMAIN s.approved = 1..m /\ m \in 1..m
    BY <1>6
  <2>3. \A i \in 1..m : Completion(s.approved[i], tf) = Duration[tf] * i
    BY <1>6, <1>10, CompletedAt
  <2>4. Duration[tf] * m \in Int /\ Duration[tf] * m \in done
    BY <2>2, <2>3
  <2>5. \A y \in done : y \in Int /\ y <= Duration[tf] * m
    <3>1. ASSUME NEW i \in 1..m
          PROVE  Duration[tf] * i \in Int /\ Duration[tf] * i <= Duration[tf] * m
      <4>1. i \in Int /\ m \in Int /\ i <= m
        BY <1>6
      <4>2. Duration[tf] * i <= Duration[tf] * m
        BY <4>1, CompletedInTurn
      <4> QED
        BY <4>1, <4>2
    <3> QED
      BY <2>2, <2>3, <3>1
  <2> HIDE DEF done
  <2>6. done \subseteq Int
    BY <2>5
  <2>7. Max(done) = Duration[tf] * m
    BY <2>4, <2>5, <2>6, MaxIs
  <2> QED
    BY <1>6, <2>1, <2>7
<1> QED
  BY <1>10, <1>11, <1>12 DEF s, closed, bars

-----------------------------------------------------------------------------
(* What is accepted.                                                       *)

\* What envelopes ask of their source.
Source(s) ==
  /\ s.availability \in {"AVAILABLE", "UNAVAILABLE", "INVALID"}
  /\ s.availability = "AVAILABLE" => s.cutoff <= s.requested

\* An envelope records its own execution truly.
LEMMA EnvelopeIsValid ==
  ASSUME NEW c \in Capabilities, NEW s, Source(s), NEW classes
  PROVE  LET e == Envelope(c, s, classes)
         IN  ValidEnvelope(e, s) /\ e.capability = c /\ e.source = s
<1> DEFINE chain == Dependencies(c)
           last == Len(chain) + 1
           progress == Progress(c, s, classes)
           completed == {k \in DOMAIN chain : progress[k] = "COMPLETED"}
           e == Envelope(c, s, classes)
           Reached(k) == Usable(s) /\ \A j \in 1..(k - 1) : ~Stops(c, chain[j], classes)
<1>1. Len(chain) \in Nat /\ DOMAIN chain = 1..Len(chain)
  <2>1. \/ chain = << >>
        \/ \E d \in {"liquidity", "moves", "structure"} : chain = <<d>>
        \/ chain = <<"structure", "ranges">>
    BY DEF Dependencies, Capabilities
  <2>2. CASE \E d \in {"liquidity", "moves", "structure"} : chain = <<d>>
    BY <2>2
  <2> QED
    BY <2>1, <2>2
<1>2. /\ e.capability = c /\ e.source = s /\ e.progress = progress
      /\ e.result = (progress[last] = "COMPLETED")
      /\ e.availability = EnvelopeAvailability(c, s, progress, classes)
      /\ e.dependencies = [k \in completed |->
                             [capability |-> chain[k], availability |-> classes[chain[k]],
                              requested |-> s.requested, cutoff |-> s.cutoff]]
  BY DEF Envelope
<1>3. progress = [k \in 1..last |-> IF Reached(k) THEN "COMPLETED" ELSE "NOT_STARTED"]
  BY DEF Progress
<1> HIDE DEF e, progress, chain
<1>4. Len(progress) = last /\ last \in Nat /\ \A k \in DOMAIN chain : k \in 1..last
  BY <1>1, <1>3
<1>5. \A k \in 1..last : progress[k] = (IF Reached(k) THEN "COMPLETED" ELSE "NOT_STARTED")
  BY <1>3
<1>6. \A j \in 1..last, k \in 1..last : j < k /\ ~Reached(j) => ~Reached(k)
  BY <1>1
<1>7. \A k \in completed : \A j \in (k + 1)..last :
        Stops(c, chain[k], classes) => progress[j] = "NOT_STARTED"
  <2>1. ASSUME NEW k \in completed, NEW j \in (k + 1)..last, Stops(c, chain[k], classes)
        PROVE  ~Reached(j) /\ j \in 1..last
    <3>1. k \in 1..(j - 1) /\ j \in 1..last
      BY <1>1
    <3> QED
      BY <2>1, <3>1
  <2> QED
    BY <1>5, <2>1
<1>8. /\ DOMAIN e.dependencies = completed
      /\ \A k \in completed :
           /\ e.dependencies[k].capability = chain[k]
           /\ e.dependencies[k].availability = classes[chain[k]]
           /\ e.dependencies[k].requested = s.requested /\ e.dependencies[k].cutoff = s.cutoff
  <2> HIDE DEF completed
  <2> QED
    BY <1>2
<1>9. \A k \in completed : e.dependencies[k].availability = "UNAVAILABLE" =>
         (c = "premium" /\ k = 2) \/ Stops(c, chain[k], classes)
  <2>1. ASSUME NEW k \in DOMAIN chain, c = "premium", chain[k] = "ranges"
        PROVE  k = 2
    BY <2>1 DEF chain, Dependencies
  <2> QED
    BY <1>8, <2>1 DEF Stops
<1>10. Successful(e) => e.result
  <2>1. e.availability = IF s.availability # "AVAILABLE" THEN s.availability
                         ELSE IF s.completion = "UNKNOWN" THEN "UNAVAILABLE"
                         ELSE IF progress[last] = "NOT_STARTED" THEN "UNAVAILABLE"
                         ELSE IF \E k \in DOMAIN chain : classes[chain[k]] = "UNAVAILABLE" THEN "UNAVAILABLE"
                         ELSE classes[c]
    BY <1>2 DEF EnvelopeAvailability, chain
  <2>2. last \in 1..last
    BY <1>4
  <2>3. progress[last] = "NOT_STARTED" \/ progress[last] = "COMPLETED"
    BY <1>5, <2>2
  <2> QED
    BY <1>2, <2>1, <2>3 DEF Successful, Source
<1>11. Usable(s) \/ /\ \A k \in 1..last : progress[k] = "NOT_STARTED"
                    /\ e.availability = IF s.availability = "AVAILABLE" THEN "UNAVAILABLE"
                                        ELSE s.availability
  <2>1. ~Usable(s) => \A k \in 1..last : progress[k] = "NOT_STARTED"
    BY <1>5
  <2> QED
    BY <1>2, <2>1 DEF EnvelopeAvailability, Usable
<1>12. ValidExecution(e, s)
  <2>1. \A j \in 1..last, k \in 1..last :
          j < k /\ progress[j] # "COMPLETED" => progress[k] = "NOT_STARTED"
    BY <1>5, <1>6
  <2> HIDE DEF Reached
  <2>2. /\ Len(e.progress) = last
        /\ \A j \in 1..last, k \in 1..last :
              j < k /\ e.progress[j] # "COMPLETED" => e.progress[k] = "NOT_STARTED"
        /\ DOMAIN e.dependencies = {k \in DOMAIN chain : e.progress[k] = "COMPLETED"}
    BY <1>2, <1>4, <1>8, <2>1
  <2>3. \A k \in completed :
          LET record == e.dependencies[k]
          IN  /\ record.capability = chain[k]
              /\ record.requested = s.requested /\ record.cutoff = s.cutoff
              /\ record.availability = "UNAVAILABLE"
                   => \/ c = "premium" /\ k = 2
                      \/ \A j \in (k + 1)..last : e.progress[j] = "NOT_STARTED"
    <3> HIDE DEF completed
    <3> QED
      BY <1>2, <1>7, <1>8, <1>9
  <2>4. e.result = (e.progress[last] = "COMPLETED")
    BY <1>2
  <2> HIDE DEF completed
  <2> QED
    BY <1>2, <1>8, <1>10, <1>11, <2>2, <2>3, <2>4 DEF ValidExecution, chain
<1> QED
  BY <1>2, <1>12 DEF ValidEnvelope, Source, e

\* Whether every stage accepts what it is handed.
Accepted(context, bundles) ==
  LET factual == FactualContext(context, bundles)
  IN  /\ SourceContextErrors(context.sources, context.requested) = {}
      /\ ValidSourceContext(context)
      /\ FactualContextErrors(context, bundles) = {}
      /\ ValidFactualContext(factual)
      /\ SynthesisErrors(factual, bundles) = {}
      /\ ~Chronology(factual, bundles, profile).refused

\* A report is issued when every stage accepts it, and says what it was made of.
LEMMA ReportIs ==
  ASSUME NEW how, NEW context, NEW bundles
  PROVE  LET report == Report(how, context, bundles)
         IN  /\ report.status = IF Accepted(context, bundles) THEN "issued" ELSE "refused"
             /\ report.how = how /\ report.requested = context.requested
             /\ report.status = "issued" =>
                  /\ report.sources = context.sources
                  /\ \A tf \in Timeframes :
                        /\ report.facts[tf] = TimeframeFacts(bundles[tf], tf, profile).facts
                        /\ report.keptBack[tf] = KeptBack(bundles[tf].results)
                  /\ report.outcomes = Outcomes(report.claims.current)
                  /\ \A tf \in Timeframes :
                        /\ report.claims.current[tf] = CurrentClaims(bundles[tf], profile)
                        /\ report.claims.history[tf]
                             = HistoryClaims(bundles[tf], TimeframeFacts(bundles[tf], tf, profile), profile)
<1> DEFINE report == Report(how, context, bundles)
           factual == FactualContext(context, bundles)
           chronology == Chronology(factual, bundles, profile)
           claims == Synthesis(bundles, chronology, profile)
           frames == OnTimeframes([tf \in Timeframes |-> TimeframeFacts(bundles[tf], tf, profile)])
<1>1. report = IF Accepted(context, bundles) THEN Issued(how, factual, bundles, chronology, claims)
               ELSE Refused(how, context.requested)
  BY DEF Report, Reported, Accepted
<1>2. factual.requested = context.requested /\ factual.sources = context.sources
  BY DEF FactualContext
<1>3. \A tf \in Timeframes : chronology.frames[tf] = TimeframeFacts(bundles[tf], tf, profile)
  <2>1. chronology.frames = frames
    BY DEF Chronology
  <2>2. \A tf \in Timeframes : frames[tf] = TimeframeFacts(bundles[tf], tf, profile)
    <3> DEFINE facts == [tf \in Timeframes |-> TimeframeFacts(bundles[tf], tf, profile)]
    <3>1. \A tf \in Timeframes : facts[tf] = TimeframeFacts(bundles[tf], tf, profile)
      OBVIOUS
    <3> HIDE DEF facts
    <3>2. \A tf \in Timeframes : OnTimeframes(facts)[tf] = facts[tf]
      BY TabulatedIs
    <3> QED
      BY <3>1, <3>2 DEF facts
  <2> HIDE DEF chronology, frames
  <2> QED
    BY <2>1, <2>2
<1>4. \A tf \in Timeframes :
        /\ claims.current[tf] = CurrentClaims(bundles[tf], profile)
        /\ claims.history[tf]
             = HistoryClaims(bundles[tf], TimeframeFacts(bundles[tf], tf, profile), profile)
  <2> HIDE DEF factual, chronology, frames
  <2> DEFINE current == [tf \in Timeframes |-> CurrentClaims(bundles[tf], profile)]
  <2>1. \A tf \in Timeframes : current[tf] = CurrentClaims(bundles[tf], profile)
    OBVIOUS
  <2>2. claims.current = OnTimeframes(current)
    BY DEF Synthesis
  <2>3. \A tf \in Timeframes :
          claims.history[tf] = HistoryClaims(bundles[tf], chronology.frames[tf], profile)
    BY DEF Synthesis
  <2> HIDE DEF claims, current
  <2>4. \A tf \in Timeframes : OnTimeframes(current)[tf] = current[tf]
    BY TabulatedIs
  <2> QED
    BY <1>3, <2>1, <2>2, <2>3, <2>4
<1> HIDE DEF report, factual, chronology, claims
<1>5. CASE ~Accepted(context, bundles)
  BY <1>1, <1>5 DEF Refused, report
<1>6. CASE Accepted(context, bundles)
  <2>1. report = Issued(how, factual, bundles, chronology, claims)
    BY <1>1, <1>6
  <2>2. /\ report.status = "issued" /\ report.how = how /\ report.requested = context.requested
        /\ report.sources = context.sources
        /\ report.facts = [tf \in Timeframes |-> chronology.frames[tf].facts]
        /\ report.keptBack = [tf \in Timeframes |-> KeptBack(bundles[tf].results)]
        /\ report.claims = claims /\ report.outcomes = Outcomes(claims.current)
    BY <1>2, <2>1 DEF Issued
  <2> QED
    BY <1>3, <1>6, <1>4, <2>2 DEF report
<1> QED
  BY <1>5, <1>6

\* Sources of one instant, each reading a beginning of its timeframe.
OfOneInstant(sources, at) ==
  \A tf \in Timeframes :
    LET s == sources[tf]
    IN  /\ s.tf = tf /\ s.requested = at
        /\ ValidSource(s) /\ Source(s)
        /\ s.availability = "AVAILABLE" <=> s.approved # << >>
        /\ s.availability = "AVAILABLE" => s.cutoff <= at
        /\ Usable(s) => History(s.approved, tf) /\ s.cutoff = Duration[tf] * Len(s.approved)

\* The snapshots of an evaluation are of one instant, each of what is closed.
LEMMA SnapshotsAreOfOneInstant ==
  ASSUME Market(candles), NEW how, NEW sources,
         \A tf \in Timeframes : sources[tf] = Snapshot(tf, Delivered(tf, how[tf]), now)
  PROVE  /\ OfOneInstant(sources, now)
         /\ \A tf \in Timeframes : Usable(sources[tf]) => Continues(Closed(tf), sources[tf].approved)
<1>1. now \in Int
  BY DEF now, Market
<1>2. ASSUME NEW tf \in Timeframes
      PROVE  LET s == sources[tf]
             IN  /\ s.tf = tf /\ s.requested = now
                 /\ ValidSource(s) /\ Source(s)
                 /\ (s.availability = "AVAILABLE" <=> s.approved # << >>)
                 /\ s.availability = "AVAILABLE" => s.cutoff <= now
                 /\ Usable(s) => /\ History(s.approved, tf) /\ s.cutoff = Duration[tf] * Len(s.approved)
                                 /\ Continues(Closed(tf), s.approved)
  <2> DEFINE s == sources[tf]
             bars == Delivered(tf, how[tf])
  <2>1. Duration[tf] \in {1, 2}
    BY FeedAssumption
  <2>2. s = Snapshot(tf, bars, now)
    BY <1>2
  <2>3. bars \in Seq(Bar)
    BY <2>1, DeliveredIs
  <2>4. Usable(s) => /\ History(s.approved, tf) /\ s.cutoff = Duration[tf] * Len(s.approved)
                     /\ Continues(Closed(tf), s.approved)
    BY <2>1, <2>2, SnapshotReads
  <2> HIDE DEF s, bars
  <2>5. s.tf = tf /\ s.requested = now /\ s.availability \in {"AVAILABLE", "UNAVAILABLE", "INVALID"}
    BY <2>2, SnapshotIs
  <2>6. /\ ValidSource(s)
        /\ s.availability = "AVAILABLE" => s.cutoff <= now
        /\ (s.availability = "AVAILABLE" <=> s.approved # << >>)
    BY <1>1, <2>1, <2>2, <2>3, SnapshotsAreValid
  <2> QED
    BY <2>4, <2>5, <2>6 DEF Source, s
<1> QED
  BY <1>2 DEF OfOneInstant

\* Of an unusable source nothing is told.
LEMMA NothingIsTold ==
  ASSUME NEW tf, NEW s, Source(s), ~Usable(s), NEW p
  PROVE  FactsOfFrame(s, p, tf) = {}
<1> DEFINE bundle == BundleOn(s, p, tf)
<1>1. ASSUME NEW c \in EventCapabilities
      PROVE  Normalized(bundle, tf, c) = {}
  <2> DEFINE e == Envelope(c, s, NothingFound)
  <2>1. c \in Capabilities
    BY DEF EventCapabilities, Capabilities
  <2>2. bundle.envelopes[c] = e
    BY <2>1 DEF BundleOn, Bundle
  <2>3. e.availability = EnvelopeAvailability(c, s, Progress(c, s, NothingFound), NothingFound)
    BY DEF Envelope
  <2>4. e.availability # "AVAILABLE_PRESENT"
    BY <2>3 DEF EnvelopeAvailability, Usable, Source
  <2> HIDE DEF bundle, e
  <2> QED
    BY <2>2, <2>4 DEF Normalized
<1>2. FactsOfFrame(s, p, tf) = UNION {Normalized(bundle, tf, c) : c \in EventCapabilities}
  BY DEF FactsOfFrame, TimeframeFacts
<1> HIDE DEF bundle
<1> QED
  BY <1>1, <1>2

\* What is told of a timeframe does not contradict its source.
LEMMA NothingIsContradicted ==
  ASSUME NEW tf, Duration[tf] \in {1, 2}, NEW p, Sound(p), NEW s, Source(s),
         Usable(s) => History(s.approved, tf) /\ s.cutoff = Duration[tf] * Len(s.approved)
  PROVE  Contradictions(BundleOn(s, p, tf), tf, FactsOfFrame(s, p, tf)) = {}
<1> DEFINE bars == s.approved
           facts == FactsOfFrame(s, p, tf)
           bundle == BundleOn(s, p, tf)
<1>1. bundle.source = s
  BY DEF BundleOn, Bundle
<1>2. CASE ~Usable(s)
  <2>1. facts = {}
    BY <1>2, NothingIsTold
  <2> HIDE DEF facts, bundle
  <2> QED
    BY <2>1 DEF Contradictions, facts, bundle
<1>3. CASE Usable(s)
  <2>1. ASSUME NEW f \in facts
        PROVE  /\ ~(bars[f.candle].at > f.available)
               /\ ~(f.available > s.cutoff)
               /\ f.available = Completion(bars[f.candle], tf)
    <3>1. WellDated(f, bars, tf)
      BY <1>3, FrameFactsAre
    <3>2. f.candle \in 1..Len(bars) /\ f.available = Duration[tf] * f.candle
      BY <3>1 DEF WellDated
    <3>3. /\ Completion(bars[f.candle], tf) = Duration[tf] * f.candle
          /\ Completion(bars[f.candle], tf) \in Int
          /\ bars[f.candle].at < Completion(bars[f.candle], tf)
      BY <1>3, <3>2, CompletedAt
    <3>4. Duration[tf] * f.candle <= s.cutoff
      <4>1. f.candle \in Int /\ Len(bars) \in Int /\ f.candle <= Len(bars)
        BY <1>3, <3>2 DEF History
      <4> QED
        BY <1>3, <4>1, CompletedInTurn
    <3>5. bars[f.candle].at \in Int /\ s.cutoff \in Int
      <4>1. bars[f.candle] \in Bar /\ Len(bars) \in Nat
        BY <1>3, <3>2 DEF History
      <4> QED
        BY <1>3, <4>1 DEF Bar
    <3> HIDE DEF bars, facts
    <3> QED
      BY <3>2, <3>3, <3>4, <3>5
  <2> HIDE DEF facts, bundle
  <2>2. Contradictions(bundle, tf, facts) = {}
    BY <1>1, <2>1 DEF Contradictions, bars
  <2> QED
    BY <2>2 DEF facts, bundle
<1> QED
  BY <1>2, <1>3

\* What was produced together is never refused.
THEOREM FreshIsAccepted ==
  ASSUME Sound(profile), NEW sources, NEW at, OfOneInstant(sources, at), NEW bundles,
         \A tf \in Timeframes : bundles[tf] = BundleOf(sources[tf], tf)
  PROVE  Accepted(SourceContext(sources, at), bundles)
<1> DEFINE context == SourceContext(sources, at)
           factual == FactualContext(context, bundles)
           chronology == Chronology(factual, bundles, profile)
<1>1. context.requested = at /\ context.sources = sources
      /\ context.state = Worst({SourceState(sources[tf]) : tf \in Timeframes})
      /\ context.edges = [edge \in Neighbours |-> Alignment(sources[edge[1]], sources[edge[2]])]
  BY DEF SourceContext
<1>2. \A tf \in Timeframes :
        /\ sources[tf].tf = tf /\ sources[tf].requested = at
        /\ ValidSource(sources[tf]) /\ Source(sources[tf])
        /\ sources[tf].availability = "AVAILABLE" <=> sources[tf].approved # << >>
        /\ sources[tf].availability = "AVAILABLE" => sources[tf].cutoff <= at
  BY DEF OfOneInstant
<1> HIDE DEF context
<1>3. SourceContextErrors(context.sources, context.requested) = {}
  BY <1>1, <1>2 DEF SourceContextErrors
<1>4. ValidSourceContext(context)
  <2>1. \A tf \in Timeframes : sources[tf].availability # "AVAILABLE" =>
           sources[tf].approved = << >> /\ sources[tf].cutoff = 0
    BY <1>2 DEF ValidSource
  <2>2. \A edge \in Neighbours : context.edges[edge] = Alignment(sources[edge[1]], sources[edge[2]])
    BY <1>1
  <2> QED
    BY <1>1, <1>2, <2>1, <2>2 DEF ValidSourceContext
<1>5. ASSUME NEW tf \in Timeframes, NEW c \in Capabilities
      PROVE  LET e == bundles[tf].envelopes[c]
             IN  ValidEnvelope(e, sources[tf]) /\ e.capability = c /\ e.source = sources[tf]
  <2>1. PICK classes : bundles[tf].envelopes[c] = Envelope(c, sources[tf], classes)
    <3> DEFINE results == ResultsOf(sources[tf].approved, profile, tf)
               classes == IF Usable(sources[tf]) THEN Classes(sources[tf].approved, results)
                          ELSE NothingFound
    <3>1. bundles[tf] = Bundle(sources[tf], profile, results)
      BY DEF BundleOf
    <3>2. bundles[tf].envelopes = [d \in Capabilities |-> Envelope(d, sources[tf], classes)]
      <4> HIDE DEF results
      <4> QED
        BY <3>1 DEF Bundle
    <3> HIDE DEF classes
    <3> QED
      BY <3>2
  <2> QED
    BY <1>2, <2>1, EnvelopeIsValid
<1>6. FactualContextErrors(context, bundles) = {}
  BY <1>1, <1>2, <1>5 DEF FactualContextErrors
<1>7. /\ factual.sources = sources /\ factual.requested = at
      /\ factual.state = Worst({factual.states[tf] : tf \in Timeframes})
      /\ \A tf \in Timeframes :
            /\ factual.states[tf] = TimeframeState(sources[tf], Availabilities(bundles[tf]))
            /\ \A c \in Capabilities :
                  factual.availability[tf][c] = bundles[tf].envelopes[c].availability
  BY <1>1 DEF FactualContext
<1> HIDE DEF factual
<1>8. ValidFactualContext(factual)
  <2>1. ASSUME NEW tf \in Timeframes
        PROVE  {factual.availability[tf][c] : c \in Capabilities} = Availabilities(bundles[tf])
    BY <1>7 DEF Availabilities
  <2> QED
    BY <1>2, <1>7, <2>1 DEF ValidFactualContext
<1>9. SynthesisErrors(factual, bundles) = {}
  BY <1>5, <1>7 DEF SynthesisErrors
<1>10. ~chronology.refused
  <2> DEFINE frames == OnTimeframes([tf \in Timeframes |-> TimeframeFacts(bundles[tf], tf, profile)])
  <2>1. chronology.refused = \E tf \in Timeframes :
                               Contradictions(bundles[tf], tf, frames[tf].facts) # {}
    BY DEF Chronology
  <2>2. \A tf \in Timeframes : frames[tf] = TimeframeFacts(bundles[tf], tf, profile)
    <3> DEFINE facts == [tf \in Timeframes |-> TimeframeFacts(bundles[tf], tf, profile)]
    <3>1. \A tf \in Timeframes : facts[tf] = TimeframeFacts(bundles[tf], tf, profile)
      OBVIOUS
    <3> HIDE DEF facts
    <3>2. \A tf \in Timeframes : OnTimeframes(facts)[tf] = facts[tf]
      BY TabulatedIs
    <3> QED
      BY <3>1, <3>2 DEF facts
  <2> HIDE DEF frames, chronology
  <2>3. ASSUME NEW tf \in Timeframes
        PROVE  Contradictions(bundles[tf], tf, frames[tf].facts) = {}
    <3>1. bundles[tf] = BundleOn(sources[tf], profile, tf)
      BY DEF BundleOf, BundleOn
    <3>2. frames[tf].facts = FactsOfFrame(sources[tf], profile, tf)
      BY <2>2, <3>1 DEF FactsOfFrame
    <3>3. Duration[tf] \in {1, 2}
      BY FeedAssumption
    <3>4. Usable(sources[tf]) => /\ History(sources[tf].approved, tf)
                                 /\ sources[tf].cutoff = Duration[tf] * Len(sources[tf].approved)
      BY DEF OfOneInstant
    <3> QED
      BY <1>2, <3>1, <3>2, <3>3, <3>4, NothingIsContradicted
  <2> QED
    BY <2>1, <2>3
<1> QED
  BY <1>3, <1>4, <1>6, <1>8, <1>9, <1>10 DEF Accepted, factual, context

-----------------------------------------------------------------------------
(* What is claimed is so.                                                  *)

\* What the detectors need of a configuration to be right about the market.
Settled(p) ==
  /\ Sound(p) /\ LevelSettings(p.liquidity) /\ MoveSettings(p.displacement) /\ BlockSettings(p)
  /\ p.ranges \in Nat \ {0}

\* A profile without errors has it.
LEMMA AcceptedSettingsAreSettled ==
  ASSUME NEW p \in Profiles, ProfileErrors(p) = {}
  PROVE  Settled(p)
<1>1. /\ LiquidityConfigErrors(p.liquidity) = {} /\ DisplacementConfigErrors(p.displacement) = {}
      /\ p.ranges \in 1..1000
  <2>1. /\ LiquidityConfigErrors(p.liquidity) \subseteq ProfileErrors(p)
        /\ DisplacementConfigErrors(p.displacement) \subseteq ProfileErrors(p)
        /\ (IF p.ranges \in 1..1000 THEN {} ELSE {"ranges"}) \subseteq ProfileErrors(p)
    BY DEF ProfileErrors
  <2> QED
    BY <2>1
<1>2. /\ p.liquidity.members \in Int /\ p.liquidity.reach \in Int
      /\ p.displacement \in [lookback : Int, baseline : Int, body : Int, expansion : Int,
                             bullish : Int, bearish : Int, sequence : Int]
  BY SettingsAreCounted
<1>3. p.liquidity.members >= 2 /\ p.liquidity.reach >= 0
  <2>1. "members" \notin LiquidityConfigErrors(p.liquidity)
        /\ "reach" \notin LiquidityConfigErrors(p.liquidity)
    BY <1>1
  <2> QED
    BY <1>2, <2>1 DEF LiquidityConfigErrors
<1>4. p.displacement.baseline > 0
  <2>1. "baseline" \notin DisplacementConfigErrors(p.displacement)
    BY <1>1
  <2>2. p.displacement.baseline \in Int
    BY <1>2
  <2> QED
    BY <2>1, <2>2 DEF DisplacementConfigErrors
<1>5. Sound(p)
  BY AcceptedSettingsAreSound
<1>6. p.ranges \in Nat \ {0}
  <2>1. \A n \in 1..1000 : n \in Nat \ {0}
    OBVIOUS
  <2> QED
    BY <1>1, <2>1
<1>7. LevelSettings(p.liquidity)
  BY <1>2, <1>3, <1>5 DEF LevelSettings, Sound
<1>8. MoveSettings(p.displacement)
  BY <1>2, <1>4, <1>5 DEF MoveSettings, Sound
<1>9. BlockSettings(p)
  BY <1>2, <1>4, <1>5 DEF BlockSettings, Sound
<1> QED
  BY <1>5, <1>6, <1>7, <1>8, <1>9 DEF Settled

\* Whether facts of a family are told.
Tells(facts, family) == \E f \in facts : f.family = family

\* What is told of a family could have happened, and what is kept quiet, while
\* nothing is left out, did not certainly happen.
LEMMA FamiliesAreTrue ==
  ASSUME NEW tf, Duration[tf] \in {1, 2}, NEW p, Settled(p), NEW bars, History(bars, tf), Priced(bars),
         NEW c \in Detecting, NEW family \in Families[c]
  PROVE  LET facts == FactsOn(bars, p, tf, c)
             results == ResultsOf(bars, p, tf)
         IN  /\ Tells(facts, family) => ~Impossible(family, bars, p)
             /\ Clear(c, results, p) /\ ~Tells(facts, family) => ~Happened(family, bars, p)
<1> DEFINE facts == FactsOn(bars, p, tf, c)
           results == ResultsOf(bars, p, tf)
<1>1. CASE c = "events"
  <2> DEFINE told == ToldEvents(bars, p.liquidity, tf)
  <2>1. facts = LiquidityFacts(bars, tf, told) /\ results.events = told
    BY <1>1, ResultsAre DEF FactsOn
  <2>2. /\ Tells(facts, family) => PossiblyTaken(family, bars, p.liquidity)
        /\ told.truncated = 0 /\ told.excluded = 0 /\ p.liquidity.singles
             /\ SurelyTaken(family, bars, p.liquidity) => Tells(facts, family)
    BY <1>1, <2>1, EventsAreTrue DEF Tells, Settled
  <2>3. /\ Impossible(family, bars, p) => ~PossiblyTaken(family, bars, p.liquidity)
        /\ Happened(family, bars, p) => /\ p.liquidity.singles
                                        /\ SurelyTaken(family, bars, p.liquidity)
    BY <1>1 DEF Impossible, Happened, Families
  <2> HIDE DEF facts, results, told
  <2>4. Clear(c, results, p) => told.truncated = 0 /\ told.excluded = 0
    BY <1>1, <2>1 DEF Clear, Truncated
  <2> QED
    BY <2>2, <2>3, <2>4 DEF facts, results
<1>2. CASE c = "gaps"
  <2> DEFINE told == Gaps(bars, p.gaps)
             Seen(status) == \E v \in TrueGaps(bars, p.gaps) : v.current_status = status
  <2>1. facts = GapFacts(bars, tf, told) /\ results.gaps = told
    BY <1>2, ResultsAre DEF FactsOn, ToldGaps
  <2>2. /\ facts # {} => TrueGaps(bars, p.gaps) # {}
        /\ Tells(facts, "fvg_fully_filled") => Seen("fully_filled")
        /\ told.omitted = 0 /\ TrueGaps(bars, p.gaps) # {} => Tells(facts, "fvg_created")
        /\ told.omitted = 0 /\ Seen("fully_filled") => Tells(facts, "fvg_fully_filled")
        /\ told.omitted = 0 /\ Seen("partially_filled") => Tells(facts, "fvg_partial_fill")
    BY <2>1, GapsAreTrue DEF Tells, Settled, Sound
  <2> HIDE DEF facts, results, told
  <2>3. Clear(c, results, p) => told.omitted = 0
    BY <1>2, <2>1 DEF Clear
  <2>4. Tells(facts, family) => facts # {}
    BY DEF Tells
  <2>5. CASE family = "fvg_created"
    <3>1. /\ Impossible(family, bars, p) => TrueGaps(bars, p.gaps) = {}
          /\ Happened(family, bars, p) => TrueGaps(bars, p.gaps) # {}
      BY <2>5 DEF Impossible, Happened, Families
    <3> QED
      BY <2>2, <2>3, <2>4, <2>5, <3>1 DEF facts, results
  <2>6. CASE family = "fvg_fully_filled"
    <3>1. /\ Impossible(family, bars, p) => ~Seen("fully_filled")
          /\ Happened(family, bars, p) => Seen("fully_filled")
      BY <2>6 DEF Impossible, Happened, Families
    <3> HIDE DEF Seen
    <3> QED
      BY <2>2, <2>3, <2>6, <3>1 DEF facts, results
  <2>7. CASE family = "fvg_partial_fill"
    <3>1. /\ Impossible(family, bars, p) => TrueGaps(bars, p.gaps) = {}
          /\ Happened(family, bars, p) => Seen("partially_filled")
      BY <2>7 DEF Impossible, Happened, Families
    <3> HIDE DEF Seen
    <3> QED
      BY <2>2, <2>3, <2>4, <2>7, <3>1 DEF facts, results
  <2>8. CASE family = "fvg_touched"
    <3>1. /\ Impossible(family, bars, p) => TrueGaps(bars, p.gaps) = {}
          /\ ~Happened(family, bars, p)
      BY <2>8 DEF Impossible, Happened, Families
    <3> QED
      BY <2>2, <2>4, <3>1 DEF facts, results
  <2> QED
    BY <1>2, <2>5, <2>6, <2>7, <2>8 DEF Families
<1>3. CASE c = "displacement"
  <2>1. facts = DisplacementFacts(bars, tf, Displacements(bars, p.displacement))
    BY <1>3 DEF FactsOn, ToldMoves
  <2>3. family = "displacement"
    BY <1>3 DEF Families
  <2>2. Tells(facts, family)
           <=> \E d \in Directions : MovesIn(bars, p.displacement, d) # {}
    <3> DEFINE config == p.displacement
    <3>1. MoveSettings(config)
      BY DEF Settled
    <3> HIDE DEF config
    <3> DEFINE told == DisplacementFacts(bars, tf, Displacements(bars, config))
               There(d) == MovesIn(bars, config, d) # {}
    <3>2. told # {} => \E d \in Directions : There(d)
      BY <3>1, MovesAreTrue
    <3>3. ASSUME NEW d \in Directions, There(d)
          PROVE  \E f \in told : f.family = "displacement"
      BY <3>1, <3>3, MovesAreTrue
    <3>4. Tells(told, family) => told # {}
      BY DEF Tells
    <3>5. ASSUME NEW d \in Directions, There(d)
          PROVE  Tells(told, family)
      BY <2>3, <3>3, <3>5 DEF Tells
    <3> HIDE DEF told
    <3> QED
      BY <2>1, <3>2, <3>4, <3>5 DEF config, told
  <2>6. /\ Impossible(family, bars, p) <=> ~Happened(family, bars, p)
        /\ Happened(family, bars, p) <=>
              \E d \in Directions : MovesIn(bars, p.displacement, d) # {}
    BY <2>3 DEF Impossible, Happened, Families, MovesIn
  <2> QED
    BY <2>2, <2>6
<1>4. CASE c = "blocks"
  <2> DEFINE answer == AnswerOn(bars, Moving(p), p.blocks)
             There(d) == Blocks(bars, p, d) # {}
  <2>1. facts = ToldBlocks(bars, Moving(p), p.blocks, tf) /\ results.blocks = answer
    BY <1>4, ResultsAre DEF FactsOn
  <2>2. /\ answer.truncated \in Nat /\ answer.shortened \in Nat
        /\ facts # {} => \E d \in Directions : There(d)
        /\ Tells(facts, "order_block_close_through") => \E d \in Directions : ClosedThrough(bars, p, d)
        /\ answer.truncated + answer.shortened = 0 => \A d \in Directions :
              /\ There(d) => Tells(facts, "order_block_created")
              /\ ClosedThrough(bars, p, d) => Tells(facts, "order_block_close_through")
    BY <2>1, BlocksAreTrue DEF Tells, Settled
  <2> HIDE DEF facts, results, answer
  <2>3. Clear(c, results, p) => answer.truncated + answer.shortened = 0
    BY <1>4, <2>1 DEF Clear, Truncated
  <2>4. Tells(facts, family) => facts # {}
    BY DEF Tells
  <2>5. CASE family = "order_block_created"
    <3>1. /\ Impossible(family, bars, p) => ~(\E d \in Directions : There(d))
          /\ Happened(family, bars, p) => \E d \in Directions : There(d)
      BY <2>5 DEF Impossible, Happened, Families
    <3> HIDE DEF There
    <3> QED
      BY <2>2, <2>3, <2>4, <2>5, <3>1 DEF facts, results
  <2>6. CASE family = "order_block_close_through"
    <3>1. /\ Impossible(family, bars, p) => ~(\E d \in Directions : ClosedThrough(bars, p, d))
          /\ Happened(family, bars, p) => \E d \in Directions : ClosedThrough(bars, p, d)
      <4>1. (\E d \in Directions : ClosedThrough(bars, p, d)) => Happened(family, bars, p)
        BY <2>6 DEF Happened, Families
      <4>2. Happened(family, bars, p) => \E d \in Directions : ClosedThrough(bars, p, d)
        BY <2>6 DEF Happened, Families
      <4>3. Impossible(family, bars, p) => ~Happened(family, bars, p)
        BY <2>6 DEF Impossible, Families
      <4> QED
        BY <4>1, <4>2, <4>3
    <3> HIDE DEF There
    <3> QED
      BY <2>2, <2>3, <2>6, <3>1 DEF facts, results
  <2>7. CASE family \in {"order_block_wick_touch", "order_block_body_revisit"}
    <3>1. /\ Impossible(family, bars, p) => ~(\E d \in Directions : There(d))
          /\ ~Happened(family, bars, p)
      <4>1. (\E d \in Directions : There(d)) => Happened("order_block_created", bars, p)
        BY DEF Happened, Families
      <4>4. \A x : x = "order_block_created" /\ Happened(x, bars, p) => \E d \in Directions : There(d)
        BY DEF Happened, Families
      <4>2. ~Happened(family, bars, p)
        BY <2>7 DEF Happened, Families
      <4>3. Impossible(family, bars, p) => ~Happened("order_block_created", bars, p)
        BY <2>7 DEF Impossible, Families
      <4> QED
        BY <2>2, <4>2, <4>3, <4>4, <4>1
    <3> HIDE DEF There
    <3> QED
      BY <2>2, <2>4, <3>1 DEF facts, results
  <2> QED
    BY <1>4, <2>5, <2>6, <2>7 DEF Families
<1> QED
  BY <1>1, <1>2, <1>3, <1>4 DEF Detecting

\* A claim shows nothing but the answer of its detector, and an absence is claimed
\* only of an answer that is empty and that leaves nothing out.
LEMMA ClaimIs ==
  ASSUME NEW bundle, NEW p, NEW field \in DOMAIN Owner
  PROVE  LET claim == CurrentClaims(bundle, p)[field]
             envelope == bundle.envelopes[Owner[field]]
             values == ValuesOf(field, bundle.results)
         IN  /\ claim.values \subseteq values
             /\ claim.support = "EVIDENCED" => claim.values = values
             /\ claim.support = "ABSENT_IN_SCOPE" =>
                  values = {} /\ \E swings : Absence(field, envelope, bundle.results, p, swings)
             /\ ~UsableEnvelope(envelope) => claim.support = "UNKNOWN" /\ claim.values = {}
<1> DEFINE claim == CurrentClaims(bundle, p)[field]
           envelope == bundle.envelopes[Owner[field]]
           values == ValuesOf(field, bundle.results)
           swings == SwingHighs(bundle.source.approved) \cup SwingLows(bundle.source.approved)
           absent == Absence(field, envelope, bundle.results, p, swings)
<1>1. claim = IF ~UsableEnvelope(envelope) THEN [support |-> "UNKNOWN", values |-> {}]
              ELSE [support |-> IF UsableEnvelope(envelope) /\ values # {} THEN "EVIDENCED"
                                ELSE IF absent THEN "ABSENT_IN_SCOPE" ELSE "UNKNOWN",
                    values |-> IF UsableEnvelope(envelope) THEN values ELSE {}]
  BY DEF CurrentClaims, Claim
<1> HIDE DEF claim, envelope, values, swings
<1> QED
  BY <1>1 DEF claim, envelope, values

\* Of an unusable source nothing is claimed.
LEMMA NothingIsClaimed ==
  ASSUME NEW tf, NEW s, Source(s), ~Usable(s), NEW p, NEW field \in DOMAIN Owner
  PROVE  LET claim == CurrentClaims(BundleOn(s, p, tf), p)[field]
         IN  claim.support = "UNKNOWN" /\ claim.values = {}
<1> DEFINE bundle == BundleOn(s, p, tf)
           c == Owner[field]
           e == Envelope(c, s, NothingFound)
<1>1. c \in Capabilities
  BY DEF Owner, Capabilities
<1>2. bundle.envelopes[c] = e
  BY <1>1 DEF BundleOn, Bundle
<1>3. e.availability = EnvelopeAvailability(c, s, Progress(c, s, NothingFound), NothingFound)
  BY DEF Envelope
<1> HIDE DEF c
<1>4. e.availability \in {"UNAVAILABLE", "INVALID"}
  BY <1>3 DEF EnvelopeAvailability, Usable, Source
<1>5. ~UsableEnvelope(bundle.envelopes[c])
  <2> HIDE DEF bundle, e
  <2> QED
    BY <1>2, <1>4 DEF UsableEnvelope, Successful
<1> QED
  BY <1>5, ClaimIs DEF c

\* What is claimed of the current state of a timeframe is so.
LEMMA CurrentClaimsAreTrue ==
  ASSUME NEW tf, Duration[tf] \in {1, 2}, NEW p, Settled(p), NEW s, Usable(s),
         History(s.approved, tf), Priced(s.approved)
  PROVE  LET bars == s.approved
             claims == CurrentClaims(BundleOn(s, p, tf), p)
         IN  /\ CurrentIsTrue(claims, bars, p)
             /\ \A v \in claims.displacement_events.values :
                  v.direction \in Directions /\ MovesIn(bars, p.displacement, v.direction) # {}
             /\ \A v \in claims.order_blocks.values : v.direction \in Directions
<1> DEFINE bars == s.approved
           bundle == BundleOn(s, p, tf)
           claims == CurrentClaims(bundle, p)
           results == ResultsOf(bars, p, tf)
           values(field) == ValuesOf(field, results)
           Clean(field) == \E swings : Absence(field, bundle.envelopes[Owner[field]], results, p, swings)
<1>1. bundle.results = results
  BY DEF BundleOn, Bundle
<1>2. ASSUME NEW field \in DOMAIN Owner
      PROVE  /\ claims[field].values \subseteq values(field)
             /\ Absent(claims, field) => values(field) = {} /\ Clean(field)
  <2> HIDE DEF bundle, results
  <2> QED
    BY <1>1, ClaimIs DEF Absent
<1>3. {"fair_value_gaps", "displacement_events", "order_blocks", "current_range"} \subseteq DOMAIN Owner
  BY DEF Owner
<1> HIDE DEF bundle, claims, results
<1>4. /\ values("fair_value_gaps") \subseteq TrueGaps(bars, p.gaps)
      /\ values("fair_value_gaps") = {} /\ Clean("fair_value_gaps") => TrueGaps(bars, p.gaps) = {}
  <2> DEFINE told == Gaps(bars, p.gaps)
  <2>1. results.gaps = told
    BY ResultsAre DEF results
  <2>2. values("fair_value_gaps")
          = {[side |-> g.gap.side, current_status |-> g.status] : g \in told.emitted}
    BY <2>1 DEF ValuesOf
  <2>3. Clean("fair_value_gaps") => told.omitted = 0
    BY <2>1 DEF Absence
  <2> HIDE DEF values, Clean
  <2> QED
    BY <2>2, <2>3, GapsAreTrue DEF Settled, Sound
<1>5. /\ \A v \in values("displacement_events") :
            v.direction \in Directions /\ MovesIn(bars, p.displacement, v.direction) # {}
      /\ values("displacement_events") = {} => ~Happened("displacement", bars, p)
  <2> DEFINE moves == Displacements(bars, p.displacement).events
             There(d) == MovesIn(bars, p.displacement, d) # {}
  <2>1. values("displacement_events") = {[direction |-> d.direction] : d \in moves}
    BY ResultsAre DEF ValuesOf, results
  <2>2. /\ \A d \in moves : d.direction \in Directions /\ There(d.direction)
        /\ \A d \in Directions : There(d) => \E m \in moves : m.direction = d
    BY MovesAreTrue DEF Settled
  <2>3. Happened("displacement", bars, p) <=> \E d \in Directions : There(d)
    BY DEF Happened, Families, MovesIn
  <2> HIDE DEF moves, values, There
  <2>4. \A v \in values("displacement_events") : v.direction \in Directions /\ There(v.direction)
    BY <2>1, <2>2
  <2>5. values("displacement_events") = {} => \A d \in Directions : ~There(d)
    BY <2>1, <2>2
  <2> QED
    BY <2>3, <2>4, <2>5 DEF There
<1>6. /\ \A v \in values("order_blocks") :
            v.direction \in Directions /\ Blocks(bars, p, v.direction) # {}
      /\ values("order_blocks") = {} /\ Clean("order_blocks")
           => ~Happened("order_block_created", bars, p)
  <2> DEFINE answer == AnswerOn(bars, Moving(p), p.blocks)
             There(d) == Blocks(bars, p, d) # {}
  <2>1. results.blocks = answer
    BY ResultsAre DEF results
  <2>2. values("order_blocks")
          = {[direction |-> b.direction, current_state |-> b.state] : b \in answer.blocks}
    BY <2>1 DEF ValuesOf
  <2>3. Clean("order_blocks") => answer.truncated = 0 /\ answer.shortened = 0
    BY <2>1 DEF Absence
  <2>4. /\ \A b \in answer.blocks : b.direction \in Directions /\ There(b.direction)
        /\ answer.truncated + answer.shortened = 0 => \A d \in Directions :
             There(d) => \E b \in answer.blocks : b.direction = d
    BY BlocksAreTrue DEF Settled
  <2>5. Happened("order_block_created", bars, p) <=> \E d \in Directions : There(d)
    BY DEF Happened, Families
  <2> HIDE DEF answer, values, There, Clean
  <2>6. \A v \in values("order_blocks") : v.direction \in Directions /\ There(v.direction)
    BY <2>2, <2>4
  <2>7. ASSUME values("order_blocks") = {}, Clean("order_blocks"), NEW d \in Directions
        PROVE  ~There(d)
    <3>1. answer.truncated = 0 /\ answer.shortened = 0
      BY <2>3, <2>7
    <3>2. answer.truncated + answer.shortened = 0
      BY <3>1
    <3>3. There(d) => \E b \in answer.blocks : b.direction = d
      BY <2>4, <3>2
    <3> QED
      BY <2>2, <2>7, <3>3
  <2> QED
    BY <2>5, <2>6, <2>7 DEF There
<1>7. values("current_range") = {} =>
        \A high \in SwingHighs(bars), low \in SwingLows(bars) : bars[high].high <= bars[low].low
  <2> DEFINE current == RetainedRanges(Ranges(bars), p.ranges).current
  <2>1. values("current_range") =
          {[chronological_order |-> IF r.upward THEN "low_to_high" ELSE "high_to_low"] : r \in current}
    BY ResultsAre DEF ValuesOf, results
  <2>2. bars \in Seq(Bar) /\ p.ranges \in Nat \ {0}
    BY DEF Priced, Settled
  <2>3. values("current_range") = {} => current = {}
    <3> HIDE DEF current, values
    <3> QED
      BY <2>1
  <2> HIDE DEF values
  <2> QED
    BY <2>2, <2>3, RangesAreTrue
<1> HIDE DEF values, Clean
<1>8. /\ claims.fair_value_gaps.values \subseteq values("fair_value_gaps")
      /\ claims.displacement_events.values \subseteq values("displacement_events")
      /\ claims.order_blocks.values \subseteq values("order_blocks")
  BY <1>2, <1>3
<1>9. /\ Absent(claims, "fair_value_gaps") => TrueGaps(bars, p.gaps) = {}
      /\ Absent(claims, "displacement_events") => ~Happened("displacement", bars, p)
      /\ Absent(claims, "order_blocks") => ~Happened("order_block_created", bars, p)
      /\ Absent(claims, "current_range") =>
          \A high \in SwingHighs(bars), low \in SwingLows(bars) : bars[high].high <= bars[low].low
  BY <1>2, <1>3, <1>4, <1>5, <1>6, <1>7
<1> QED
  BY <1>4, <1>5, <1>6, <1>8, <1>9 DEF CurrentIsTrue, claims, bundle

\* What is claimed of the events of a timeframe is so.
LEMMA HistoryClaimsAreTrue ==
  ASSUME NEW tf, Duration[tf] \in {1, 2}, NEW p, Settled(p), NEW s, Usable(s),
         History(s.approved, tf), Priced(s.approved)
  PROVE  LET bundle == BundleOn(s, p, tf)
         IN  HistoryIsTrue(HistoryClaims(bundle, TimeframeFacts(bundle, tf, p), p), s.approved, p)
<1> DEFINE bars == s.approved
           bundle == BundleOn(s, p, tf)
           frame == TimeframeFacts(bundle, tf, p)
           results == ResultsOf(bars, p, tf)
           history == HistoryClaims(bundle, frame, p)
<1>1. bundle.results = results /\ frame.facts = FactsOfFrame(s, p, tf)
  BY DEF BundleOn, Bundle, FactsOfFrame
<1>2. EventCapabilities \ {"ranges"} = Detecting
  BY DEF EventCapabilities, Detecting
<1>3. /\ DOMAIN history = Detecting
      /\ \A c \in Detecting : DOMAIN history[c] = Families[c]
      /\ \A c \in Detecting : \A family \in Families[c] :
            history[c][family] = HistorySupport(bundle, frame, c, family, p)
  <2> HIDE DEF bundle, frame
  <2> QED
    BY <1>2 DEF HistoryClaims
<1> HIDE DEF history, bundle, frame
<1>4. ASSUME NEW c \in Detecting, NEW family \in Families[c]
      PROVE  /\ history[c][family] = "EVIDENCED" => ~Impossible(family, bars, p)
             /\ history[c][family] = "ABSENT_IN_SCOPE" => ~Happened(family, bars, p)
  <2> DEFINE support == HistorySupport(bundle, frame, c, family, p)
             facts == FactsOn(bars, p, tf, c)
  <2>1. /\ support = "EVIDENCED" => \E f \in frame.facts : f.family = family
        /\ support = "ABSENT_IN_SCOPE" =>
             ~(\E f \in frame.facts : f.family = family) /\ Clear(c, results, p)
    BY <1>1 DEF HistorySupport
  <2>2. Sound(p) /\ c \in EventCapabilities
    BY <1>2 DEF Settled
  <2>3. facts \subseteq frame.facts
    BY <1>1, <2>2, FrameFactsAre
  <2>4. ASSUME NEW f \in frame.facts, f.family = family
        PROVE  f \in facts
    <3>1. family \notin Families.ranges
      BY <2>2, FamiliesAreApart DEF Detecting, EventCapabilities
    <3>2. PICK d \in Detecting : f \in FactsOn(bars, p, tf, d)
      BY <1>1, <2>2, <2>4, <3>1, FrameFactsAre
    <3>3. f.family \in Families[d]
      BY <2>2, <3>2, FactsAreDated
    <3>4. d = c
      BY <1>2, <2>2, <2>4, <3>3, FamiliesAreApart
    <3> QED
      BY <3>2, <3>4
  <2>5. Tells(facts, family) <=> \E f \in frame.facts : f.family = family
    <3> HIDE DEF facts
    <3> QED
      BY <2>3, <2>4 DEF Tells
  <2>6. /\ Tells(facts, family) => ~Impossible(family, bars, p)
        /\ Clear(c, results, p) /\ ~Tells(facts, family) => ~Happened(family, bars, p)
    BY FamiliesAreTrue
  <2>7. history[c][family] = support
    BY <1>3
  <2> HIDE DEF support, facts, results
  <2> QED
    BY <2>1, <2>5, <2>6, <2>7
<1> QED
  BY <1>3, <1>4 DEF HistoryIsTrue, history, bundle, frame

\* A value passes the filters of a condition.
Passes(value, c) == \A f \in c.filters : Compared(value[f.field], f.equal, f.expected)

\* How a condition on objects is decided.
LEMMA ObjectsDecide ==
  ASSUME NEW claims, NEW c, c.target \in {"fair_value_gaps", "displacement_events", "order_blocks"},
         ValidAtom(c)
  PROVE  LET claim == claims[c.tf][c.target]
         IN  /\ AtomOutcome(claims, c) = "SATISFIED" => \E v \in claim.values : Passes(v, c)
             /\ AtomOutcome(claims, c) = "NOT_SATISFIED" => claim.support = "ABSENT_IN_SCOPE"
<1>1. /\ c.target \notin StructureFields /\ c.target \in DOMAIN OtherTargets
      /\ OtherTargets[c.target].field = c.target /\ OtherTargets[c.target].reads = {"OBJECT"}
  BY DEF StructureFields, Owner, OtherTargets, Target
<1>2. Targets[c.target].field = c.target /\ c.reads = "OBJECT"
  BY <1>1 DEF Targets, ValidAtom
<1>3. \A v : Matches(c, v) <=> Passes(v, c)
  BY <1>2 DEF Matches, Passes
<1> QED
  BY <1>2, <1>3 DEF AtomOutcome

\* How a comparison of the structure is decided.
LEMMA StructureDecides ==
  ASSUME NEW claims, NEW c, c.target = "structure_state", c.reads = "SCALAR",
         NEW state, claims[c.tf].structure_state.support = "EVIDENCED"
                      => claims[c.tf].structure_state.values = {state}
  PROVE  /\ AtomOutcome(claims, c) = "SATISFIED" => Compared(state, c.equal, c.expected)
         /\ AtomOutcome(claims, c) = "NOT_SATISFIED" => ~Compared(state, c.equal, c.expected)
<1>1. /\ c.target \in StructureFields
      /\ Targets[c.target] = Target("structure_state", {"SCALAR", "CLAIM"}, "value", {})
  BY DEF StructureFields, Owner, Targets
<1>2. Targets[c.target].field = "structure_state" /\ Targets[c.target].projection = "value"
  BY <1>1 DEF Target
<1>3. \A v : Matches(c, v) <=> Compared(v, c.equal, c.expected)
  BY <1>2 DEF Matches
<1> QED
  BY <1>2, <1>3 DEF AtomOutcome

\* The outcome of a condition that is judged is right.
LEMMA AtomIsTrue ==
  ASSUME NEW tf, Duration[tf] \in {1, 2}, NEW p, Settled(p), NEW s, Usable(s),
         History(s.approved, tf), Priced(s.approved),
         NEW claims, NEW c, ValidAtom(c), Judged(c),
         claims[c.tf] = CurrentClaims(BundleOn(s, p, tf), p)
  PROVE  /\ AtomOutcome(claims, c) = "SATISFIED" => Holds(c, s.approved, p)
         /\ AtomOutcome(claims, c) = "NOT_SATISFIED" => ~Holds(c, s.approved, p)
<1> DEFINE bars == s.approved
           current == CurrentClaims(BundleOn(s, p, tf), p)
           Directed(directions) == \E v \in {[direction |-> d] : d \in directions} : Passes(v, c)
           moving == {d \in Directions : MovesIn(bars, p.displacement, d) # {}}
           blocked == {d \in Directions : Blocks(bars, p, d) # {}}
           outcome == AtomOutcome(claims, c)
<1>1. /\ CurrentIsTrue(current, bars, p)
      /\ \A v \in current.displacement_events.values :
           v.direction \in Directions /\ MovesIn(bars, p.displacement, v.direction) # {}
      /\ \A v \in current.order_blocks.values : v.direction \in Directions
  BY CurrentClaimsAreTrue
<1> HIDE DEF current
<1>2. /\ c.target = "fair_value_gaps" =>
           (Holds(c, bars, p) <=> \E v \in TrueGaps(bars, p.gaps) : Passes(v, c))
      /\ c.target = "displacement_events" => (Holds(c, bars, p) <=> Directed(moving))
      /\ c.target = "order_blocks" => (Holds(c, bars, p) <=> Directed(blocked))
  BY DEF Holds, Passes, MovesIn
<1>3. CASE c.target = "fair_value_gaps"
  <2>1. /\ outcome = "SATISFIED" => \E v \in current.fair_value_gaps.values : Passes(v, c)
        /\ outcome = "NOT_SATISFIED" => Absent(current, "fair_value_gaps")
    BY <1>3, ObjectsDecide DEF current, Absent
  <2>2. /\ current.fair_value_gaps.values \subseteq TrueGaps(bars, p.gaps)
        /\ Absent(current, "fair_value_gaps") => TrueGaps(bars, p.gaps) = {}
    BY <1>1 DEF CurrentIsTrue
  <2> HIDE DEF outcome
  <2> QED
    BY <1>2, <1>3, <2>1, <2>2 DEF outcome
<1>4. CASE c.target = "displacement_events"
  <2>1. /\ outcome = "SATISFIED" => \E v \in current.displacement_events.values : Passes(v, c)
        /\ outcome = "NOT_SATISFIED" => Absent(current, "displacement_events")
    BY <1>4, ObjectsDecide DEF current, Absent
  <2>2. Absent(current, "displacement_events") => moving = {}
    <3>1. Absent(current, "displacement_events") => ~Happened("displacement", bars, p)
      BY <1>1 DEF CurrentIsTrue
    <3> QED
      BY <3>1 DEF Happened, Families, MovesIn
  <2>3. ASSUME NEW v \in current.displacement_events.values, Passes(v, c)
        PROVE  Directed(moving)
    <3>1. v.direction \in moving
      BY <1>1, <2>3
    <3>2. Passes([direction |-> v.direction], c)
      BY <1>4, <2>3 DEF Judged, Passes
    <3> HIDE DEF moving
    <3> QED
      BY <3>1, <3>2
  <2>4. moving = {} => ~Directed(moving)
    OBVIOUS
  <2> HIDE DEF outcome, moving, Directed
  <2> QED
    BY <1>2, <1>4, <2>1, <2>2, <2>3, <2>4 DEF outcome
<1>5. CASE c.target = "order_blocks"
  <2>1. /\ outcome = "SATISFIED" => \E v \in current.order_blocks.values : Passes(v, c)
        /\ outcome = "NOT_SATISFIED" => Absent(current, "order_blocks")
    BY <1>5, ObjectsDecide DEF current, Absent
  <2>2. /\ \A v \in current.order_blocks.values : Blocks(bars, p, v.direction) # {}
        /\ Absent(current, "order_blocks") => blocked = {}
    <3>1. /\ \A v \in current.order_blocks.values : Blocks(bars, p, v.direction) # {}
          /\ Absent(current, "order_blocks") => ~Happened("order_block_created", bars, p)
      BY <1>1 DEF CurrentIsTrue
    <3> QED
      BY <3>1 DEF Happened, Families
  <2>3. ASSUME NEW v \in current.order_blocks.values, Passes(v, c)
        PROVE  Directed(blocked)
    <3>1. v.direction \in blocked
      BY <1>1, <2>2, <2>3
    <3>2. Passes([direction |-> v.direction], c)
      BY <1>5, <2>3 DEF Judged, Passes
    <3> HIDE DEF blocked
    <3> QED
      BY <3>1, <3>2
  <2>4. blocked = {} => ~Directed(blocked)
    OBVIOUS
  <2> HIDE DEF outcome, blocked, Directed
  <2> QED
    BY <1>2, <1>5, <2>1, <2>2, <2>3, <2>4 DEF outcome
<1>6. CASE c.target = "structure_state"
  <2> DEFINE state == MarketStructureOf(bars).state
             rising == Rising(bars, "high") /\ Rising(bars, "low")
  <2>1. c.reads = "SCALAR" /\ c.expected = "bullish_structure"
    BY <1>6 DEF Judged
  <2>2. current.structure_state.support = "EVIDENCED" => current.structure_state.values = {state}
    <3> DEFINE bundle == BundleOn(s, p, tf)
               results == ResultsOf(bars, p, tf)
    <3>1. "structure_state" \in DOMAIN Owner
      BY DEF Owner
    <3>2. bundle.results = results /\ results.structure = MarketStructureOf(bars)
      BY DEF BundleOn, Bundle, ResultsOf, Results
    <3>3. ValuesOf("structure_state", results) = {state}
      BY <3>2 DEF ValuesOf
    <3> HIDE DEF bundle, results, state
    <3>4. current["structure_state"].support = "EVIDENCED"
            => current["structure_state"].values = {state}
      BY <3>1, <3>2, <3>3, ClaimIs DEF current, bundle
    <3> QED
      BY <3>4
  <2>3. state = "bullish_structure" <=> rising
    BY StructureIsTrue DEF Priced
  <2>4. /\ outcome = "SATISFIED" => Compared(state, c.equal, c.expected)
        /\ outcome = "NOT_SATISFIED" => ~Compared(state, c.equal, c.expected)
    <3> HIDE DEF state
    <3> QED
      BY <1>6, <2>1, <2>2, StructureDecides DEF current
  <2>5. Holds(c, bars, p) <=> (c.equal = rising)
    BY <1>6 DEF Holds
  <2>6. Compared(state, c.equal, c.expected) <=> ((state = "bullish_structure") = c.equal)
    BY <2>1 DEF Compared
  <2> HIDE DEF state, rising, outcome
  <2>7. Compared(state, c.equal, c.expected) <=> (c.equal = rising)
    BY <2>3, <2>6
  <2> QED
    BY <2>4, <2>5, <2>7 DEF outcome
<1> QED
  BY <1>3, <1>4, <1>5, <1>6 DEF Judged

\* Every target reads a claim.
LEMMA TargetsAreOwned ==
  ASSUME NEW target \in DOMAIN Targets
  PROVE  Targets[target].field \in DOMAIN Owner
<1>1. CASE target \in StructureFields
  BY <1>1 DEF Targets, Target, StructureFields
<1>2. CASE target \notin StructureFields
  <2>1. target \in DOMAIN OtherTargets /\ Targets[target] = OtherTargets[target]
    BY <1>2 DEF Targets
  <2>2. OtherTargets[target].field \in DOMAIN Owner
    BY <2>1 DEF OtherTargets, Target, Owner
  <2> QED
    BY <2>1, <2>2
<1> QED
  BY <1>1, <1>2

\* On claims that are unknown nothing is decided.
LEMMA NothingIsDecided ==
  ASSUME NEW claims, NEW c, ValidCondition(c),
         c.reads = "ALL" => c.of \in Seq(Range(c.of)),
         \A field \in DOMAIN Owner :
            claims[c.tf][field].support = "UNKNOWN" /\ claims[c.tf][field].values = {}
  PROVE  Outcome(claims, c) = "UNKNOWN"
<1>1. ASSUME NEW atom, ValidAtom(atom), atom.tf = c.tf
      PROVE  AtomOutcome(claims, atom) = "UNKNOWN"
  <2>1. Targets[atom.target].field \in DOMAIN Owner
    BY <1>1, TargetsAreOwned DEF ValidAtom
  <2> DEFINE claim == claims[atom.tf][Targets[atom.target].field]
  <2>2. claim.support = "UNKNOWN" /\ claim.values = {}
    BY <1>1, <2>1
  <2> HIDE DEF claim
  <2>3. AtomOutcome(claims, atom)
          = IF atom.reads = "SCALAR"
              THEN IF claim.support # "EVIDENCED" THEN "UNKNOWN"
                   ELSE IF \E v \in claim.values : Matches(atom, v) THEN "SATISFIED" ELSE "NOT_SATISFIED"
            ELSE IF \E v \in claim.values : Matches(atom, v) THEN "SATISFIED"
            ELSE IF claim.support = "ABSENT_IN_SCOPE" THEN "NOT_SATISFIED" ELSE "UNKNOWN"
    BY DEF AtomOutcome, claim
  <2> QED
    BY <2>2, <2>3
<1>2. CASE c.reads # "ALL"
  BY <1>1, <1>2 DEF ValidCondition, Outcome
<1>3. CASE c.reads = "ALL"
  <2> DEFINE outcomes == {AtomOutcome(claims, c.of[k]) : k \in DOMAIN c.of}
  <2>1. Len(c.of) \in 1..32 /\ DOMAIN c.of = 1..Len(c.of)
    BY <1>3 DEF ValidCondition
  <2>2. 1 \in DOMAIN c.of
    <3>1. \A n \in 1..32 : 1 \in 1..n
      OBVIOUS
    <3> HIDE DEF outcomes
    <3> QED
      BY <2>1, <3>1
  <2>3. \A k \in DOMAIN c.of : AtomOutcome(claims, c.of[k]) = "UNKNOWN"
    BY <1>1, <1>3 DEF ValidCondition
  <2>4. outcomes = {"UNKNOWN"}
    BY <2>2, <2>3
  <2>5. Outcome(claims, c)
          = IF "NOT_SATISFIED" \in outcomes THEN "NOT_SATISFIED"
            ELSE IF "UNKNOWN" \in outcomes THEN "UNKNOWN" ELSE "SATISFIED"
    BY <1>3 DEF Outcome
  <2> QED
    BY <2>4, <2>5
<1> QED
  BY <1>2, <1>3

\* The outcome of every condition on a timeframe that could be read is right.
LEMMA OutcomesAreTrue ==
  ASSUME NEW tf, Duration[tf] \in {1, 2}, NEW p, Settled(p), NEW s, Usable(s),
         History(s.approved, tf), Priced(s.approved),
         NEW claims, NEW c, ValidCondition(c),
         claims[c.tf] = CurrentClaims(BundleOn(s, p, tf), p)
  PROVE  OutcomeIsTrue(c, Outcome(claims, c), s.approved, p)
<1> DEFINE bars == s.approved
           outcome == Outcome(claims, c)
<1>1. ASSUME NEW atom, ValidAtom(atom), Judged(atom), atom.tf = c.tf
      PROVE  /\ AtomOutcome(claims, atom) = "SATISFIED" => Holds(atom, bars, p)
             /\ AtomOutcome(claims, atom) = "NOT_SATISFIED" => ~Holds(atom, bars, p)
  BY <1>1, AtomIsTrue
<1>2. CASE c.reads # "ALL"
  <2>1. ValidAtom(c) /\ outcome = AtomOutcome(claims, c)
    BY <1>2 DEF ValidCondition, Outcome
  <2> HIDE DEF outcome
  <2>2. /\ outcome = "SATISFIED" => (Judged(c) => Holds(c, bars, p))
        /\ outcome = "NOT_SATISFIED" => (Judged(c) => ~Holds(c, bars, p))
    BY <1>1, <2>1
  <2> QED
    BY <1>2, <2>2 DEF OutcomeIsTrue, outcome
<1>3. CASE c.reads = "ALL"
  <2> DEFINE outcomes == {AtomOutcome(claims, c.of[k]) : k \in DOMAIN c.of}
             parts == Range(c.of)
  <2>1. outcome = IF "NOT_SATISFIED" \in outcomes THEN "NOT_SATISFIED"
                  ELSE IF "UNKNOWN" \in outcomes THEN "UNKNOWN" ELSE "SATISFIED"
    BY <1>3 DEF Outcome
  <2>2. \A atom \in parts : ValidAtom(atom) /\ atom.tf = c.tf
    BY <1>3 DEF ValidCondition, Range
  <2>3. outcomes = {AtomOutcome(claims, atom) : atom \in parts}
    BY DEF Range
  <2>4. \A atom \in parts : AtomOutcome(claims, atom) \in {"SATISFIED", "NOT_SATISFIED", "UNKNOWN"}
    BY DEF AtomOutcome
  <2> HIDE DEF outcome, outcomes, parts
  <2>5. outcome = "SATISFIED" => \A atom \in parts : Judged(atom) => Holds(atom, bars, p)
    BY <1>1, <2>1, <2>2, <2>3, <2>4
  <2>6. outcome = "NOT_SATISFIED" => \E atom \in parts : Judged(atom) => ~Holds(atom, bars, p)
    BY <1>1, <2>1, <2>2, <2>3
  <2> QED
    BY <1>3, <2>5, <2>6 DEF OutcomeIsTrue, outcome, parts
<1> QED
  BY <1>2, <1>3

-----------------------------------------------------------------------------
(* The feed.                                                               *)

Kept(report) == {tf \in Timeframes : report.how[tf] = "kept"}

\* Every report issued says of each usable timeframe what its detectors say of a
\* beginning of it; only a report that was handed something again is refused.
Told(report) ==
  report.status = "issued" =>
    \A tf \in Timeframes :
      /\ report.sources[tf].requested = report.requested
      /\ Usable(report.sources[tf]) => /\ Says(report, tf)
                                       /\ Continues(Closed(tf), Reads(report, tf))
Answered(k) ==
  /\ log[k].status = "refused" => Kept(log[k]) # {}
  /\ Kept(log[k]) # {} =>
       /\ k - 1 \in DOMAIN log
       /\ log[k - 1].requested # log[k].requested => log[k].status = "refused"

\* A report issued claims what its own bundles claim, of histories that are valid.
Claimed(report) ==
  report.status = "issued" =>
    /\ report.outcomes = Outcomes(report.claims.current)
    /\ \A tf \in Timeframes :
         LET s == report.sources[tf]
             bundle == BundleOn(s, profile, tf)
         IN  /\ Source(s) /\ (Usable(s) => ValidHistory(s.approved))
             /\ report.claims.current[tf] = CurrentClaims(bundle, profile)
             /\ report.claims.history[tf]
                  = HistoryClaims(bundle, TimeframeFacts(bundle, tf, profile), profile)

FeedInv ==
  /\ profile \in Profiles /\ ProfileErrors(profile) = {}
  /\ Market(candles)
  /\ log \in Seq({log[k] : k \in DOMAIN log})
  /\ \A k \in DOMAIN log : Told(log[k]) /\ Answered(k) /\ Claimed(log[k])

\* A shape becomes a candle.
LEMMA CandlesAreBars ==
  ASSUME NEW shape \in Shape, NEW at \in Int
  PROVE  Candle(shape, at) \in Bar /\ Candle(shape, at).at = at
BY DEF Candle, Shape, Bar

\* A history that goes on twice goes on.
LEMMA GoingOnTwice ==
  ASSUME NEW a, NEW b \in Seq(Bar), NEW c \in Seq(Bar), Len(a) \in Nat,
         Continues(b, a), Continues(c, b)
  PROVE  Continues(c, a)
<1>1. Len(b) \in Nat /\ Len(c) \in Nat /\ \A i \in 1..Len(a) : i \in 1..Len(b)
  BY DEF Continues
<1> QED
  BY <1>1 DEF Continues

\* The feed begins with candles and no reports.
LEMMA FeedStarts == Init => FeedInv
<1> SUFFICES ASSUME Init PROVE FeedInv
  OBVIOUS
<1>1. profile \in Profiles /\ ProfileErrors(profile) = {} /\ log = << >>
  BY DEF Init
<1>2. PICK prefix \in Openings : candles = [k \in DOMAIN prefix |-> Candle(prefix[k], k - 1)]
  BY DEF Init
<1>3. prefix \in Seq(Shape) /\ Len(prefix) \in Nat /\ Len(prefix) >= 2
  BY MarketAssumption
<1>4. \A k \in 1..Len(prefix) : Candle(prefix[k], k - 1) \in Bar /\ Candle(prefix[k], k - 1).at = k - 1
  BY <1>3, CandlesAreBars
<1>5. candles \in Seq(Bar) /\ Len(candles) = Len(prefix)
      /\ \A k \in 1..Len(prefix) : candles[k].at = k - 1
  BY <1>2, <1>3, <1>4
<1>6. Market(candles)
  BY <1>3, <1>5 DEF Market
<1> QED
  BY <1>1, <1>6 DEF FeedInv

\* A further candle rewrites nothing.
LEMMA TickKeeps == FeedInv /\ Tick => FeedInv'
<1> SUFFICES ASSUME FeedInv, Tick PROVE FeedInv'
  OBVIOUS
<1>1. PICK shape \in Shapes : candles' = Append(candles, Candle(shape, now))
  BY DEF Tick
<1>2. /\ profile' = profile /\ log' = log
      /\ profile \in Profiles /\ ProfileErrors(profile) = {} /\ Market(candles)
      /\ log \in Seq({log[k] : k \in DOMAIN log})
  BY DEF Tick, FeedInv
<1>3. now = Len(candles) /\ now \in Nat /\ now >= 2 /\ candles \in Seq(Bar)
      /\ \A k \in 1..now : candles[k].at = k - 1
  BY <1>2 DEF Market, now
<1>4. Candle(shape, now) \in Bar /\ Candle(shape, now).at = now
  BY <1>3, MarketAssumption, CandlesAreBars
<1>5. /\ candles' \in Seq(Bar) /\ Len(candles') = now + 1
      /\ \A k \in 1..now : candles'[k] = candles[k]
      /\ candles'[now + 1] = Candle(shape, now)
  <2> HIDE DEF now
  <2> QED
    BY <1>1, <1>3, <1>4
<1>6. Market(candles') /\ Continues(candles', candles)
  <2>1. \A k \in 1..Len(candles') : k \in 1..now \/ k = now + 1
    BY <1>3, <1>5
  <2>2. \A k \in 1..Len(candles') : candles'[k].at = k - 1
    BY <1>3, <1>4, <1>5, <2>1
  <2> QED
    BY <1>3, <1>5, <2>2 DEF Market, Continues
<1>7. ASSUME NEW tf \in Timeframes
      PROVE  Continues(Closed(tf)', Closed(tf)) /\ Closed(tf) \in Seq(Bar) /\ Closed(tf)' \in Seq(Bar)
  <2>1. Duration[tf] \in {1, 2}
    BY FeedAssumption
  <2>2. Closed(tf) = ClosedOf(candles, tf) /\ Closed(tf)' = ClosedOf(candles', tf)
    BY DEF Closed, ClosedOf, now
  <2> QED
    BY <1>2, <1>6, <2>1, <2>2, ClosedGoesOn, ClosedIsHistory DEF History
<1>8. ASSUME NEW k \in DOMAIN log
      PROVE  Told(log[k])' /\ Answered(k)' /\ Claimed(log[k])'
  <2>1. Told(log[k]) /\ Answered(k) /\ Claimed(log[k])
    BY DEF FeedInv
  <2>2. Answered(k)' /\ Claimed(log[k])'
    <3>1. Answered(k)'
      BY <1>2, <2>1 DEF Answered, Kept
    <3>2. Claimed(log[k])'
      BY <1>2, <2>1 DEF Claimed, BundleOn, Outcomes
    <3> QED
      BY <3>1, <3>2
  <2>3. ASSUME log[k].status = "issued", NEW tf \in Timeframes, Usable(log[k].sources[tf])
        PROVE  Says(log[k], tf)' /\ Continues(Closed(tf)', Reads(log[k], tf))
    <3>1. Says(log[k], tf) /\ Continues(Closed(tf), Reads(log[k], tf))
      BY <2>1, <2>3 DEF Told
    <3>2. Says(log[k], tf)'
      BY <1>2, <3>1 DEF Says, History, FactsOfFrame
    <3>3. Len(Reads(log[k], tf)) \in Nat
      BY <3>1 DEF Says, History, Reads
    <3> QED
      BY <1>7, <3>1, <3>2, <3>3, GoingOnTwice
  <2> QED
    BY <1>2, <2>1, <2>2, <2>3 DEF Told, Reads
<1> QED
  BY <1>2, <1>6, <1>8 DEF FeedInv

\* The envelopes of a bundle are of its source.
LEMMA EnvelopesAreOfTheSource ==
  ASSUME NEW s, NEW tf
  PROVE  BundleOf(s, tf).envelopes["structure"].source = s
<1> DEFINE results == ResultsOf(s.approved, profile, tf)
           classes == IF Usable(s) THEN Classes(s.approved, results) ELSE NothingFound
<1>1. BundleOf(s, tf) = Bundle(s, profile, results)
  BY DEF BundleOf
<1> HIDE DEF results
<1>2. BundleOf(s, tf).envelopes = [c \in Capabilities |-> Envelope(c, s, classes)]
  BY <1>1 DEF Bundle
<1>3. "structure" \in Capabilities
  BY DEF Capabilities
<1> HIDE DEF classes
<1> QED
  BY <1>2, <1>3 DEF Envelope

\* An accepted report is made of its own sources, whatever was handed in.
LEMMA AcceptedAreOwn ==
  ASSUME NEW sources, NEW at, NEW bundles, Accepted(SourceContext(sources, at), bundles),
         NEW tf \in Timeframes, NEW s, bundles[tf] = BundleOf(s, tf)
  PROVE  s = sources[tf] /\ s.requested = at
<1> DEFINE context == SourceContext(sources, at)
<1>1. context.sources = sources /\ context.requested = at
  BY DEF SourceContext
<1>2. FactualContextErrors(context, bundles) = {}
  BY DEF Accepted
<1>3. "structure" \in Capabilities
  BY DEF Capabilities
<1> HIDE DEF context
<1>4. /\ ~(bundles[tf].envelopes["structure"].source.requested # context.requested)
      /\ ValidEnvelope(bundles[tf].envelopes["structure"], context.sources[tf])
  BY <1>2, <1>3 DEF FactualContextErrors
<1> QED
  BY <1>1, <1>4, EnvelopesAreOfTheSource DEF ValidEnvelope

\* An evaluation adds a report that says what its own sources say.
LEMMA EvaluateKeeps == FeedInv /\ Evaluate => FeedInv'
<1> SUFFICES ASSUME FeedInv, Evaluate PROVE FeedInv'
  OBVIOUS
<1> DEFINE n == Len(log)
           kept(how) == {tf \in Timeframes : how[tf] = "kept"}
           fresh(how) == [tf \in Timeframes |-> Snapshot(tf, Delivered(tf, how[tf]), now)]
           sources(how) == OnTimeframes(fresh(how))
           read(how, tf) == IF tf \in kept(how) THEN log[n].sources[tf] ELSE sources(how)[tf]
           made(how) == [tf \in Timeframes |-> BundleOf(read(how, tf), tf)]
           bundles(how) == OnTimeframes(made(how))
<1>1. PICK how \in Deliveries :
        /\ kept(how) # {} => log # << >> /\ log[n].status = "issued"
        /\ log' = Append(log, Report(how, SourceContext(sources(how), now), bundles(how)))
  BY DEF Evaluate
<1> DEFINE context == SourceContext(sources(how), now)
           report == Report(how, context, bundles(how))
<1>2. \A tf \in Timeframes : sources(how)[tf] = Snapshot(tf, Delivered(tf, how[tf]), now)
  <2>1. \A tf \in Timeframes : fresh(how)[tf] = Snapshot(tf, Delivered(tf, how[tf]), now)
    OBVIOUS
  <2> HIDE DEF fresh
  <2>2. \A tf \in Timeframes : sources(how)[tf] = fresh(how)[tf]
    BY TabulatedIs
  <2> QED
    BY <2>1, <2>2
<1>3. \A tf \in Timeframes : bundles(how)[tf] = BundleOf(read(how, tf), tf)
  <2>1. \A tf \in Timeframes : made(how)[tf] = BundleOf(read(how, tf), tf)
    OBVIOUS
  <2> HIDE DEF made, read
  <2>2. \A tf \in Timeframes : bundles(how)[tf] = made(how)[tf]
    BY TabulatedIs
  <2> QED
    BY <2>1, <2>2
<1> HIDE DEF sources, bundles
<1>4. /\ profile' = profile /\ candles' = candles
      /\ profile \in Profiles /\ ProfileErrors(profile) = {} /\ Market(candles)
      /\ log \in Seq({log[k] : k \in DOMAIN log})
      /\ \A k \in DOMAIN log : Told(log[k]) /\ Answered(k) /\ Claimed(log[k])
  BY DEF Evaluate, FeedInv
<1>5. Sound(profile)
  BY <1>4, AcceptedSettingsAreSound
<1>6. /\ OfOneInstant(sources(how), now)
      /\ \A tf \in Timeframes : Usable(sources(how)[tf]) => Continues(Closed(tf), sources(how)[tf].approved)
  BY <1>2, <1>4, SnapshotsAreOfOneInstant
<1>7. /\ report.status = IF Accepted(context, bundles(how)) THEN "issued" ELSE "refused"
      /\ report.how = how /\ report.requested = now
      /\ report.status = "issued" =>
           /\ report.sources = sources(how)
           /\ \A tf \in Timeframes :
                 /\ report.facts[tf] = TimeframeFacts(bundles(how)[tf], tf, profile).facts
                 /\ report.keptBack[tf] = KeptBack(bundles(how)[tf].results)
           /\ report.outcomes = Outcomes(report.claims.current)
           /\ \A tf \in Timeframes :
                 LET bundle == bundles(how)[tf]
                 IN  /\ report.claims.current[tf] = CurrentClaims(bundle, profile)
                     /\ report.claims.history[tf]
                          = HistoryClaims(bundle, TimeframeFacts(bundle, tf, profile), profile)
  <2>1. context.sources = sources(how) /\ context.requested = now
    BY DEF SourceContext
  <2> HIDE DEF context
  <2> QED
    BY <2>1, ReportIs
<1>8. ASSUME report.status = "issued", NEW tf \in Timeframes
       PROVE  /\ report.sources = sources(how) /\ report.requested = now
              /\ report.sources[tf].requested = now
              /\ bundles(how)[tf] = BundleOn(report.sources[tf], profile, tf)
  <2>1. Accepted(context, bundles(how))
    BY <1>7, <1>8
  <2>2. read(how, tf) = sources(how)[tf] /\ read(how, tf).requested = now
    <3> HIDE DEF read
    <3> QED
      BY <1>3, <2>1, AcceptedAreOwn
  <2>3. report.sources = sources(how) /\ report.requested = now
    BY <1>7, <1>8
  <2>4. bundles(how)[tf] = BundleOn(report.sources[tf], profile, tf)
    <3> HIDE DEF read, report
    <3> QED
      BY <1>3, <2>2, <2>3 DEF BundleOf, BundleOn
  <2> HIDE DEF report
  <2> QED
    BY <2>2, <2>3, <2>4
<1>9. Told(report)
  <2> SUFFICES ASSUME report.status = "issued", NEW tf \in Timeframes
               PROVE  /\ report.sources[tf].requested = report.requested
                      /\ Usable(report.sources[tf]) => /\ Says(report, tf)
                                                       /\ Continues(Closed(tf), Reads(report, tf))
    BY DEF Told
  <2> HIDE DEF report
  <2>1. report.sources = sources(how) /\ report.requested = now
        /\ report.sources[tf].requested = now
    BY <1>8
  <2>2. bundles(how)[tf] = BundleOn(report.sources[tf], profile, tf)
    BY <1>8
  <2>3. report.facts[tf] = FactsOfFrame(report.sources[tf], profile, tf)
    BY <1>7, <2>2 DEF FactsOfFrame
  <2>4. report.keptBack[tf] = KeptBack(ResultsOf(report.sources[tf].approved, profile, tf))
    <3>1. bundles(how)[tf].results = ResultsOf(report.sources[tf].approved, profile, tf)
      BY <2>2 DEF BundleOn, Bundle
    <3> QED
      BY <1>7, <3>1
  <2> QED
    BY <1>6, <2>1, <2>3, <2>4 DEF Says, Reads, OfOneInstant
<1>10. Claimed(report)
  <2> SUFFICES ASSUME report.status = "issued"
               PROVE  /\ report.outcomes = Outcomes(report.claims.current)
                      /\ \A tf \in Timeframes :
                           LET s == report.sources[tf]
                               bundle == BundleOn(s, profile, tf)
                           IN  /\ Source(s) /\ (Usable(s) => ValidHistory(s.approved))
                               /\ report.claims.current[tf] = CurrentClaims(bundle, profile)
                               /\ report.claims.history[tf]
                                    = HistoryClaims(bundle, TimeframeFacts(bundle, tf, profile), profile)
    BY DEF Claimed
  <2>1. report.outcomes = Outcomes(report.claims.current)
    BY <1>7
  <2>2. ASSUME NEW tf \in Timeframes
        PROVE  LET s == report.sources[tf]
                   bundle == BundleOn(s, profile, tf)
               IN  /\ Source(s) /\ (Usable(s) => ValidHistory(s.approved))
                   /\ report.claims.current[tf] = CurrentClaims(bundle, profile)
                   /\ report.claims.history[tf]
                        = HistoryClaims(bundle, TimeframeFacts(bundle, tf, profile), profile)
    <3> HIDE DEF report
    <3>1. report.sources = sources(how) /\ bundles(how)[tf] = BundleOn(report.sources[tf], profile, tf)
      BY <1>8
    <3>2. Source(sources(how)[tf]) /\ ValidSource(sources(how)[tf])
      BY <1>6 DEF OfOneInstant
    <3>3. Usable(sources(how)[tf]) => ValidHistory(sources(how)[tf].approved)
      BY <3>2 DEF ValidSource, Usable
    <3> QED
      BY <1>7, <3>1, <3>2, <3>3
  <2> HIDE DEF report
  <2> QED
    BY <2>1, <2>2
<1>11. report.status = "refused" => kept(how) # {}
  <2> SUFFICES ASSUME kept(how) = {} PROVE report.status = "issued"
    BY <1>7
  <2>1. \A tf \in Timeframes : bundles(how)[tf] = BundleOf(sources(how)[tf], tf)
    BY <1>3
  <2> HIDE DEF kept
  <2>2. Accepted(context, bundles(how))
    BY <1>5, <1>6, <2>1, FreshIsAccepted
  <2> QED
    BY <1>7, <2>2
<1>12. ASSUME kept(how) # {}, log[n].requested # now
       PROVE  report.status = "refused"
  <2>1. PICK tf \in Timeframes : how[tf] = "kept"
    BY <1>12
  <2>2. log # << >> /\ log[n].status = "issued" /\ n \in DOMAIN log
    <3>1. log # << >> /\ log[n].status = "issued"
      BY <1>1, <1>12
    <3> QED
      BY <1>4, <3>1
  <2>3. read(how, tf) = log[n].sources[tf]
    BY <2>1
  <2>4. log[n].sources[tf].requested = log[n].requested
    BY <1>4, <2>2 DEF Told
  <2> HIDE DEF read
  <2>5. ~Accepted(context, bundles(how))
    BY <1>3, <1>12, <2>3, <2>4, AcceptedAreOwn
  <2> QED
    BY <1>7, <2>5
<1> HIDE DEF report, context
<1>13. /\ n \in Nat /\ DOMAIN log = 1..n /\ DOMAIN log' = 1..(n + 1)
       /\ \A k \in 1..n : log'[k] = log[k]
       /\ log'[n + 1] = report
       /\ log' \in Seq({log'[k] : k \in DOMAIN log'})
  <2>1. log' = Append(log, report)
    BY <1>1 DEF report, context
  <2>2. n \in Nat /\ DOMAIN log = 1..n
    BY <1>4
  <2>3. /\ Len(Append(log, report)) = n + 1 /\ DOMAIN Append(log, report) = 1..(n + 1)
        /\ \A k \in 1..n : Append(log, report)[k] = log[k]
        /\ Append(log, report)[n + 1] = report
    BY <1>4
  <2>4. DOMAIN log' = 1..(n + 1) /\ Len(log') = n + 1
    BY <2>1, <2>3
  <2>5. log' \in Seq({log[k] : k \in DOMAIN log} \cup {report})
    BY <1>4, <2>1
  <2>6. log' \in Seq({log'[k] : k \in DOMAIN log'})
    BY <2>4, <2>5
  <2> QED
    BY <2>1, <2>2, <2>3, <2>4, <2>6
<1>14. ASSUME NEW k \in DOMAIN log'
       PROVE  Told(log[k])' /\ Answered(k)' /\ Claimed(log[k])'
  <2>1. CASE k \in 1..n
    <3>1. Told(log[k]) /\ Answered(k) /\ Claimed(log[k]) /\ log'[k] = log[k]
      BY <1>4, <1>13, <2>1
    <3>2. Claimed(log[k])'
      BY <1>4, <3>1 DEF Claimed, BundleOn, Outcomes
    <3>3. Told(log[k])'
      BY <1>4, <3>1 DEF Told, Says, History, FactsOfFrame, Reads, Closed, now
    <3>4. Answered(k)'
      <4>1. k - 1 \in DOMAIN log => k - 1 \in DOMAIN log' /\ log'[k - 1] = log[k - 1]
        BY <1>13
      <4> QED
        BY <3>1, <4>1 DEF Answered, Kept
    <3> QED
      BY <3>3, <3>4, <3>2
  <2>2. CASE k = n + 1
    <3>1. log'[k] = report
      BY <1>13, <2>2
    <3>2. Claimed(log[k])'
      BY <1>4, <1>10, <3>1 DEF Claimed, BundleOn, Outcomes
    <3>3. Told(log[k])'
      BY <1>4, <1>9, <3>1 DEF Told, Says, History, FactsOfFrame, Reads, Closed, now
    <3>4. Kept(report) = kept(how)
      BY <1>7 DEF Kept
    <3>5. kept(how) # {} => k - 1 = n /\ n \in DOMAIN log' /\ log'[n] = log[n]
      <4>1. kept(how) # {} => n # 0
        BY <1>1, <1>4
      <4> QED
        BY <1>13, <2>2, <4>1
    <3> HIDE DEF kept
    <3>6. Answered(k)'
      BY <1>7, <1>11, <1>12, <3>1, <3>4, <3>5 DEF Answered, Kept
    <3> QED
      BY <3>3, <3>6, <3>2
  <2> QED
    BY <1>13, <2>1, <2>2
<1> QED
  BY <1>4, <1>13, <1>14 DEF FeedInv

\* The invariant holds always.
LEMMA FeedInvHolds == Spec => []FeedInv
<1>1. Init => FeedInv
  BY FeedStarts
<1>2. FeedInv /\ [Next]_vars => FeedInv'
  <2> SUFFICES ASSUME FeedInv, [Next]_vars PROVE FeedInv'
    OBVIOUS
  <2>1. CASE UNCHANGED vars
    <3>1. profile' = profile /\ candles' = candles /\ log' = log
      BY <2>1 DEF vars
    <3>2. ASSUME NEW k \in DOMAIN log
          PROVE  Told(log[k])' /\ Answered(k)' /\ Claimed(log[k])'
      <4>1. Told(log[k]) /\ Answered(k) /\ Claimed(log[k])
        BY DEF FeedInv
      <4>2. Told(log[k])'
        BY <3>1, <4>1 DEF Told, Says, History, FactsOfFrame, Reads, Closed, now
      <4>3. Answered(k)'
        BY <3>1, <4>1 DEF Answered, Kept
      <4>4. Claimed(log[k])'
        BY <3>1, <4>1 DEF Claimed, BundleOn, Outcomes
      <4> QED
        BY <4>2, <4>3, <4>4
    <3>3. FeedInv
      OBVIOUS
    <3> QED
      BY <3>1, <3>2, <3>3 DEF FeedInv
  <2> QED
    BY <2>1, TickKeeps, EvaluateKeeps DEF Next
<1> QED
  BY <1>1, <1>2, PTL DEF Spec

\* Of two beginnings of one history the longer goes on from the shorter.
LEMMA BeginningsGoOn ==
  ASSUME NEW a \in Seq(Bar), NEW b \in Seq(Bar), NEW c \in Seq(Bar),
         Continues(c, a), Continues(c, b), Len(a) <= Len(b)
  PROVE  Continues(b, a)
<1>1. Len(a) \in Nat /\ Len(b) \in Nat
  OBVIOUS
<1> QED
  BY <1>1 DEF Continues

\* Reports that say what their detectors say of one market agree.
LEMMA FeedIsTold == FeedInv => KnownAsPublished
<1> SUFFICES ASSUME FeedInv PROVE KnownAsPublished
  OBVIOUS
<1>1. Market(candles) /\ Sound(profile)
  BY AcceptedSettingsAreSound DEF FeedInv
<1>2. ASSUME NEW a \in IssuedReports, NEW b \in IssuedReports, NEW tf \in Timeframes,
             Usable(log[a].sources[tf]), Usable(log[b].sources[tf]),
             Len(Reads(log[a], tf)) <= Len(Reads(log[b], tf))
      PROVE  Agree(log[a], log[b], tf)
  <2>1. Duration[tf] \in {1, 2}
    BY FeedAssumption
  <2>2. /\ Says(log[a], tf) /\ Continues(Closed(tf), Reads(log[a], tf))
        /\ Says(log[b], tf) /\ Continues(Closed(tf), Reads(log[b], tf))
    BY <1>2 DEF FeedInv, Told, IssuedReports
  <2>3. Closed(tf) \in Seq(Bar)
    <3>1. Closed(tf) = ClosedOf(candles, tf)
      BY DEF Closed, ClosedOf, now
    <3> QED
      BY <1>1, <2>1, <3>1, ClosedIsHistory DEF History
  <2>4. Reads(log[a], tf) \in Seq(Bar) /\ Reads(log[b], tf) \in Seq(Bar)
    BY <2>2 DEF Says, History, Reads
  <2>5. Continues(Reads(log[b], tf), Reads(log[a], tf))
    BY <1>2, <2>2, <2>3, <2>4, BeginningsGoOn
  <2> QED
    BY <1>1, <1>2, <2>1, <2>2, <2>5, ReportsAgree
<1>3. ASSUME NEW k \in DOMAIN log
      PROVE  LET kept == {tf \in Timeframes : log[k].how[tf] = "kept"}
             IN  /\ log[k].status = "refused" => kept # {}
                 /\ kept # {} /\ log[k - 1].requested # log[k].requested
                       => log[k].status = "refused"
  BY DEF FeedInv, Answered, Kept
<1> QED
  BY <1>2, <1>3 DEF KnownAsPublished

\* Whatever two reports say of one timeframe agrees on what both could know, and
\* only what was not produced together is refused.
THEOREM NothingIsRewritten == Spec => []KnownAsPublished
<1>1. FeedInv => KnownAsPublished
  BY FeedIsTold
<1> QED
  BY <1>1, FeedInvHolds, PTL

\* Reports that claim what their bundles claim of valid histories are right.
LEMMA FeedIsSo == FeedInv => ClaimsAreTrue
<1> SUFFICES ASSUME FeedInv, log # << >>, Len(log) \in IssuedReports, NEW tf \in Timeframes
             PROVE  LET report == log[Len(log)]
                    IN  IF Usable(report.sources[tf])
                          THEN /\ HistoryIsTrue(report.claims.history[tf], Reads(report, tf), profile)
                               /\ CurrentIsTrue(report.claims.current[tf], Reads(report, tf), profile)
                               /\ \A o \in report.outcomes : o[1].tf = tf =>
                                     OutcomeIsTrue(o[1], o[2], Reads(report, tf), profile)
                          ELSE /\ \A field \in DOMAIN Owner :
                                     report.claims.current[tf][field].support = "UNKNOWN"
                               /\ \A o \in report.outcomes : o[1].tf = tf => o[2] = "UNKNOWN"
  BY DEF ClaimsAreTrue
<1> DEFINE report == log[Len(log)]
           s == report.sources[tf]
           bars == s.approved
           bundle == BundleOn(s, profile, tf)
           current == report.claims.current
<1>1. Told(report) /\ Claimed(report) /\ report.status = "issued"
  BY DEF FeedInv, IssuedReports
<1>2. Settled(profile) /\ Duration[tf] \in {1, 2}
  BY AcceptedSettingsAreSettled, FeedAssumption DEF FeedInv
<1> HIDE DEF report
<1>3. /\ Source(s) /\ (Usable(s) => ValidHistory(bars))
      /\ current[tf] = CurrentClaims(bundle, profile)
      /\ report.claims.history[tf] = HistoryClaims(bundle, TimeframeFacts(bundle, tf, profile), profile)
      /\ report.outcomes = Outcomes(current)
  BY <1>1 DEF Claimed
<1>4. Reads(report, tf) = bars
  BY DEF Reads
<1>5. ASSUME NEW o \in report.outcomes
      PROVE  /\ o[2] = Outcome(current, o[1]) /\ ValidCondition(o[1])
             /\ o[1].reads = "ALL" => o[1].of \in Seq(Range(o[1].of))
  <2>1. PICK c \in Conditions : o = <<c, Outcome(current, c)>>
    BY <1>3 DEF Outcomes
  <2>2. o[1] = c /\ o[2] = Outcome(current, c)
    BY <2>1
  <2> QED
    BY <2>2, FeedAssumption
<1>6. CASE Usable(s)
  <2>1. History(bars, tf) /\ Priced(bars)
    <3>1. History(bars, tf)
      BY <1>1, <1>6 DEF Told, Says
    <3> QED
      BY <1>3, <1>6, <3>1 DEF History, Priced
  <2>2. /\ HistoryIsTrue(report.claims.history[tf], bars, profile)
        /\ CurrentIsTrue(current[tf], bars, profile)
    BY <1>2, <1>3, <1>6, <2>1, CurrentClaimsAreTrue, HistoryClaimsAreTrue
  <2>3. ASSUME NEW o \in report.outcomes, o[1].tf = tf
        PROVE  OutcomeIsTrue(o[1], o[2], bars, profile)
    BY <1>2, <1>3, <1>5, <1>6, <2>1, <2>3, OutcomesAreTrue
  <2> HIDE DEF s, current
  <2> QED
    BY <1>4, <1>6, <2>2, <2>3 DEF report, s, current
<1>7. CASE ~Usable(s)
  <2>1. \A field \in DOMAIN Owner :
          current[tf][field].support = "UNKNOWN" /\ current[tf][field].values = {}
    BY <1>3, <1>7, NothingIsClaimed
  <2>2. ASSUME NEW o \in report.outcomes, o[1].tf = tf
        PROVE  o[2] = "UNKNOWN"
    BY <1>5, <2>1, <2>2, NothingIsDecided
  <2> HIDE DEF s, current
  <2> QED
    BY <1>7, <2>1, <2>2 DEF report, s, current
<1> QED
  BY <1>6, <1>7

\* What a report says was seen was there, what it says was absent was not, and the
\* outcomes it gives conditions are those of the candles it read.
THEOREM WhatIsClaimedIsSo == Spec => []ClaimsAreTrue
<1>1. FeedInv => ClaimsAreTrue
  BY FeedIsSo
<1> QED
  BY <1>1, FeedInvHolds, PTL

=============================================================================
