----------------------- MODULE TradeManagementProofs -----------------------
(***************************************************************************)
(* What the runs of TradeManagement check on a risk of two ticks and five  *)
(* minutes, for every risk, horizon, set of candles and evidence.          *)
(***************************************************************************)
EXTENDS TradePaths, FiniteSetTheorems, TLAPS

-----------------------------------------------------------------------------
(* The inductive invariant.                                                *)

\* The milestones are what the recorded excursion says they are, and were
\* established by a minute already replayed.
MilestonesAreObserved ==
  \A v \in Variants :
    /\ replay[v].first_1r # Missing <=> replay[v].mfe >= R
    /\ replay[v].latched_2r <=> replay[v].mfe >= 2 * R
    /\ replay[v].first_1r # Missing => replay[v].first_1r <= minute

\* The gate of A, B and C is open throughout; that of D and E opens after 1R.
GatesFollowMilestones ==
  \A v \in Variants :
    /\ v \in {"A", "B", "C"} => replay[v].gate_open
    /\ v \in {"D", "E"} /\ replay[v].gate_open => replay[v].first_1r # Missing

\* An open variant has the stage its milestones permit, has met neither its
\* initial stop nor the target.  A never has another stop.
StageIsPermitted ==
  \A v \in Variants :
    /\ v = "A" => replay[v].stage = 0
    /\ replay[v].stage >= 1 => replay[v].mfe >= R
    /\ replay[v].stage = 2 => replay[v].mfe >= 2 * R
    /\ Observing(v) =>
         /\ replay[v].stage = PermittedStage(v, replay[v])
         /\ replay[v].mae < R /\ replay[v].mfe < 3 * R

\* Open variants have seen the same candles.
SameObservations ==
  \A v, w \in Variants : Observing(v) /\ Observing(w) => replay[v].mfe = replay[w].mfe

\* C leaves first and A last.
Nested ==
  /\ Observing("C") => \A v \in Variants : ~Ended(v)
  /\ Ended("A") => \A v \in Variants : ~Observing(v)

\* Behind an open variant there is no hole in the minute candles.
NoHoleBehind ==
  (\E v \in Variants : Observing(v)) =>
    /\ m1[2] \in Int
    /\ minute >= 1 => m1[1] \in Int

IInv ==
  /\ TypeOK
  /\ MilestonesAreObserved
  /\ GatesFollowMilestones
  /\ StageIsPermitted
  /\ SameObservations
  /\ Nested
  /\ NoHoleBehind
  /\ DNeverStarves

-----------------------------------------------------------------------------
(* Candles, in the direction of the candidate.                             *)

CandleType == [open : Int, high : Int, low : Int]

\* Signed movements undo the mirroring of a SHORT candidate's candles.
LEMMA CandleMoves ==
  ASSUME sign \in {1, -1}, NEW s \in Shapes
  PROVE  /\ Candle(s) \in CandleType
         /\ Candle(s).open * sign = s.open
         /\ Adverse(Candle(s)) * sign = s.adv
         /\ Favorable(Candle(s)) * sign = s.fav
         /\ Adverse(Candle(s)) \in Int /\ Favorable(Candle(s)) \in Int
         /\ s.open \in Int /\ s.adv \in Int /\ s.fav \in Int
         /\ s.adv <= s.open /\ s.open <= s.fav
<1>1. s \in [open : Int, fav : Int, adv : Int] /\ s.adv <= s.open /\ s.open <= s.fav
  BY ShapesAreCandles
<1>2. CASE sign = 1
  BY <1>1, <1>2 DEF Candle, CandleType, Adverse, Favorable
<1>3. CASE sign = -1
  BY <1>1, <1>3 DEF Candle, CandleType, Adverse, Favorable
<1> QED
  BY <1>2, <1>3

\* The levels are integers.
LEMMA LevelsAreIntegers ==
  ASSUME sign \in {1, -1}, NEW stage \in 0..2
  PROVE  Level(stage) \in Int /\ Target \in Int /\ R \in Nat /\ R >= 1
  BY SizesAreNat DEF Level, Target

\* The candle stays strictly between the stop of a stage and the target.
Held(stage, s) == s.adv > (stage - 1) * R /\ s.fav < 3 * R

\* A candle leaves no alternative exactly when it stays strictly between the
\* stop in force and the target.
LEMMA NoBarrierMet ==
  ASSUME sign \in {1, -1}, NEW stage \in 0..2, NEW s \in Shapes, NEW at
  PROVE  Alternatives(stage, Candle(s), at) = {} <=> Held(stage, s)
<1> DEFINE c == Candle(s)
           openStop == (c.open - Level(stage)) * sign <= 0
           openTarget == (c.open - Target) * sign >= 0
           stopTouch == IF sign = 1 THEN c.low <= Level(stage) ELSE c.high >= Level(stage)
           targetTouch == IF sign = 1 THEN c.high >= Target ELSE c.low <= Target
<1>1. s \in [open : Int, fav : Int, adv : Int] /\ s.adv <= s.open /\ s.open <= s.fav
      /\ R \in Nat /\ R >= 1
  BY ShapesAreCandles, SizesAreNat
<1>2. Alternatives(stage, c, at) = {} <=> ~openStop /\ ~openTarget /\ ~stopTouch /\ ~targetTouch
  BY DEF Alternatives
<1>3. PICK l \in Int : l = (stage - 1) * R
  BY <1>1
<1>4. ASSUME sign = 1
      PROVE  /\ openStop <=> s.open <= l
             /\ openTarget <=> s.open >= 3 * R
             /\ stopTouch <=> s.adv <= l
             /\ targetTouch <=> s.fav >= 3 * R
  <2>1. Level(stage) = l /\ Target = 3 * R
    BY <1>1, <1>3, <1>4 DEF Level, Target
  <2>2. c.open = s.open /\ c.high = s.fav /\ c.low = s.adv
    BY <1>1, <1>4 DEF Candle
  <2> QED
    BY <1>1, <1>3, <1>4, <2>1, <2>2
<1>5. ASSUME sign = -1
      PROVE  /\ openStop <=> s.open <= l
             /\ openTarget <=> s.open >= 3 * R
             /\ stopTouch <=> s.adv <= l
             /\ targetTouch <=> s.fav >= 3 * R
  <2>1. Level(stage) = -l /\ Target = -(3 * R)
    BY <1>1, <1>3, <1>5 DEF Level, Target
  <2>2. c.open = -s.open /\ c.high = -s.adv /\ c.low = -s.fav
    BY <1>1, <1>5 DEF Candle
  <2> QED
    BY <1>1, <1>3, <1>5, <2>1, <2>2
<1> QED
  BY <1>1, <1>2, <1>3, <1>4, <1>5 DEF Held

\* A looser stop holds wherever a tighter one does.
LEMMA LooserHoldsToo ==
  ASSUME NEW a \in 0..2, NEW b \in 0..2, a <= b, NEW s \in Shapes, Held(b, s)
  PROVE  Held(a, s) /\ -s.adv < R /\ s.fav < 3 * R
<1>1. s.adv \in Int /\ s.fav \in Int /\ R \in Nat /\ R >= 1
  BY ShapesAreCandles, SizesAreNat
<1>2. /\ b = 0 \/ b = 1 \/ b = 2
      /\ a = 0 \/ a = 1 \/ a = 2
  OBVIOUS
<1>3. CASE b = 0
  BY <1>1, <1>2, <1>3 DEF Held
<1>4. CASE b = 1
  BY <1>1, <1>2, <1>4 DEF Held
<1>5. CASE b = 2
  BY <1>1, <1>2, <1>5 DEF Held
<1> QED
  BY <1>2, <1>3, <1>4, <1>5

\* An alternative has its type, under any stop.
LEMMA AlternativesTyped ==
  ASSUME sign \in {1, -1}, NEW at \in 1..Horizon,
         NEW stage \in 0..2, NEW s \in Shapes
  PROVE  Alternatives(stage, Candle(s), at) \subseteq AlternativeType
<1>1. Candle(s) \in CandleType /\ Candle(s).open \in Int
  BY CandleMoves DEF CandleType
<1>2. Level(stage) \in Int /\ Target \in Int
  BY LevelsAreIntegers
<1>3. Mechanisms[stage + 1] \in {"INITIAL_RISK_STOP", "BREAK_EVEN_STOP", "PROTECTED_PROFIT_STOP"}
  BY DEF Mechanisms
<1>4. ASSUME NEW mechanism \in {"INITIAL_RISK_STOP", "BREAK_EVEN_STOP",
                               "PROTECTED_PROFIT_STOP", "FINAL_TARGET"},
             NEW mark \in Int,
             NEW order \in {"NONE", "STOP_BEFORE_TARGET", "TARGET_BEFORE_STOP"}
      PROVE  Alternative(stage, Candle(s), at, mechanism, mark, order) \in AlternativeType
  BY <1>1, <1>2 DEF Alternative, AlternativeType, CandleType
<1> QED
  BY <1>1, <1>2, <1>3, <1>4 DEF Alternatives

-----------------------------------------------------------------------------
(* What each part of a step does to the record of one variant.             *)

LEMMA FinishedFields ==
  ASSUME minute \in 0..(Horizon - 1), NEW r \in ReplayType,
         NEW status \in Terminals \cup Censorings,
         NEW reason \in {"TERMINAL", "HORIZON", "M1_RELATIONSHIP", "M1_EVIDENCE",
                        "M1_END", "GATE_EVIDENCE", "GATE_END"}
  PROVE  LET f == Finished(r, status, reason)
         IN  /\ f \in ReplayType
             /\ f.status = status /\ f.reason = reason
             /\ f.mae = r.mae /\ f.mfe = r.mfe /\ f.stage = r.stage
             /\ f.first_1r = r.first_1r /\ f.latched_2r = r.latched_2r
             /\ f.gate_open = r.gate_open /\ f.alternatives = r.alternatives
             /\ f.completed = minute + 1
<1>1. minute + 1 \in 1..Horizon
  BY SizesAreNat
<1> QED
  BY <1>1 DEF Finished, ReplayType

LEMMA SurvivedFields ==
  ASSUME sign \in {1, -1}, minute \in 0..(Horizon - 1),
         NEW r \in ReplayType, NEW s \in Shapes
  PROVE  LET q == Survived(r, Candle(s))
         IN  /\ q \in ReplayType
             /\ q.mae = LargerOf(r.mae, -s.adv)
             /\ q.mfe = LargerOf(r.mfe, s.fav)
             /\ q.first_1r = IF s.fav >= R /\ r.first_1r = Missing THEN minute + 1 ELSE r.first_1r
             /\ q.latched_2r = (r.latched_2r \/ s.fav >= 2 * R)
             /\ q.stage = r.stage /\ q.status = r.status /\ q.reason = r.reason
             /\ q.gate_open = r.gate_open /\ q.alternatives = r.alternatives
<1>1. /\ Adverse(Candle(s)) * sign = s.adv /\ Favorable(Candle(s)) * sign = s.fav
      /\ s.adv \in Int /\ s.fav \in Int
  BY CandleMoves
<1>2. LargerOf(r.mae, -s.adv) \in Nat /\ LargerOf(r.mfe, s.fav) \in Nat
  BY <1>1 DEF LargerOf, ReplayType
<1>3. minute + 1 \in 1..Horizon /\ R \in Nat
  BY SizesAreNat
<1> QED
  BY <1>1, <1>2, <1>3 DEF Survived, ReplayType

LEMMA PermittedStageTyped ==
  ASSUME NEW v \in Variants, NEW r \in ReplayType
  PROVE  PermittedStage(v, r) \in 0..2
  BY DEF PermittedStage, ReplayType

\* A variant that survived a candle: what may still change, and to what.
LEMMA AdvancedFields ==
  ASSUME minute \in 0..(Horizon - 1), NEW v \in Variants, NEW q \in ReplayType,
         NEW c, NEW row5, q.status = "OBSERVING"
  PROVE  LET n == Advanced(v, q, c, row5)
         IN  /\ n \in ReplayType
             /\ n.status \notin Terminals
             /\ n.mae = q.mae /\ n.mfe = q.mfe
             /\ n.first_1r = q.first_1r /\ n.latched_2r = q.latched_2r
             /\ n.alternatives = q.alternatives
             /\ n.gate_open = q.gate_open \/ (n.gate_open /\ Awaiting(v, q))
             /\ q.gate_open => n.gate_open
             /\ n.stage = IF n.status = "OBSERVING"
                          THEN LargerOf(q.stage, PermittedStage(v, n)) ELSE q.stage
<1> DEFINE n == Advanced(v, q, c, row5)
           asked == Awaiting(v, q) /\ Possible(v)
           opens == asked /\ Verdict(v, Adverse(c), row5) = "TRUE"
           g == [q EXCEPT !.gate_open = @ \/ opens]
<1>1. CASE minute + 1 = Horizon
  <2>1. n = Finished(q, "HORIZON_CENSORED", "HORIZON")
    BY <1>1 DEF Advanced
  <2>3. q.gate_open \in BOOLEAN
    BY DEF ReplayType
  <2> QED
    BY <2>1, <2>3, FinishedFields DEF Censorings, Terminals
<1>2. CASE minute + 1 # Horizon /\ asked /\ Verdict(v, Adverse(c), row5) = "UNKNOWN"
  <2>1. n = Starved(v, q)
    BY <1>2 DEF Advanced
  <2>2. \/ n = Finished(q, "END_OF_DATA_UNRESOLVED", "GATE_END")
        \/ n = Finished(q, "MISSING_DATA_CENSORED", "GATE_EVIDENCE")
    BY <2>1 DEF Starved
  <2>3. q.gate_open \in BOOLEAN
    BY DEF ReplayType
  <2>4. CASE n = Finished(q, "END_OF_DATA_UNRESOLVED", "GATE_END")
    BY <2>3, <2>4, FinishedFields DEF Censorings, Terminals
  <2>5. CASE n = Finished(q, "MISSING_DATA_CENSORED", "GATE_EVIDENCE")
    BY <2>3, <2>5, FinishedFields DEF Censorings, Terminals
  <2> QED
    BY <2>2, <2>4, <2>5
<1>3. CASE minute + 1 # Horizon /\ ~(asked /\ Verdict(v, Adverse(c), row5) = "UNKNOWN")
  <2>1. n = Promoted(v, g)
    BY <1>3 DEF Advanced
  <2>2. g \in ReplayType
    BY DEF ReplayType
  <2>3. PermittedStage(v, g) \in 0..2
    BY <2>2, PermittedStageTyped
  <2>4. n = [g EXCEPT !.stage = LargerOf(g.stage, PermittedStage(v, g))]
    BY <2>1 DEF Promoted
  <2>a. /\ g.status = "OBSERVING" /\ g.mae = q.mae /\ g.mfe = q.mfe
        /\ g.first_1r = q.first_1r /\ g.latched_2r = q.latched_2r
        /\ g.alternatives = q.alternatives /\ g.stage = q.stage
        /\ g.gate_open = (q.gate_open \/ opens)
    BY DEF ReplayType
  <2>b. LargerOf(g.stage, PermittedStage(v, g)) \in 0..2
    BY <2>2, <2>3 DEF LargerOf, ReplayType
  <2>c. n \in ReplayType
    BY <2>2, <2>4, <2>b DEF ReplayType
  <2>5. /\ n.status = "OBSERVING" /\ n.mae = q.mae /\ n.mfe = q.mfe
        /\ n.first_1r = q.first_1r /\ n.latched_2r = q.latched_2r
        /\ n.alternatives = q.alternatives
        /\ n.gate_open = (q.gate_open \/ opens)
        /\ n.stage = LargerOf(q.stage, PermittedStage(v, g))
    BY <2>2, <2>4, <2>a DEF ReplayType
  <2>6. PermittedStage(v, n) = PermittedStage(v, g)
    BY <2>5, <2>a DEF PermittedStage
  <2> QED
    BY <2>c, <2>5, <2>6 DEF Terminals, ReplayType
<1> QED
  BY <1>1, <1>2, <1>3

\* One open variant and one candle: either it ends and keeps its state, or the
\* candle holds and the state moves; n is the record it leaves.
Moves(v, s, n) ==
  LET r == replay[v]
  IN  /\ n \in ReplayType
      /\ n.status \in Terminals <=> ~Held(r.stage, s)
      /\ ~Held(r.stage, s) => n.completed = minute + 1
      /\ n.alternatives = IF Held(r.stage, s) THEN r.alternatives
                          ELSE Alternatives(r.stage, Candle(s), minute + 1)
      /\ ~Held(r.stage, s) =>
           /\ n.mae = r.mae /\ n.mfe = r.mfe /\ n.stage = r.stage
           /\ n.first_1r = r.first_1r /\ n.latched_2r = r.latched_2r
           /\ n.gate_open = r.gate_open
      /\ Held(r.stage, s) =>
           /\ n.mae = LargerOf(r.mae, -s.adv) /\ n.mfe = LargerOf(r.mfe, s.fav)
           /\ n.first_1r = IF s.fav >= R /\ r.first_1r = Missing
                           THEN minute + 1 ELSE r.first_1r
           /\ n.latched_2r = (r.latched_2r \/ s.fav >= 2 * R)
           /\ r.gate_open => n.gate_open
           /\ n.gate_open => r.gate_open
                             \/ (v \in {"D", "E"} /\ n.first_1r # Missing)
           /\ n.stage = IF n.status = "OBSERVING"
                        THEN LargerOf(r.stage, PermittedStage(v, n)) ELSE r.stage

LEMMA ReplayedMoves ==
  ASSUME TypeOK, minute < Horizon, NEW v \in Variants, Observing(v),
         NEW s \in Shapes, NEW row5
  PROVE  Moves(v, s, Replayed(v, Candle(s), row5))
<1> DEFINE r == replay[v]
           c == Candle(s)
           n == Replayed(v, c, row5)
           alternatives == Alternatives(r.stage, c, minute + 1)
           status == IF Cardinality(alternatives) > 1 THEN "AMBIGUOUS" ELSE "RESOLVED"
<1>1. /\ sign \in {1, -1} /\ minute \in 0..(Horizon - 1)
      /\ r \in ReplayType /\ r.stage \in 0..2 /\ r.status = "OBSERVING"
  BY SizesAreNat DEF TypeOK, ReplayType, Observing
<1>2. alternatives = {} <=> Held(r.stage, s)
  BY <1>1, NoBarrierMet
<1>3. CASE ~Held(r.stage, s)
  <2>1. n = [Finished(r, status, "TERMINAL") EXCEPT !.alternatives = alternatives]
    BY <1>2, <1>3 DEF Replayed
  <2>2. status \in Terminals
    BY DEF Terminals
  <2>3. alternatives \in SUBSET AlternativeType
    <3>1. minute + 1 \in 1..Horizon
      BY <1>1, SizesAreNat
    <3> QED
      BY <1>1, <3>1, AlternativesTyped
  <2>6. /\ status \in Terminals \cup Censorings
        /\ r \in ReplayType /\ minute \in 0..(Horizon - 1)
    BY <1>1, <2>2
  <2> HIDE DEF status, alternatives, r
  <2> DEFINE f == Finished(r, status, "TERMINAL")
  <2>4. /\ f \in ReplayType
        /\ f.status = status
        /\ f.mae = r.mae /\ f.mfe = r.mfe /\ f.stage = r.stage
        /\ f.first_1r = r.first_1r /\ f.latched_2r = r.latched_2r
        /\ f.gate_open = r.gate_open /\ f.completed = minute + 1
    BY <2>6, FinishedFields
  <2> HIDE DEF f
  <2>5. /\ n \in ReplayType /\ n.status = status /\ n.alternatives = alternatives
        /\ n.mae = f.mae /\ n.mfe = f.mfe /\ n.stage = f.stage
        /\ n.first_1r = f.first_1r /\ n.latched_2r = f.latched_2r
        /\ n.gate_open = f.gate_open /\ n.completed = f.completed
    BY <2>1, <2>3, <2>4 DEF f, ReplayType
  <2> QED
    BY <1>3, <2>2, <2>4, <2>5 DEF alternatives, r, Moves
<1>4. CASE Held(r.stage, s)
  <2> DEFINE q == Survived(r, c)
  <2>1. n = Advanced(v, q, c, row5)
    BY <1>2, <1>4 DEF Replayed
  <2>2. /\ q \in ReplayType
        /\ q.mae = LargerOf(r.mae, -s.adv) /\ q.mfe = LargerOf(r.mfe, s.fav)
        /\ q.first_1r = IF s.fav >= R /\ r.first_1r = Missing THEN minute + 1 ELSE r.first_1r
        /\ q.latched_2r = (r.latched_2r \/ s.fav >= 2 * R)
        /\ q.stage = r.stage /\ q.status = r.status
        /\ q.gate_open = r.gate_open /\ q.alternatives = r.alternatives
    BY <1>1, SurvivedFields
  <2> HIDE DEF q, r, c
  <2>3. /\ n \in ReplayType
        /\ n.status \notin Terminals
        /\ n.mae = q.mae /\ n.mfe = q.mfe
        /\ n.first_1r = q.first_1r /\ n.latched_2r = q.latched_2r
        /\ n.alternatives = q.alternatives
        /\ n.gate_open = q.gate_open \/ (n.gate_open /\ Awaiting(v, q))
        /\ q.gate_open => n.gate_open
        /\ n.stage = IF n.status = "OBSERVING"
                     THEN LargerOf(q.stage, PermittedStage(v, n)) ELSE q.stage
    <3>1. minute \in 0..(Horizon - 1) /\ q \in ReplayType /\ q.status = "OBSERVING"
      BY <1>1, <2>2 DEF r
    <3> QED
      BY <2>1, <3>1, AdvancedFields
  <2>4. n.gate_open => r.gate_open \/ (v \in {"D", "E"} /\ n.first_1r # Missing)
    BY <2>2, <2>3 DEF Awaiting
  <2> QED
    BY <1>4, <2>2, <2>3, <2>4 DEF r, c, Moves
<1> QED
  BY <1>3, <1>4

-----------------------------------------------------------------------------
(* The invariant is inductive.                                             *)

LEMMA InitInv == Init => IInv
<1> SUFFICES ASSUME Init PROVE IInv
  OBVIOUS
<1>1. R \in Nat /\ R >= 1 /\ Horizon \in Nat /\ Missing \notin Int /\ Extremes \subseteq Int
  BY SizesAreNat, MissingIsNoPrice
<1>2. \A v \in Variants :
        /\ replay[v] \in ReplayType
        /\ replay[v].status = "OBSERVING" /\ replay[v].reason = "NONE"
        /\ replay[v].stage = 0 /\ replay[v].first_1r = Missing /\ ~replay[v].latched_2r
        /\ replay[v].gate_open = (v \in {"A", "B", "C"})
        /\ replay[v].mae = 0 /\ replay[v].mfe = 0
  <2> SUFFICES ASSUME NEW v \in Variants
               PROVE  /\ replay[v] \in ReplayType
                      /\ replay[v].status = "OBSERVING" /\ replay[v].reason = "NONE"
                      /\ replay[v].stage = 0 /\ replay[v].first_1r = Missing
                      /\ ~replay[v].latched_2r
                      /\ replay[v].gate_open = (v \in {"A", "B", "C"})
                      /\ replay[v].mae = 0 /\ replay[v].mfe = 0
    OBVIOUS
  <2>1. replay[v] = [status |-> "OBSERVING", reason |-> "NONE", completed |-> Missing,
                     stage |-> 0, first_1r |-> Missing, latched_2r |-> FALSE,
                     gate_open |-> v \in {"A", "B", "C"}, mae |-> 0, mfe |-> 0,
                     alternatives |-> {}]
    BY DEF Init
  <2> QED
    BY <2>1 DEF ReplayType
<1>3. TypeOK
  <2>1. m1 \in Row \X Row /\ m1[2] \in Int
    BY <1>1 DEF Init, Row
  <2>2. m5 \in Row \X Row
    BY <1>1 DEF Init, Row
  <2>3. replay \in [Variants -> ReplayType]
    BY <1>2 DEF Init
  <2> QED
    BY <1>1, <2>1, <2>2, <2>3 DEF Init, TypeOK
<1>4. MilestonesAreObserved
  BY <1>1, <1>2 DEF MilestonesAreObserved
<1>5. GatesFollowMilestones
  BY <1>2 DEF GatesFollowMilestones
<1>6. StageIsPermitted
  BY <1>1, <1>2 DEF StageIsPermitted, PermittedStage
<1>7. SameObservations
  BY <1>2 DEF SameObservations
<1>8. Nested
  BY <1>2 DEF Nested, Ended, Terminals, Variants
<1>9. NoHoleBehind
  BY <1>1 DEF Init, NoHoleBehind
<1>10. DNeverStarves
  BY <1>2 DEF DNeverStarves, Variants
<1> QED
  BY <1>3, <1>4, <1>5, <1>6, <1>7, <1>8, <1>9, <1>10 DEF IInv

\* The minute in hand, whatever it brings.
LEMMA MinuteAdvances ==
  ASSUME TypeOK, NextMinute
  PROVE  /\ minute < Horizon /\ minute' = minute + 1
         /\ minute \in 0..(Horizon - 1) /\ minute' \in 1..Horizon
         /\ sign' = sign /\ evidence' = evidence
  BY SizesAreNat DEF TypeOK, NextMinute

\* A minute without evidence ends every open variant and touches no milestone.
LEMMA CensorKeepsInv ==
  ASSUME IInv, NextMinute, NEW status \in Censorings,
         NEW reason \in {"M1_RELATIONSHIP", "M1_EVIDENCE", "M1_END"},
         Censor(status, reason)
  PROVE  IInv'
<1>1. /\ minute' = minute + 1 /\ minute \in 0..(Horizon - 1) /\ minute' \in 1..Horizon
      /\ sign' = sign /\ evidence' = evidence /\ m1' = m1 /\ m5' = m5
  BY MinuteAdvances DEF IInv, Censor
<1>2. \A v \in Variants :
        /\ replay'[v] \in ReplayType
        /\ replay'[v].status # "OBSERVING"
        /\ replay'[v].status \in Terminals <=> replay[v].status \in Terminals
        /\ replay'[v].reason \in {replay[v].reason, reason}
        /\ replay'[v].stage = replay[v].stage
        /\ replay'[v].mae = replay[v].mae /\ replay'[v].mfe = replay[v].mfe
        /\ replay'[v].first_1r = replay[v].first_1r
        /\ replay'[v].latched_2r = replay[v].latched_2r
        /\ replay'[v].gate_open = replay[v].gate_open
  <2> SUFFICES ASSUME NEW v \in Variants
               PROVE  /\ replay'[v] \in ReplayType
                      /\ replay'[v].status # "OBSERVING"
                      /\ replay'[v].status \in Terminals <=> replay[v].status \in Terminals
                      /\ replay'[v].reason \in {replay[v].reason, reason}
                      /\ replay'[v].stage = replay[v].stage
                      /\ replay'[v].mae = replay[v].mae /\ replay'[v].mfe = replay[v].mfe
                      /\ replay'[v].first_1r = replay[v].first_1r
                      /\ replay'[v].latched_2r = replay[v].latched_2r
                      /\ replay'[v].gate_open = replay[v].gate_open
    OBVIOUS
  <2>1. replay[v] \in ReplayType
    BY DEF IInv, TypeOK
  <2>2. CASE Observing(v)
    <3>1. replay'[v] = Finished(replay[v], status, reason)
      BY <2>2 DEF Censor
    <3>2. /\ replay'[v] \in ReplayType /\ replay'[v].status = status
          /\ replay'[v].reason = reason /\ replay'[v].stage = replay[v].stage
          /\ replay'[v].mae = replay[v].mae /\ replay'[v].mfe = replay[v].mfe
          /\ replay'[v].first_1r = replay[v].first_1r
          /\ replay'[v].latched_2r = replay[v].latched_2r
          /\ replay'[v].gate_open = replay[v].gate_open
      <4>1. /\ status \in Terminals \cup Censorings
            /\ reason \in {"TERMINAL", "HORIZON", "M1_RELATIONSHIP", "M1_EVIDENCE",
                          "M1_END", "GATE_EVIDENCE", "GATE_END"}
        OBVIOUS
      <4>2. minute + 1 \in 1..Horizon
        BY <1>1
      <4> QED
        BY <2>1, <3>1, <4>1, <4>2 DEF Finished, ReplayType
    <3> QED
      BY <2>2, <3>2 DEF Observing, Terminals, Censorings
  <2>3. CASE ~Observing(v)
    BY <2>1, <2>3 DEF Censor, Observing
  <2> QED
    BY <2>2, <2>3
<1>3. TypeOK'
  <2>1. replay' \in [Variants -> ReplayType]
    BY <1>2 DEF Censor
  <2> QED
    BY <1>1, <2>1 DEF IInv, TypeOK
<1>4. MilestonesAreObserved'
  <2>1. \A v \in Variants : replay[v].first_1r \in Int \cup {Missing}
    BY DEF IInv, TypeOK, ReplayType
  <2> QED
    BY <1>1, <1>2, <2>1 DEF IInv, MilestonesAreObserved
<1>5. GatesFollowMilestones'
  BY <1>2 DEF IInv, GatesFollowMilestones
<1>6. StageIsPermitted'
  BY <1>2 DEF IInv, StageIsPermitted, Observing
<1>7. SameObservations'
  BY <1>2 DEF SameObservations, Observing
<1>8. Nested'
  BY <1>2 DEF IInv, Nested, Observing, Ended, Variants
<1>9. NoHoleBehind'
  BY <1>2 DEF NoHoleBehind, Observing
<1>10. DNeverStarves'
  BY <1>2 DEF IInv, DNeverStarves, Variants
<1> QED
  BY <1>3, <1>4, <1>5, <1>6, <1>7, <1>8, <1>9, <1>10 DEF IInv

\* A variant that meets a barrier ends for that reason.
LEMMA EndedReason ==
  ASSUME sign \in {1, -1}, minute \in 0..(Horizon - 1), NEW v \in Variants,
         replay[v] \in ReplayType, NEW s \in Shapes, NEW row5, ~Held(replay[v].stage, s)
  PROVE  Replayed(v, Candle(s), row5).reason = "TERMINAL"
<1> DEFINE alternatives == Alternatives(replay[v].stage, Candle(s), minute + 1)
           status == IF Cardinality(alternatives) > 1 THEN "AMBIGUOUS" ELSE "RESOLVED"
<1>1. replay[v].stage \in 0..2
  BY DEF ReplayType
<1>2. alternatives # {}
  BY <1>1, NoBarrierMet
<1>3. Replayed(v, Candle(s), row5) =
        [Finished(replay[v], status, "TERMINAL") EXCEPT !.alternatives = alternatives]
  BY <1>2 DEF Replayed
<1> HIDE DEF alternatives, status
<1> QED
  BY <1>3 DEF Finished, ReplayType

\* With the same candles seen, the stage of C is the highest, that of A is 0.
LEMMA StagesAreOrdered ==
  ASSUME IInv, NEW v \in Variants, Observing(v), Observing("C")
  PROVE  replay["A"].stage = 0 /\ replay[v].stage <= replay["C"].stage
<1>1. "C" \in Variants /\ "A" \in Variants
  BY DEF Variants
<1>2. replay["A"].stage = 0
  BY <1>1 DEF IInv, StageIsPermitted
<1>3. replay[v].mfe = replay["C"].mfe
  BY <1>1 DEF IInv, SameObservations
<1>4. /\ replay[v].stage = PermittedStage(v, replay[v])
      /\ replay["C"].stage = PermittedStage("C", replay["C"])
  BY <1>1 DEF IInv, StageIsPermitted
<1>5. /\ replay[v].first_1r # Missing <=> replay["C"].first_1r # Missing
      /\ replay[v].latched_2r <=> replay["C"].latched_2r
      /\ replay["C"].gate_open
  BY <1>1, <1>3 DEF IInv, MilestonesAreObserved, GatesFollowMilestones
<1> QED
  BY <1>2, <1>4, <1>5 DEF PermittedStage

\* The gate of D is asked for only when three known candles answer it.
LEMMA GateOfDIsAnswered ==
  ASSUME IInv, minute \in 0..(Horizon - 1), Observing("D"), NEW s \in Shapes, NEW row5,
         Held(replay["D"].stage, s)
  PROVE  Replayed("D", Candle(s), row5).reason \notin {"GATE_EVIDENCE", "GATE_END"}
<1> DEFINE r == replay["D"]
           c == Candle(s)
           q == Survived(r, c)
           asked == Awaiting("D", q) /\ Possible("D")
           verdict == Verdict("D", Adverse(c), row5)
           g == [q EXCEPT !.gate_open = @ \/ (asked /\ verdict = "TRUE")]
<1>1. /\ "D" \in Variants /\ r \in ReplayType /\ r.stage \in 0..2 /\ sign \in {1, -1}
      /\ r.reason \notin {"GATE_EVIDENCE", "GATE_END"}
  BY DEF IInv, TypeOK, ReplayType, DNeverStarves, Variants
<1>2. Replayed("D", c, row5) = Advanced("D", q, c, row5)
  <2>1. Alternatives(r.stage, c, minute + 1) = {}
    BY <1>1, NoBarrierMet
  <2> QED
    BY <2>1 DEF Replayed
<1>3. q \in ReplayType /\ q.reason = r.reason
  BY <1>1, SurvivedFields
<1>4. asked => verdict # "UNKNOWN"
  <2> SUFFICES ASSUME asked PROVE verdict # "UNKNOWN"
    OBVIOUS
  <2>1. q.first_1r # Missing /\ minute + 1 > q.first_1r
    BY DEF Awaiting
  <2>2. q.first_1r \in 1..Horizon
    BY <1>3, <2>1 DEF ReplayType
  <2>3. minute >= 1
    BY <2>1, <2>2
  <2>4. m1[1] \in Int /\ m1[2] \in Int
    BY <1>1, <2>3 DEF IInv, NoHoleBehind
  <2>5. Adverse(c) \in Int
    BY <1>1, CandleMoves
  <2>6. Missing \notin {m1[1], m1[2], Adverse(c)}
    BY <2>4, <2>5, MissingIsNoPrice
  <2>7. verdict = Pivot(m1[1], m1[2], Adverse(c))
    BY DEF Verdict
  <2> QED
    BY <2>6, <2>7 DEF Pivot
<1>5. CASE minute + 1 = Horizon
  <2>1. Advanced("D", q, c, row5) = Finished(q, "HORIZON_CENSORED", "HORIZON")
    BY <1>5 DEF Advanced
  <2> QED
    BY <1>2, <1>3, <2>1, FinishedFields DEF Censorings
<1>6. CASE minute + 1 # Horizon
  <2>1. Advanced("D", q, c, row5) = Promoted("D", g)
    BY <1>4, <1>6 DEF Advanced
  <2>2. Promoted("D", g).reason = q.reason
    BY <1>3 DEF Promoted, ReplayType
  <2> QED
    BY <1>1, <1>2, <1>3, <2>1, <2>2
<1> QED
  BY <1>5, <1>6

LEMMA ObservedMoves ==
  ASSUME TypeOK, NextMinute, NEW s \in Shapes, NEW row5,
         replay' = [v \in Variants |-> IF Observing(v) THEN Replayed(v, Candle(s), row5)
                                       ELSE replay[v]]
  PROVE  \A v \in Variants :
           /\ Observing(v) => Moves(v, s, replay'[v])
           /\ ~Observing(v) => replay'[v] = replay[v]
<1> SUFFICES ASSUME NEW v \in Variants, Observing(v) PROVE Moves(v, s, replay'[v])
  OBVIOUS
<1>1. replay'[v] = Replayed(v, Candle(s), row5)
  OBVIOUS
<1>2. minute < Horizon
  BY MinuteAdvances
<1>3. Moves(v, s, Replayed(v, Candle(s), row5))
  BY <1>2, ReplayedMoves
<1> QED
  BY <1>1, <1>3

\* A replayed candle keeps the invariant.
LEMMA ObserveKeepsInv ==
  ASSUME IInv, CandleObserved
  PROVE  IInv'
<1>1. PICK s \in Shapes, row5 \in M5Rows :
        /\ M5Boundary \/ row5 = Missing
        /\ replay' = [v \in Variants |-> IF Observing(v) THEN Replayed(v, Candle(s), row5)
                                         ELSE replay[v]]
        /\ m1' = <<m1[2], Adverse(Candle(s))>>
        /\ m5' = IF M5Boundary THEN <<m5[2], row5>> ELSE m5
  BY DEF CandleObserved
<1>2. /\ NextMinute /\ TypeOK /\ sign \in {1, -1}
      /\ minute' = minute + 1 /\ minute \in 0..(Horizon - 1) /\ minute' \in 1..Horizon
      /\ sign' = sign /\ evidence' = evidence
  BY MinuteAdvances DEF IInv, TypeOK, CandleObserved
<1>3. \A v \in Variants :
        /\ Observing(v) => Moves(v, s, replay'[v])
        /\ ~Observing(v) => replay'[v] = replay[v]
  BY <1>1, <1>2, ObservedMoves
<1>4. /\ s.adv \in Int /\ s.fav \in Int /\ Adverse(Candle(s)) \in Int
      /\ R \in Nat /\ R >= 1 /\ Missing \notin Int
  BY <1>2, CandleMoves, SizesAreNat, MissingIsNoPrice
<1>5. \A v \in Variants : replay[v] \in ReplayType /\ replay[v].stage \in 0..2
                          /\ replay[v].mfe \in Nat /\ replay[v].mae \in Nat
                          /\ replay[v].first_1r \in Int \cup {Missing}
  BY <1>2 DEF TypeOK, ReplayType
<1>6. TypeOK'
  <2>1. replay' \in [Variants -> ReplayType]
    BY <1>1, <1>3, <1>5 DEF Moves
  <2>2. row5 \in Row
    <3>1. \A x \in Extremes : sign * x \in Int
      BY <1>2, MissingIsNoPrice
    <3> QED
      BY <3>1 DEF M5Rows, Row
  <2>3. m1' \in Row \X Row /\ m5' \in Row \X Row
    BY <1>1, <1>2, <1>4, <2>2 DEF TypeOK, Row
  <2> QED
    BY <1>2, <2>1, <2>3 DEF TypeOK
<1>7. MilestonesAreObserved'
  <2> SUFFICES ASSUME NEW v \in Variants
               PROVE  /\ replay'[v].first_1r # Missing <=> replay'[v].mfe >= R
                      /\ replay'[v].latched_2r <=> replay'[v].mfe >= 2 * R
                      /\ replay'[v].first_1r # Missing => replay'[v].first_1r <= minute'
    BY DEF MilestonesAreObserved
  <2>1. /\ replay[v].first_1r # Missing <=> replay[v].mfe >= R
        /\ replay[v].latched_2r <=> replay[v].mfe >= 2 * R
        /\ replay[v].first_1r # Missing => replay[v].first_1r <= minute
    BY DEF IInv, MilestonesAreObserved
  <2>2. CASE Observing(v) /\ Held(replay[v].stage, s)
    <3>1. /\ replay'[v].mfe = LargerOf(replay[v].mfe, s.fav)
          /\ replay'[v].first_1r = IF s.fav >= R /\ replay[v].first_1r = Missing
                                  THEN minute + 1 ELSE replay[v].first_1r
          /\ replay'[v].latched_2r = (replay[v].latched_2r \/ s.fav >= 2 * R)
          /\ replay[v].latched_2r \in BOOLEAN
      BY <1>3, <1>5, <2>2 DEF Moves, ReplayType
    <3>2. \A k \in Nat : replay'[v].mfe >= k <=> replay[v].mfe >= k \/ s.fav >= k
      BY <1>4, <1>5, <3>1 DEF LargerOf
    <3>3. /\ replay'[v].mfe >= R <=> replay[v].mfe >= R \/ s.fav >= R
          /\ replay'[v].mfe >= 2 * R <=> replay[v].mfe >= 2 * R \/ s.fav >= 2 * R
      BY <1>4, <3>2
    <3>4. minute + 1 # Missing
      BY <1>2, <1>4
    <3>5. replay'[v].first_1r # Missing <=> replay'[v].mfe >= R
      BY <2>1, <3>1, <3>3, <3>4
    <3>6. replay'[v].latched_2r <=> replay'[v].mfe >= 2 * R
      BY <2>1, <3>1, <3>3
    <3>7. replay'[v].first_1r # Missing => replay'[v].first_1r <= minute'
      BY <1>2, <1>5, <2>1, <3>1
    <3> QED
      BY <3>5, <3>6, <3>7
  <2>3. CASE ~(Observing(v) /\ Held(replay[v].stage, s))
    BY <1>2, <1>3, <1>5, <2>1, <2>3 DEF Moves
  <2> QED
    BY <2>2, <2>3
<1>8. GatesFollowMilestones'
  <2> SUFFICES ASSUME NEW v \in Variants
               PROVE  /\ v \in {"A", "B", "C"} => replay'[v].gate_open
                      /\ v \in {"D", "E"} /\ replay'[v].gate_open => replay'[v].first_1r # Missing
    BY DEF GatesFollowMilestones
  <2>1. /\ v \in {"A", "B", "C"} => replay[v].gate_open
        /\ v \in {"D", "E"} /\ replay[v].gate_open => replay[v].first_1r # Missing
    BY DEF IInv, GatesFollowMilestones
  <2> QED
    BY <1>2, <1>3, <1>4, <2>1 DEF Moves
<1>9. \A v \in Variants : Observing(v) /\ Held(replay[v].stage, s) =>
        -s.adv < R /\ s.fav < 3 * R
  BY <1>5, LooserHoldsToo
<1>10. StageIsPermitted'
  <2> SUFFICES ASSUME NEW v \in Variants
               PROVE  /\ v = "A" => replay'[v].stage = 0
                      /\ replay'[v].stage >= 1 => replay'[v].mfe >= R
                      /\ replay'[v].stage = 2 => replay'[v].mfe >= 2 * R
                      /\ Observing(v)' =>
                           /\ replay'[v].stage = PermittedStage(v, replay'[v])
                           /\ replay'[v].mae < R /\ replay'[v].mfe < 3 * R
    BY DEF StageIsPermitted, PermittedStage
  <2>1. /\ v = "A" => replay[v].stage = 0
        /\ replay[v].stage >= 1 => replay[v].mfe >= R
        /\ replay[v].stage = 2 => replay[v].mfe >= 2 * R
        /\ Observing(v) =>
             /\ replay[v].stage = PermittedStage(v, replay[v])
             /\ replay[v].mae < R /\ replay[v].mfe < 3 * R
    BY DEF IInv, StageIsPermitted
  <2>2. CASE ~Observing(v)
    BY <1>3, <2>1, <2>2 DEF Observing
  <2>3. CASE Observing(v) /\ ~Held(replay[v].stage, s)
    BY <1>3, <2>1, <2>3 DEF Moves, Observing, Terminals
  <2>4. CASE Observing(v) /\ Held(replay[v].stage, s)
    <3>1. Moves(v, s, replay'[v])
      BY <1>3, <2>4
    <3>2. /\ replay'[v].first_1r # Missing <=> replay'[v].mfe >= R
          /\ replay'[v].latched_2r <=> replay'[v].mfe >= 2 * R
      BY <1>7 DEF MilestonesAreObserved
    <3>3. replay'[v].mae < R /\ replay'[v].mfe < 3 * R
      BY <1>4, <1>5, <1>9, <2>1, <2>4, <3>1 DEF Moves, LargerOf
    <3>4. replay'[v].mfe >= replay[v].mfe /\ replay'[v].mfe \in Int
      BY <1>4, <1>5, <2>4, <3>1 DEF Moves, LargerOf
    <3>5. PermittedStage(v, replay[v]) <= PermittedStage(v, replay'[v])
      <4>1. /\ replay[v].gate_open => replay'[v].gate_open
            /\ replay[v].first_1r # Missing => replay'[v].first_1r # Missing
            /\ replay[v].latched_2r => replay'[v].latched_2r
        BY <1>2, <1>4, <2>4, <3>1 DEF Moves
      <4> QED
        BY <4>1 DEF PermittedStage
    <3>6. /\ PermittedStage(v, replay'[v]) >= 1 => replay'[v].mfe >= R
          /\ PermittedStage(v, replay'[v]) = 2 => replay'[v].mfe >= 2 * R
          /\ PermittedStage(v, replay'[v]) \in 0..2
          /\ v = "A" => PermittedStage(v, replay'[v]) = 0
      BY <3>2 DEF PermittedStage
    <3>7. CASE replay'[v].status = "OBSERVING"
      <4>1. replay'[v].stage = PermittedStage(v, replay'[v])
        BY <1>5, <2>1, <2>4, <3>1, <3>5, <3>6, <3>7 DEF Moves, LargerOf
      <4> QED
        BY <3>3, <3>6, <4>1
    <3>8. CASE replay'[v].status # "OBSERVING"
      BY <1>4, <1>5, <2>1, <2>4, <3>1, <3>4, <3>8 DEF Moves, Observing
    <3> QED
      BY <3>7, <3>8
  <2> QED
    BY <2>2, <2>3, <2>4
<1>11. SameObservations'
  <2>1. \A v \in Variants : Observing(v)' => /\ Observing(v) /\ Held(replay[v].stage, s)
                                             /\ replay'[v].mfe = LargerOf(replay[v].mfe, s.fav)
    BY <1>3 DEF Moves, Observing, Terminals
  <2> QED
    BY <2>1 DEF IInv, SameObservations
<1>12. Nested'
  <2>0. "A" \in Variants /\ "C" \in Variants
    BY DEF Variants
  <2>1. \A v \in Variants : Observing(v)' => Observing(v) /\ Held(replay[v].stage, s)
    BY <1>3 DEF Moves, Observing, Terminals
  <2>2. ASSUME Observing("C")', NEW v \in Variants
        PROVE  ~Ended(v)'
    <3>1. Observing("C") /\ Held(replay["C"].stage, s)
      BY <2>0, <2>1, <2>2
    <3>2. CASE ~Observing(v)
      BY <1>3, <3>1, <3>2 DEF IInv, Nested, Ended
    <3>3. CASE Observing(v)
      <4>1. replay[v].stage <= replay["C"].stage
        BY <3>1, <3>3, StagesAreOrdered
      <4>2. Held(replay[v].stage, s)
        BY <1>5, <2>0, <3>1, <4>1, LooserHoldsToo
      <4> QED
        BY <1>3, <3>3, <4>2 DEF Moves, Ended
    <3> QED
      BY <3>2, <3>3
  <2>3. ASSUME Ended("A")', NEW v \in Variants
        PROVE  ~Observing(v)'
    <3>1. CASE ~Observing("A")
      BY <1>3, <2>0, <2>1, <2>3, <3>1 DEF IInv, Nested, Ended
    <3>2. CASE Observing("A")
      <4>1. ~Held(replay["A"].stage, s) /\ replay["A"].stage = 0
        BY <1>3, <2>0, <2>3, <3>2 DEF Moves, Ended, IInv, StageIsPermitted
      <4>2. ~Held(replay[v].stage, s)
        BY <1>5, <2>0, <4>1, LooserHoldsToo
      <4> QED
        BY <2>1, <4>2
    <3> QED
      BY <3>1, <3>2
  <2> QED
    BY <2>2, <2>3 DEF Nested
<1>13. NoHoleBehind'
  <2>1. m1'[2] \in Int /\ m1'[1] = m1[2]
    BY <1>1, <1>4
  <2>2. m1[2] \in Int
    BY <1>2 DEF IInv, NoHoleBehind, NextMinute
  <2> QED
    BY <2>1, <2>2 DEF NoHoleBehind
<1>14. DNeverStarves'
  <2>0. "D" \in Variants
    BY DEF Variants
  <2>1. CASE ~Observing("D")
    BY <1>3, <2>0, <2>1 DEF IInv, DNeverStarves
  <2>2. CASE Observing("D") /\ Held(replay["D"].stage, s)
    <3>1. replay'["D"] = Replayed("D", Candle(s), row5)
      BY <1>1, <2>0, <2>2
    <3> QED
      BY <1>2, <2>2, <3>1, GateOfDIsAnswered DEF DNeverStarves
  <2>3. CASE Observing("D") /\ ~Held(replay["D"].stage, s)
    <3>1. replay'["D"] = Replayed("D", Candle(s), row5)
      BY <1>1, <2>0, <2>3
    <3>2. Replayed("D", Candle(s), row5).reason = "TERMINAL"
      BY <1>2, <1>5, <2>0, <2>3, EndedReason
    <3> QED
      BY <3>1, <3>2 DEF DNeverStarves
  <2> QED
    BY <2>1, <2>2, <2>3
<1> QED
  BY <1>6, <1>7, <1>8, <1>10, <1>11, <1>12, <1>13, <1>14 DEF IInv

LEMMA NextKeepsInv == IInv /\ [Next]_vars => IInv'
<1> SUFFICES ASSUME IInv, [Next]_vars PROVE IInv'
  OBVIOUS
<1>1. CASE RelationshipMissing
  BY <1>1, CensorKeepsInv DEF RelationshipMissing, Censorings
<1>2. CASE DatasetEnds
  BY <1>2, CensorKeepsInv DEF DatasetEnds, Censorings
<1>3. CASE EvidenceMissing
  BY <1>3, CensorKeepsInv DEF EvidenceMissing, Censorings
<1>4. CASE CandleObserved
  BY <1>4, ObserveKeepsInv
<1>5. CASE UNCHANGED vars
  BY <1>5 DEF vars, IInv, TypeOK, MilestonesAreObserved, GatesFollowMilestones,
     StageIsPermitted, PermittedStage, SameObservations, Nested, NoHoleBehind,
     DNeverStarves, Observing, Ended
<1> QED
  BY <1>1, <1>2, <1>3, <1>4, <1>5 DEF Next

LEMMA InvHolds == Spec => []IInv
<1>1. Init => IInv
  BY InitInv
<1>2. IInv /\ [Next]_vars => IInv'
  BY NextKeepsInv
<1> QED
  BY <1>1, <1>2, PTL DEF Spec

-----------------------------------------------------------------------------
(* The theorems.                                                           *)

\* Every reachable state of a replay has its type, and no excursion is negative.
THEOREM TypeCorrect == Spec => []TypeOK
<1>1. IInv => TypeOK
  BY DEF IInv
<1> QED
  BY <1>1, InvHolds, PTL

\* No stop is moved without an observed excursion that earned its stage, and an
\* open replay has met neither its initial stop nor the target.
THEOREM StagesAreEarned == Spec => []ProtectionIsEarned
<1>1. IInv => ProtectionIsEarned
  <2> SUFFICES ASSUME IInv, NEW v \in Variants
               PROVE  /\ replay[v].stage * R <= replay[v].mfe
                      /\ replay[v].first_1r # Missing <=> replay[v].mfe >= R
                      /\ Observing(v) => replay[v].mae < R /\ replay[v].mfe < 3 * R
    BY DEF ProtectionIsEarned
  <2>1. /\ replay[v].stage \in 0..2 /\ replay[v].mfe \in Nat /\ R \in Nat
    BY SizesAreNat DEF IInv, TypeOK, ReplayType
  <2>2. /\ replay[v].stage >= 1 => replay[v].mfe >= R
        /\ replay[v].stage = 2 => replay[v].mfe >= 2 * R
        /\ Observing(v) => replay[v].mae < R /\ replay[v].mfe < 3 * R
    BY DEF IInv, StageIsPermitted
  <2>3. replay[v].stage * R <= replay[v].mfe
    <3>1. CASE replay[v].stage = 0
      BY <2>1, <3>1
    <3>2. CASE replay[v].stage = 1
      BY <2>1, <2>2, <3>2
    <3>3. CASE replay[v].stage = 2
      BY <2>1, <2>2, <3>3
    <3> QED
      BY <2>1, <3>1, <3>2, <3>3
  <2>4. replay[v].first_1r # Missing <=> replay[v].mfe >= R
    BY DEF IInv, MilestonesAreObserved
  <2> QED
    BY <2>2, <2>3, <2>4
<1> QED
  BY <1>1, InvHolds, PTL

\* The tightest management leaves first and the loosest last, whatever the
\* candles: the order the paired comparison against A takes for granted.
THEOREM VariantsAreNested == Spec => []TighterExitsFirst
<1>1. IInv => TighterExitsFirst
  <2> SUFFICES ASSUME IInv PROVE TighterExitsFirst
    OBVIOUS
  <2>1. \A v \in Variants : Observing(v) /\ Observing("C") =>
          replay["A"].stage <= replay[v].stage /\ replay[v].stage <= replay["C"].stage
    <3> SUFFICES ASSUME NEW v \in Variants, Observing(v), Observing("C")
                 PROVE  replay["A"].stage <= replay[v].stage
                        /\ replay[v].stage <= replay["C"].stage
      OBVIOUS
    <3>1. replay["A"].stage = 0 /\ replay[v].stage <= replay["C"].stage
      BY StagesAreOrdered
    <3>2. replay[v].stage \in 0..2
      BY DEF IInv, TypeOK, ReplayType
    <3> QED
      BY <3>1, <3>2
  <2> QED
    BY <2>1 DEF TighterExitsFirst, IInv, Nested
<1> QED
  BY <1>1, InvHolds, PTL

\* Variant D is never censored for want of structural evidence.
THEOREM MinuteGateIsAnswered == Spec => []DNeverStarves
<1>1. IInv => DNeverStarves
  BY DEF IInv
<1> QED
  BY <1>1, InvHolds, PTL

\* What a step can do to one variant.
LEMMA StepOfAVariant ==
  ASSUME IInv, [Next]_vars, NEW v \in Variants
  PROVE  \/ replay'[v] = replay[v]
         \/ /\ Observing(v) /\ replay'[v].status \notin Terminals
            /\ replay'[v].stage = replay[v].stage
         \/ Observing(v) /\ \E s \in Shapes : Moves(v, s, replay'[v])
<1>1. CASE UNCHANGED vars
  BY <1>1 DEF vars
<1>2. CASE RelationshipMissing \/ DatasetEnds \/ EvidenceMissing
  <2>1. PICK status \in Censorings, reason \in {"M1_RELATIONSHIP", "M1_EVIDENCE", "M1_END"} :
          Censor(status, reason)
    BY <1>2 DEF RelationshipMissing, DatasetEnds, EvidenceMissing, Censorings
  <2>2. replay[v] \in ReplayType
    BY DEF IInv, TypeOK
  <2>3. CASE Observing(v)
    <3>1. replay'[v] = Finished(replay[v], status, reason)
      BY <2>1, <2>3 DEF Censor
    <3>2. replay'[v].status = status /\ replay'[v].stage = replay[v].stage
      BY <2>2, <3>1 DEF Finished, ReplayType
    <3> QED
      BY <2>3, <3>2 DEF Censorings, Terminals
  <2>4. CASE ~Observing(v)
    BY <2>1, <2>4 DEF Censor
  <2> QED
    BY <2>3, <2>4
<1>3. CASE CandleObserved
  <2>1. PICK s \in Shapes, row5 \in M5Rows :
          replay' = [w \in Variants |-> IF Observing(w) THEN Replayed(w, Candle(s), row5)
                                         ELSE replay[w]]
    BY <1>3 DEF CandleObserved
  <2>2. TypeOK /\ NextMinute
    BY <1>3 DEF IInv, CandleObserved
  <2> QED
    BY <2>1, <2>2, ObservedMoves
<1> QED
  BY <1>1, <1>2, <1>3 DEF Next

\* A stop never loosens and a result never changes.
THEOREM ProtectionIsMonotone == Spec => StopsOnlyTighten
<1>1. IInv /\ [Next]_vars =>
        \A v \in Variants : /\ replay[v].stage <= replay'[v].stage
                            /\ ~Observing(v) => replay'[v] = replay[v]
  <2> SUFFICES ASSUME IInv, [Next]_vars, NEW v \in Variants
               PROVE  /\ replay[v].stage <= replay'[v].stage
                      /\ ~Observing(v) => replay'[v] = replay[v]
    OBVIOUS
  <2>1. replay[v].stage \in 0..2
    BY DEF IInv, TypeOK, ReplayType
  <2>2. \A s \in Shapes : Moves(v, s, replay'[v]) => replay[v].stage <= replay'[v].stage
    <3> SUFFICES ASSUME NEW s \in Shapes, Moves(v, s, replay'[v])
                 PROVE  replay[v].stage <= replay'[v].stage
      OBVIOUS
    <3>1. PermittedStage(v, replay'[v]) \in 0..2
      BY PermittedStageTyped DEF Moves
    <3> QED
      BY <2>1, <3>1 DEF Moves, LargerOf
  <2> QED
    BY <2>1, <2>2, StepOfAVariant
<1> QED
  BY <1>1, InvHolds, PTL DEF Spec, StopsOnlyTighten

\* A stop that ends a variant was earned, and its gate open, before the candle.
THEOREM NoProtectionIsBackdated == Spec => NothingIsBackdated
<1> DEFINE Earned(v) ==
      Observing(v) /\ Ended(v)' =>
        /\ \A x \in replay'[v].alternatives :
              x.mechanism \in {"BREAK_EVEN_STOP", "PROTECTED_PROFIT_STOP"} =>
                replay[v].first_1r # Missing /\ replay[v].gate_open
        /\ replay'[v].stage = replay[v].stage
<1>1. ASSUME IInv, [Next]_vars, NEW v \in Variants
      PROVE  Earned(v)
  <2> SUFFICES ASSUME Observing(v), Ended(v)'
               PROVE  /\ \A x \in replay'[v].alternatives :
                            x.mechanism \in {"BREAK_EVEN_STOP", "PROTECTED_PROFIT_STOP"} =>
                              replay[v].first_1r # Missing /\ replay[v].gate_open
                      /\ replay'[v].stage = replay[v].stage
    OBVIOUS
  <2>1. PICK s \in Shapes : Moves(v, s, replay'[v])
    BY <1>1, StepOfAVariant DEF Observing, Ended, Terminals
  <2>2. /\ replay'[v].alternatives = Alternatives(replay[v].stage, Candle(s), minute + 1)
        /\ replay'[v].stage = replay[v].stage
    BY <2>1 DEF Moves, Ended
  <2>3. \A x \in Alternatives(replay[v].stage, Candle(s), minute + 1) :
          x.mechanism \in {Mechanisms[replay[v].stage + 1], "FINAL_TARGET"}
    BY DEF Alternatives, Alternative
  <2>4. replay[v].stage \in 0..2 /\ replay[v].stage = PermittedStage(v, replay[v])
    BY <1>1 DEF IInv, TypeOK, ReplayType, StageIsPermitted
  <2>5. replay[v].stage = 0 => Mechanisms[replay[v].stage + 1] = "INITIAL_RISK_STOP"
    BY DEF Mechanisms
  <2>6. replay[v].stage # 0 => replay[v].first_1r # Missing /\ replay[v].gate_open
    BY <2>4 DEF PermittedStage
  <2> QED
    BY <2>2, <2>3, <2>5, <2>6
<1>2. IInv /\ [Next]_vars => \A v \in Variants : Earned(v)
  BY <1>1
<1> QED
  BY <1>2, InvHolds, PTL DEF Spec, NothingIsBackdated

\* A known neighbour settles the pivot without the other rows, and only known rows
\* confirm one.
LEMMA PivotIsSettled ==
  ASSUME sign \in {1, -1}, NEW left \in Row, NEW middle \in Row, NEW right \in Row,
         Pivot(left, middle, right) # "UNKNOWN"
  PROVE  /\ middle # Missing
         /\ Pivot(left, middle, right) = "TRUE" =>
              \A n \in {left, right} : n # Missing /\ sign * middle < sign * n
         /\ Pivot(left, middle, right) # "TRUE" =>
              \E n \in {left, right} : n # Missing /\ sign * n <= sign * middle
<1> DEFINE refutes(n) == /\ Missing \notin {middle, n}
                         /\ IF sign = 1 THEN middle >= n ELSE middle <= n
<1>1. \A n \in {left, right} : refutes(n) <=>
        middle # Missing /\ n # Missing /\ sign * n <= sign * middle
  BY DEF Row
<1>2. CASE refutes(left) \/ refutes(right)
  <2>1. Pivot(left, middle, right) = "FALSE"
    BY <1>2 DEF Pivot
  <2> QED
    BY <1>1, <1>2, <2>1
<1>3. CASE ~(refutes(left) \/ refutes(right))
  <2>1. Missing \notin {left, middle, right} /\ Pivot(left, middle, right) = "TRUE"
    BY <1>3 DEF Pivot
  <2>2. \A n \in {left, right} : ~(sign * n <= sign * middle)
    BY <1>1, <1>3, <2>1
  <2>3. \A n \in {left, right} : sign * middle < sign * n
    BY <2>1, <2>2 DEF Row
  <2> QED
    BY <2>1, <2>3
<1> QED
  BY <1>2, <1>3

\* An asked gate lets the variant go on only with a settled verdict, and opens only
\* with a confirmed pivot.
LEMMA AdvancesOnAVerdict ==
  ASSUME NEW v \in Variants, NEW q \in ReplayType, NEW c, NEW row5,
         Advanced(v, q, c, row5).status = "OBSERVING", ~q.gate_open,
         Awaiting(v, q), Possible(v)
  PROVE  /\ Verdict(v, Adverse(c), row5) # "UNKNOWN"
         /\ Advanced(v, q, c, row5).gate_open <=> Verdict(v, Adverse(c), row5) = "TRUE"
<1> DEFINE n == Advanced(v, q, c, row5)
           verdict == Verdict(v, Adverse(c), row5)
           g == [q EXCEPT !.gate_open = @ \/ (TRUE /\ verdict = "TRUE")]
<1>1. \A status, reason : Finished(q, status, reason).status = status
  BY DEF Finished, ReplayType
<1>2. minute + 1 # Horizon
  <2> SUFFICES ASSUME minute + 1 = Horizon PROVE FALSE
    OBVIOUS
  <2>1. n = Finished(q, "HORIZON_CENSORED", "HORIZON")
    BY DEF Advanced
  <2> QED
    BY <1>1, <2>1
<1>3. verdict # "UNKNOWN"
  <2> SUFFICES ASSUME verdict = "UNKNOWN" PROVE FALSE
    OBVIOUS
  <2>1. n = Starved(v, q)
    BY <1>2 DEF Advanced
  <2>2. n.status \in {"END_OF_DATA_UNRESOLVED", "MISSING_DATA_CENSORED"}
    BY <1>1, <2>1 DEF Starved
  <2> QED
    BY <2>2
<1>4. n = Promoted(v, g)
  BY <1>2, <1>3 DEF Advanced
<1>5. n.gate_open = (verdict = "TRUE")
  <2>1. g.gate_open = (verdict = "TRUE")
    BY DEF ReplayType
  <2>2. n.gate_open = g.gate_open
    BY <1>4 DEF Promoted, ReplayType
  <2> QED
    BY <2>1, <2>2
<1> QED
  BY <1>3, <1>5

\* Whatever the evidence, E is never continued over a structural answer it does not
\* have: every minute it goes on either could confirm no pivot, or was settled by the
\* candles at hand.
THEOREM GateOfEIsSettled == Spec => GateOfEIsDecided
<1> DEFINE r == replay["E"]
           now == replay'["E"]
           Going == /\ Observing("E") /\ Observing("E")'
                    /\ replay["E"].first_1r # Missing /\ ~replay["E"].gate_open
           Decided == \/ minute + 1 < 2 * M5Minutes
                      \/ M5Declared /\ ~M5Boundary
                      \/ Settles(m5'[2], replay'["E"].gate_open)
<1>1. ASSUME IInv, Next, Going, minute + 1 >= 2 * M5Minutes, M5Declared => M5Boundary
      PROVE  Settles(m5'[2], replay'["E"].gate_open)
  <2>1. "E" \in Variants /\ sign \in {1, -1} /\ minute \in Nat
        /\ r \in ReplayType /\ r.first_1r <= minute /\ m5 \in Row \X Row
    BY <1>1 DEF IInv, TypeOK, MilestonesAreObserved, Variants
  <2>2. CandleObserved
    <3>1. ASSUME NEW status \in Censorings, NEW reason, Censor(status, reason)
          PROVE  FALSE
      <4>1. now = Finished(r, status, reason)
        BY <1>1, <2>1, <3>1 DEF Censor, Observing
      <4>2. now.status = status
        BY <2>1, <4>1 DEF Finished, ReplayType
      <4> QED
        BY <1>1, <4>2 DEF Censorings, Observing
    <3> QED
      BY <1>1, <3>1 DEF Next, RelationshipMissing, DatasetEnds, EvidenceMissing, Censorings
  <2>3. PICK s \in Shapes, row5 \in M5Rows :
          /\ M5Boundary \/ row5 = Missing
          /\ replay' = [v \in Variants |-> IF Observing(v) THEN Replayed(v, Candle(s), row5)
                                           ELSE replay[v]]
          /\ m5' = IF M5Boundary THEN <<m5[2], row5>> ELSE m5
    BY <2>2 DEF CandleObserved
  <2> DEFINE c == Candle(s)
             q == Survived(r, c)
  <2>4. now = Replayed("E", c, row5)
    BY <1>1, <2>1, <2>3 DEF Observing
  <2>5. now = Advanced("E", q, c, row5)
    <3> DEFINE alternatives == Alternatives(r.stage, c, minute + 1)
               status == IF Cardinality(alternatives) > 1 THEN "AMBIGUOUS" ELSE "RESOLVED"
    <3>1. CASE alternatives # {}
      <4>1. now = [Finished(r, status, "TERMINAL") EXCEPT !.alternatives = alternatives]
        BY <2>4, <3>1 DEF Replayed
      <4>2. now.status = status
        BY <2>1, <4>1 DEF Finished, ReplayType
      <4> QED
        BY <1>1, <4>2 DEF Observing
    <3>2. CASE alternatives = {}
      BY <2>4, <3>2 DEF Replayed
    <3> QED
      BY <3>1, <3>2
  <2>6. minute \in 0..(Horizon - 1)
    BY <2>1, <2>2, SizesAreNat DEF CandleObserved, NextMinute
  <2>7. q \in ReplayType /\ q.first_1r = r.first_1r /\ q.gate_open = r.gate_open
    BY <1>1, <2>1, <2>6, SurvivedFields
  <2>8. Awaiting("E", q) /\ Possible("E")
    BY <1>1, <2>1, <2>7, SizesAreNat DEF Awaiting, Possible, ReplayType
  <2>9. /\ Verdict("E", Adverse(c), row5) # "UNKNOWN"
        /\ now.gate_open <=> Verdict("E", Adverse(c), row5) = "TRUE"
    BY <1>1, <2>1, <2>5, <2>7, <2>8, AdvancesOnAVerdict DEF Observing
  <2>10. M5Declared /\ Verdict("E", Adverse(c), row5) = Pivot(m5[1], m5[2], row5)
    BY <2>9 DEF Verdict
  <2>11. m5'[2] = row5
    BY <1>1, <2>3, <2>10
  <2>12. row5 \in Row /\ m5[1] \in Row /\ m5[2] \in Row
    <3>1. row5 \in {Missing} \cup {sign * x : x \in Extremes}
      BY DEF M5Rows
    <3> QED
      BY <2>1, <3>1, MissingIsNoPrice DEF Row
  <2> QED
    BY <2>1, <2>9, <2>10, <2>11, <2>12, PivotIsSettled DEF Settles
<1>2. IInv /\ [Next]_vars => [Going => Decided]_vars
  <2>1. ASSUME IInv, Next, Going PROVE Decided
    <3>1. minute \in Nat /\ M5Minutes \in Nat
      BY <2>1, SizesAreNat DEF IInv, TypeOK
    <3>2. CASE minute + 1 >= 2 * M5Minutes /\ (M5Declared => M5Boundary)
      BY <1>1, <2>1, <3>2
    <3>3. CASE minute + 1 < 2 * M5Minutes \/ (M5Declared /\ ~M5Boundary)
      BY <3>3
    <3> QED
      BY <3>1, <3>2, <3>3
  <2> QED
    BY <2>1
<1> QED
  BY <1>2, InvHolds, PTL DEF Spec, GateOfEIsDecided

-----------------------------------------------------------------------------
(* Listing a finite set, and the paths of a candle.                        *)

\* A finite set is listed in the order of a key that tells its members apart.
LEMMA ListedByKey ==
  ASSUME NEW S, IsFiniteSet(S), NEW key \in [S -> Int], IsInjective(key)
  PROVE  \E p \in [1..Cardinality(S) -> S] :
           /\ \A x \in S : \E i \in 1..Cardinality(S) : p[i] = x
           /\ \A i, j \in 1..Cardinality(S) : i < j => key[p[i]] < key[p[j]]
<1> DEFINE n == Cardinality(S)
           upto(x) == {y \in S : key[y] <= key[x]}
           rank == [x \in S |-> Cardinality(upto(x))]
<1>1. n \in Nat /\ IsFiniteSet(1..n) /\ Cardinality(1..n) = n
  BY FS_CardinalityType, FS_Interval
<1>2. ASSUME NEW x \in S
      PROVE  IsFiniteSet(upto(x)) /\ rank[x] \in 1..n
  <2>1. upto(x) \in SUBSET S /\ x \in upto(x)
    OBVIOUS
  <2>2. IsFiniteSet(upto(x)) /\ Cardinality(upto(x)) <= n
    BY <2>1, FS_Subset
  <2>3. Cardinality(upto(x)) \in Nat /\ Cardinality(upto(x)) # 0
    BY <2>1, <2>2, FS_CardinalityType, FS_EmptySet
  <2> QED
    BY <1>1, <2>2, <2>3
<1>3. ASSUME NEW x \in S, NEW y \in S, key[x] < key[y]
      PROVE  rank[x] < rank[y]
  <2>1. upto(x) \in SUBSET upto(y) /\ y \in upto(y) /\ y \notin upto(x)
    BY <1>3
  <2>2. /\ IsFiniteSet(upto(y)) /\ upto(x) # upto(y)
        /\ rank[x] = Cardinality(upto(x)) /\ rank[y] = Cardinality(upto(y))
        /\ rank[x] \in Int /\ rank[y] \in Int
    BY <1>2, <2>1
  <2> HIDE DEF upto, rank
  <2>3. Cardinality(upto(x)) <= Cardinality(upto(y)) /\ Cardinality(upto(x)) # Cardinality(upto(y))
    BY <2>1, <2>2, FS_Subset
  <2> QED
    BY <2>2, <2>3
<1>4. rank \in [S -> 1..n] /\ \A x, y \in S : rank[x] = rank[y] => x = y
  <2>1. ASSUME NEW x \in S, NEW y \in S, x # y
        PROVE  key[x] < key[y] \/ key[y] < key[x]
    BY <2>1 DEF IsInjective
  <2>2. \A x \in S : rank[x] \in 1..n
    BY <1>2
  <2> HIDE DEF rank
  <2>3. ASSUME NEW x \in S, NEW y \in S, rank[x] = rank[y]
        PROVE  x = y
    <3>1. ~(rank[x] < rank[y]) /\ ~(rank[y] < rank[x])
      BY <1>1, <2>2, <2>3
    <3> QED
      BY <1>3, <2>1, <3>1
  <2> QED
    BY <2>2, <2>3 DEF rank
<1> HIDE DEF rank
<1>5. \A i \in 1..n : \E x \in S : rank[x] = i
  <2>1. rank \in Injection(S, 1..n)
    BY <1>4 DEF Injection, IsInjective
  <2>2. rank \in Surjection(S, 1..n)
    BY <1>1, <2>1, FS_Injection
  <2> QED
    BY <2>2 DEF Surjection
<1> DEFINE p == [i \in 1..n |-> CHOOSE x \in S : rank[x] = i]
<1>6. \A i \in 1..n : p[i] \in S /\ rank[p[i]] = i
  BY <1>5
<1> HIDE DEF p
<1>7. \A x \in S : p[rank[x]] = x
  BY <1>4, <1>6
<1>8. \A i, j \in 1..n : i < j => key[p[i]] < key[p[j]]
  <2> SUFFICES ASSUME NEW i \in 1..n, NEW j \in 1..n, i < j, ~(key[p[i]] < key[p[j]])
               PROVE  FALSE
    OBVIOUS
  <2>1. p[i] # p[j] /\ p[i] \in S /\ p[j] \in S
    BY <1>6
  <2>2. key[p[j]] < key[p[i]]
    BY <2>1 DEF IsInjective
  <2>3. j < i
    BY <1>3, <1>6, <2>1, <2>2
  <2> QED
    BY <2>3
<1>9. p \in [1..n -> S]
  BY <1>6 DEF p
<1> QED
  BY <1>4, <1>7, <1>8, <1>9

\* The levels of a candle are few, and integers.
LEMMA LevelsAreFinite ==
  ASSUME sign \in {1, -1}, NEW c \in CandleType
  PROVE  IsFiniteSet(Levels(c)) /\ Levels(c) \subseteq Int
<1>1. Level(0) \in Int /\ Level(1) \in Int /\ Level(2) \in Int /\ Target \in Int
  BY LevelsAreIntegers
<1>2. IsFiniteSet({Level(0)} \cup {Level(1)} \cup {Level(2)} \cup {Target})
  BY FS_Singleton, FS_Union
<1> QED
  BY <1>1, <1>2, FS_Subset DEF Levels

\* A path meets each level of its candle once.
LEMMA PathsAreListings ==
  ASSUME sign \in {1, -1}, NEW c \in CandleType, NEW p \in Paths(c)
  PROVE  /\ DOMAIN p = 1..Cardinality(Levels(c))
         /\ Cardinality(Levels(c)) \in Nat
         /\ \A i \in DOMAIN p : p[i] \in Levels(c)
         /\ \A l \in Levels(c) : \E i \in DOMAIN p : p[i] = l
         /\ \A i, j \in DOMAIN p : i # j => p[i] # p[j]
         /\ \A i, j \in DOMAIN p : i < j => ~Between(p[j], c.open, p[i])
<1> DEFINE n == Cardinality(Levels(c))
<1>1. /\ p \in [1..n -> Levels(c)] /\ \A i, j \in 1..n : i # j => p[i] # p[j]
      /\ \A i, j \in DOMAIN p : i < j => ~Between(p[j], c.open, p[i])
  BY DEF Paths, SetToSeqs
<1>2. n \in Nat /\ IsFiniteSet(1..n) /\ Cardinality(1..n) = n /\ IsFiniteSet(Levels(c))
  BY LevelsAreFinite, FS_CardinalityType, FS_Interval
<1>3. p \in Injection(1..n, Levels(c))
  BY <1>1 DEF Injection, IsInjective
<1>4. p \in Surjection(1..n, Levels(c))
  BY <1>2, <1>3, FS_Injection
<1> QED
  BY <1>1, <1>2, <1>4 DEF Surjection

\* For any distance there is a path that meets the adverse levels within that
\* distance of the opening first, then the favourable ones, then the others.
LEMMA PathByDistance ==
  ASSUME sign \in {1, -1}, NEW c \in CandleType,
         c.low <= c.open, c.open <= c.high, NEW q \in Nat
  PROVE  \E p \in Paths(c) :
           \A i, j \in DOMAIN p :
             sign * p[i] < sign * c.open /\ sign * p[j] > sign * c.open =>
               (i < j <=> sign * c.open - sign * p[i] <= q)
<1> DEFINE o == c.open
           M == c.high - c.low + 1
           adverse(l) == IF sign = 1 THEN o - l ELSE l - o
           key == [l \in Levels(c) |->
                     IF adverse(l) < 0 THEN M - adverse(l)
                     ELSE IF adverse(l) <= q THEN adverse(l)
                     ELSE 2 * M + adverse(l)]
<1>1. /\ IsFiniteSet(Levels(c)) /\ Levels(c) \subseteq Int
      /\ o \in Int /\ c.low \in Int /\ c.high \in Int /\ M \in Nat
      /\ \A l \in Levels(c) : c.low <= l /\ l <= c.high
  BY LevelsAreFinite DEF Levels, CandleType
<1>2. \A l \in Levels(c) :
        /\ l \in Int /\ adverse(l) \in Int /\ adverse(l) < M /\ -adverse(l) < M
        /\ key[l] = IF adverse(l) < 0 THEN M - adverse(l)
                    ELSE IF adverse(l) <= q THEN adverse(l)
                    ELSE 2 * M + adverse(l)
        /\ key[l] \in Int
  BY <1>1
<1>3. \A l, k \in Levels(c) : adverse(l) = adverse(k) => l = k
  BY <1>1
<1>4. \A l, k \in Levels(c) : Between(k, o, l) =>
        \/ adverse(k) = 0
        \/ adverse(k) > 0 /\ adverse(k) <= adverse(l)
        \/ adverse(k) < 0 /\ adverse(l) <= adverse(k)
  BY <1>1 DEF Between
<1>5. \A l \in Levels(c) : /\ sign * l < sign * o <=> adverse(l) > 0
                           /\ sign * l > sign * o <=> adverse(l) < 0
                           /\ sign * o - sign * l = adverse(l)
  <2>1. CASE sign = 1
    BY <1>1, <2>1
  <2>2. CASE sign = -1
    BY <1>1, <2>2
  <2> QED
    BY <2>1, <2>2
<1> HIDE DEF adverse, M
<1>6. key \in [Levels(c) -> Int]
  BY <1>2
<1> HIDE DEF key
<1>7. IsInjective(key)
  BY <1>1, <1>2, <1>3, <1>6 DEF IsInjective
<1> DEFINE n == Cardinality(Levels(c))
<1>8. PICK p \in [1..n -> Levels(c)] :
        /\ \A x \in Levels(c) : \E i \in 1..n : p[i] = x
        /\ \A i, j \in 1..n : i < j => key[p[i]] < key[p[j]]
  BY <1>1, <1>6, <1>7, ListedByKey
<1>9. n \in Nat
  BY <1>1, FS_CardinalityType
<1> HIDE DEF n
<1>10. \A i, j \in 1..n : i < j <=> key[p[i]] < key[p[j]]
  <2> SUFFICES ASSUME NEW i \in 1..n, NEW j \in 1..n, key[p[i]] < key[p[j]]
               PROVE  i < j
    BY <1>8
  <2>1. key[p[i]] \in Int /\ key[p[j]] \in Int
    BY <1>2
  <2>2. i = j \/ i < j \/ j < i
    BY <1>9
  <2> QED
    BY <1>8, <2>1, <2>2
<1>11. p \in Paths(c)
  <2>1. \A i, j \in 1..n : i # j => p[i] # p[j]
    <3> SUFFICES ASSUME NEW i \in 1..n, NEW j \in 1..n, i # j, p[i] = p[j]
                 PROVE  FALSE
      OBVIOUS
    <3>1. (i < j \/ j < i) /\ key[p[i]] \in Int
      BY <1>2, <1>9
    <3> QED
      BY <1>8, <3>1
  <2>2. \A i, j \in 1..n : i < j => ~Between(p[j], o, p[i])
    <3> SUFFICES ASSUME NEW i \in 1..n, NEW j \in 1..n, i < j, Between(p[j], o, p[i])
                 PROVE  FALSE
      OBVIOUS
    <3> DEFINE l == p[i]
               k == p[j]
    <3>1. l \in Levels(c) /\ k \in Levels(c) /\ key[l] < key[k]
      BY <1>8
    <3> HIDE DEF l, k
    <3>2. \/ adverse(k) = 0
          \/ adverse(k) > 0 /\ adverse(k) <= adverse(l)
          \/ adverse(k) < 0 /\ adverse(l) <= adverse(k)
      BY <1>4, <3>1 DEF l, k
    <3>3. /\ M \in Nat /\ adverse(l) \in Int /\ adverse(k) \in Int
          /\ adverse(l) < M /\ -adverse(l) < M /\ adverse(k) < M /\ -adverse(k) < M
      BY <1>1, <1>2, <3>1
    <3>4. key[l] = IF adverse(l) < 0 THEN M - adverse(l)
                   ELSE IF adverse(l) <= q THEN adverse(l)
                   ELSE 2 * M + adverse(l)
      BY <1>2, <3>1
    <3>5. key[k] = IF adverse(k) < 0 THEN M - adverse(k)
                   ELSE IF adverse(k) <= q THEN adverse(k)
                   ELSE 2 * M + adverse(k)
      BY <1>2, <3>1
    <3>6. ~(key[l] < key[k])
      BY <3>2, <3>3, <3>4, <3>5
    <3> QED
      BY <3>1, <3>6
  <2> QED
    BY <2>1, <2>2 DEF Paths, SetToSeqs, n
<1>12. ASSUME NEW i \in DOMAIN p, NEW j \in DOMAIN p,
              sign * p[i] < sign * o, sign * p[j] > sign * o
       PROVE  i < j <=> sign * o - sign * p[i] <= q
  <2> DEFINE l == p[i]
             k == p[j]
  <2>1. l \in Levels(c) /\ k \in Levels(c) /\ (i < j <=> key[l] < key[k])
    BY <1>8, <1>10
  <2>2. adverse(l) > 0 /\ adverse(k) < 0 /\ sign * o - sign * l = adverse(l)
    BY <1>5, <1>12, <2>1
  <2> HIDE DEF l, k
  <2>3. key[l] < key[k] <=> adverse(l) <= q
    <3>1. /\ M \in Nat /\ adverse(l) \in Int /\ adverse(k) \in Int
          /\ adverse(l) < M /\ -adverse(k) < M
      BY <1>1, <1>2, <2>1
    <3>2. key[l] = IF adverse(l) <= q THEN adverse(l) ELSE 2 * M + adverse(l)
      BY <1>2, <2>1, <2>2, <3>1
    <3>3. key[k] = M - adverse(k)
      BY <1>2, <2>1, <2>2, <3>1
    <3> QED
      BY <2>2, <3>1, <3>2, <3>3
  <2> QED
    BY <2>1, <2>2, <2>3 DEF l
<1> QED
  BY <1>11, <1>12

\* A candle opens beyond a barrier; its prices reach the stop; the target.
Gap(stage, c) == (c.open - Level(stage)) * sign <= 0 \/ (c.open - Target) * sign >= 0
StopMet(stage, c) == IF sign = 1 THEN c.low <= Level(stage) ELSE c.high >= Level(stage)
TargetMet(c) == IF sign = 1 THEN c.high >= Target ELSE c.low <= Target

StopExit(stage) == <<Mechanisms[stage + 1], Level(stage)>>
TargetExit == <<"FINAL_TARGET", Target>>

\* The distance of a stop from the opening of a candle.
Distance(stage, c) == sign * c.open - sign * Level(stage)

\* Between the barriers, a barrier is met exactly when the candle reaches its level;
\* the stop lies on the adverse side of the opening and the target on the other.
LEMMA BarriersAreLevels ==
  ASSUME sign \in {1, -1}, NEW stage \in 0..2, NEW c \in CandleType,
         c.low <= c.open, c.open <= c.high, ~Gap(stage, c)
  PROVE  /\ StopMet(stage, c) <=> Level(stage) \in Levels(c)
         /\ TargetMet(c) <=> Target \in Levels(c)
         /\ sign * Level(stage) < sign * c.open
         /\ sign * Target > sign * c.open
         /\ Distance(stage, c) \in Nat \ {0}
         /\ Level(stage) # Target
<1>1. /\ c.open \in Int /\ c.low \in Int /\ c.high \in Int
      /\ Level(stage) \in Int /\ Target \in Int
  BY LevelsAreIntegers DEF CandleType
<1>2. stage = 0 \/ stage = 1 \/ stage = 2
  OBVIOUS
<1>3. Level(stage) \in {Level(0), Level(1), Level(2), Target}
  BY <1>2
<1>4. CASE sign = 1
  <2>1. c.open > Level(stage) /\ c.open < Target
    BY <1>1, <1>4 DEF Gap
  <2> QED
    BY <1>1, <1>3, <1>4, <2>1 DEF StopMet, TargetMet, Distance, Levels
<1>5. CASE sign = -1
  <2>1. c.open < Level(stage) /\ c.open > Target
    BY <1>1, <1>5 DEF Gap
  <2> QED
    BY <1>1, <1>3, <1>5, <2>1 DEF StopMet, TargetMet, Distance, Levels
<1> QED
  BY <1>4, <1>5

\* Between the barriers a path ends a position at the first barrier it meets.
LEMMA FirstBarrierMet ==
  ASSUME sign \in {1, -1}, NEW stage \in 0..2, NEW c \in CandleType,
         c.low <= c.open, c.open <= c.high, ~Gap(stage, c), NEW p \in Paths(c)
  PROVE  /\ StopMet(stage, c) /\ ~TargetMet(c) => ExitOnPath(stage, c, p) = StopExit(stage)
         /\ TargetMet(c) /\ ~StopMet(stage, c) => ExitOnPath(stage, c, p) = TargetExit
         /\ StopMet(stage, c) /\ TargetMet(c) =>
              \E i, j \in DOMAIN p :
                /\ p[i] = Level(stage) /\ p[j] = Target
                /\ ExitOnPath(stage, c, p) = IF i < j THEN StopExit(stage) ELSE TargetExit
<1> DEFINE n == Cardinality(Levels(c))
           met == {i \in DOMAIN p : p[i] \in {Level(stage), Target}}
           earliest == CHOOSE i \in met : \A j \in met : i <= j
           first == p[earliest]
<1>1. /\ DOMAIN p = 1..n /\ n \in Nat
      /\ \A i \in 1..n : p[i] \in Levels(c)
      /\ \A l \in Levels(c) : \E i \in 1..n : p[i] = l
      /\ \A i, j \in 1..n : i # j => p[i] # p[j]
  BY PathsAreListings
<1> HIDE DEF n
<1>2. /\ StopMet(stage, c) <=> Level(stage) \in Levels(c)
      /\ TargetMet(c) <=> Target \in Levels(c)
      /\ Level(stage) # Target
  BY BarriersAreLevels
<1>3. ExitOnPath(stage, c, p) =
        <<IF first = Target THEN "FINAL_TARGET" ELSE Mechanisms[stage + 1], first>>
  BY DEF ExitOnPath, Gap
<1> HIDE DEF earliest
<1>4. ASSUME NEW i \in met, \A j \in met : i <= j
      PROVE  earliest = i
  <2>1. earliest \in met /\ \A j \in met : earliest <= j
    BY <1>4 DEF earliest
  <2> QED
    BY <1>1, <1>4, <2>1
<1>5. CASE StopMet(stage, c) /\ ~TargetMet(c)
  <2>1. PICK i \in 1..n : p[i] = Level(stage)
    BY <1>1, <1>2, <1>5
  <2>2. met = {i}
    BY <1>1, <1>2, <1>5, <2>1
  <2>3. first = Level(stage)
    BY <1>4, <2>1, <2>2
  <2> QED
    BY <1>2, <1>3, <1>5, <2>3 DEF StopExit
<1>6. CASE TargetMet(c) /\ ~StopMet(stage, c)
  <2>1. PICK i \in 1..n : p[i] = Target
    BY <1>1, <1>2, <1>6
  <2>2. met = {i}
    BY <1>1, <1>2, <1>6, <2>1
  <2>3. first = Target
    BY <1>4, <2>1, <2>2
  <2> QED
    BY <1>3, <1>6, <2>3 DEF TargetExit
<1>7. CASE StopMet(stage, c) /\ TargetMet(c)
  <2>1. PICK i \in 1..n, j \in 1..n : p[i] = Level(stage) /\ p[j] = Target
    BY <1>1, <1>2, <1>7
  <2>2. met = {i, j} /\ i # j
    BY <1>1, <1>2, <2>1
  <2>3. CASE i < j
    <3>1. first = Level(stage)
      BY <1>4, <2>1, <2>2, <2>3
    <3> QED
      BY <1>1, <1>2, <1>3, <1>7, <2>1, <2>3, <3>1 DEF StopExit
  <2>4. CASE ~(i < j)
    <3>1. first = Target
      BY <1>4, <2>1, <2>2, <2>4
    <3> QED
      BY <1>1, <1>3, <1>7, <2>1, <2>4, <3>1 DEF TargetExit
  <2> QED
    BY <2>3, <2>4
<1> QED
  BY <1>5, <1>6, <1>7

\* What the alternatives of a candle are: at a gap the opening, otherwise the
\* barriers met, with the order that would make each true if both are.
LEMMA AlternativesByCase ==
  ASSUME sign \in {1, -1}, NEW stage \in 0..2, NEW c \in CandleType, NEW at
  PROVE  LET As == Alternatives(stage, c, at)
             IsStop(x) == /\ StopMet(stage, c) /\ Exit(x) = StopExit(stage)
                          /\ x.order = IF TargetMet(c) THEN "STOP_BEFORE_TARGET" ELSE "NONE"
             IsTarget(x) == /\ TargetMet(c) /\ Exit(x) = TargetExit
                            /\ x.order = IF StopMet(stage, c) THEN "TARGET_BEFORE_STOP" ELSE "NONE"
         IN  /\ \A x \in As : x.stop = Level(stage) /\ x.candle = c /\ x.at = at
             /\ Gap(stage, c) =>
                  /\ As # {}
                  /\ \A x \in As : x.order = "NONE" /\ \A p : Exit(x) = ExitOnPath(stage, c, p)
             /\ ~Gap(stage, c) =>
                  /\ \A x \in As : IsStop(x) \/ IsTarget(x)
                  /\ StopMet(stage, c) => \E x \in As : IsStop(x)
                  /\ TargetMet(c) => \E x \in As : IsTarget(x)
<1> DEFINE As == Alternatives(stage, c, at)
           openStop == (c.open - Level(stage)) * sign <= 0
           order(o) == IF StopMet(stage, c) /\ TargetMet(c) THEN o ELSE "NONE"
           stopped == Alternative(stage, c, at, Mechanisms[stage + 1], Level(stage),
                                  order("STOP_BEFORE_TARGET"))
           reached == Alternative(stage, c, at, "FINAL_TARGET", Target,
                                  order("TARGET_BEFORE_STOP"))
<1>1. \A mechanism, mark, o :
        LET x == Alternative(stage, c, at, mechanism, mark, o)
        IN  /\ x.stop = Level(stage) /\ x.candle = c /\ x.at = at
            /\ x.order = o /\ Exit(x) = <<mechanism, mark>>
  BY DEF Alternative, Exit
<1>2. CASE Gap(stage, c)
  <2>1. As = {Alternative(stage, c, at, IF openStop THEN Mechanisms[stage + 1] ELSE "FINAL_TARGET",
                          c.open, "NONE")}
    BY <1>2 DEF Alternatives, Gap
  <2>2. \A p : ExitOnPath(stage, c, p) =
                 <<IF openStop THEN Mechanisms[stage + 1] ELSE "FINAL_TARGET", c.open>>
    BY <1>2 DEF ExitOnPath, Gap
  <2> QED
    BY <1>1, <1>2, <2>1, <2>2
<1>3. CASE ~Gap(stage, c)
  <2>1. As = (IF StopMet(stage, c) THEN {stopped} ELSE {})
             \cup (IF TargetMet(c) THEN {reached} ELSE {})
    BY <1>3 DEF Alternatives, Gap, StopMet, TargetMet
  <2>2. /\ stopped.stop = Level(stage) /\ stopped.candle = c /\ stopped.at = at
        /\ stopped.order = order("STOP_BEFORE_TARGET") /\ Exit(stopped) = StopExit(stage)
    BY <1>1 DEF StopExit
  <2>3. /\ reached.stop = Level(stage) /\ reached.candle = c /\ reached.at = at
        /\ reached.order = order("TARGET_BEFORE_STOP") /\ Exit(reached) = TargetExit
    BY <1>1 DEF TargetExit
  <2> HIDE DEF stopped, reached
  <2> QED
    BY <1>3, <2>1, <2>2, <2>3
<1> QED
  BY <1>2, <1>3

\* The candle leaves two alternatives, which carry their order.
Both(stage, c) == ~Gap(stage, c) /\ StopMet(stage, c) /\ TargetMet(c)

\* One variant alone: every alternative is the exit of some path and every path
\* has an alternative; a single alternative is the exit of every path.
LEMMA ExitsAreAlternatives ==
  ASSUME sign \in {1, -1}, NEW stage \in 0..2, NEW c \in CandleType,
         c.low <= c.open, c.open <= c.high, NEW at, Alternatives(stage, c, at) # {}
  PROVE  LET As == Alternatives(stage, c, at)
         IN  /\ \A p \in Paths(c) : \E x \in As : Exit(x) = ExitOnPath(stage, c, p)
             /\ \A x \in As : \E p \in Paths(c) : Exit(x) = ExitOnPath(stage, c, p)
             /\ ~Both(stage, c) =>
                  \A x \in As : /\ x.order = "NONE"
                                /\ \A p \in Paths(c) : Exit(x) = ExitOnPath(stage, c, p)
<1> DEFINE As == Alternatives(stage, c, at)
<1>1. Paths(c) # {}
  BY PathByDistance
<1>2. CASE Gap(stage, c)
  BY <1>1, <1>2, AlternativesByCase DEF Both
<1>3. CASE ~Gap(stage, c)
  <2>1. /\ \A x \in As :
             \/ /\ StopMet(stage, c) /\ Exit(x) = StopExit(stage)
                /\ x.order = IF TargetMet(c) THEN "STOP_BEFORE_TARGET" ELSE "NONE"
             \/ /\ TargetMet(c) /\ Exit(x) = TargetExit
                /\ x.order = IF StopMet(stage, c) THEN "TARGET_BEFORE_STOP" ELSE "NONE"
        /\ StopMet(stage, c) => \E x \in As : Exit(x) = StopExit(stage)
        /\ TargetMet(c) => \E x \in As : Exit(x) = TargetExit
    BY <1>3, AlternativesByCase
  <2>2. \A p \in Paths(c) :
          /\ StopMet(stage, c) /\ ~TargetMet(c) => ExitOnPath(stage, c, p) = StopExit(stage)
          /\ TargetMet(c) /\ ~StopMet(stage, c) => ExitOnPath(stage, c, p) = TargetExit
          /\ StopMet(stage, c) /\ TargetMet(c) =>
               ExitOnPath(stage, c, p) \in {StopExit(stage), TargetExit}
    BY <1>3, FirstBarrierMet
  <2>3. StopMet(stage, c) \/ TargetMet(c)
    BY <2>1
  <2>4. \A p \in Paths(c) : \E x \in As : Exit(x) = ExitOnPath(stage, c, p)
    BY <2>1, <2>2, <2>3
  <2>5. CASE ~Both(stage, c)
    BY <1>1, <1>3, <2>1, <2>2, <2>4, <2>5 DEF Both
  <2>6. CASE Both(stage, c)
    <3>1. /\ sign * Level(stage) < sign * c.open /\ sign * Target > sign * c.open
          /\ Distance(stage, c) \in Nat \ {0}
      BY <1>3, BarriersAreLevels
    <3>2. ASSUME NEW q \in Nat
          PROVE  \E p \in Paths(c) : ExitOnPath(stage, c, p) =
                   IF Distance(stage, c) <= q THEN StopExit(stage) ELSE TargetExit
      <4>1. PICK p \in Paths(c) :
              \A i, j \in DOMAIN p :
                sign * p[i] < sign * c.open /\ sign * p[j] > sign * c.open =>
                  (i < j <=> sign * c.open - sign * p[i] <= q)
        BY PathByDistance
      <4>2. PICK i \in DOMAIN p, j \in DOMAIN p :
              /\ p[i] = Level(stage) /\ p[j] = Target
              /\ ExitOnPath(stage, c, p) = IF i < j THEN StopExit(stage) ELSE TargetExit
        BY <2>6, FirstBarrierMet DEF Both
      <4>3. i < j <=> Distance(stage, c) <= q
        BY <3>1, <4>1, <4>2 DEF Distance
      <4> QED
        BY <4>2, <4>3
    <3>3. /\ \E p \in Paths(c) : ExitOnPath(stage, c, p) = StopExit(stage)
          /\ \E p \in Paths(c) : ExitOnPath(stage, c, p) = TargetExit
      <4>1. Distance(stage, c) <= Distance(stage, c) /\ ~(Distance(stage, c) <= 0)
        BY <3>1
      <4> QED
        BY <3>1, <3>2, <4>1
    <3> QED
      BY <2>1, <2>4, <2>6, <3>3
  <2> QED
    BY <2>5, <2>6
<1> QED
  BY <1>2, <1>3

\* Of two stops that a candle meets on the way, no path meets the farther first.
LEMMA NearerStopFirst ==
  ASSUME sign \in {1, -1}, NEW a \in 0..2, NEW b \in 0..2, NEW c \in CandleType,
         c.low <= c.open, c.open <= c.high, ~Gap(a, c), ~Gap(b, c),
         NEW p \in Paths(c), NEW i \in DOMAIN p, NEW k \in DOMAIN p,
         p[i] = Level(a), p[k] = Level(b), Distance(a, c) < Distance(b, c)
  PROVE  i < k
<1>1. /\ c.open \in Int /\ Level(a) \in Int /\ Level(b) \in Int
  BY LevelsAreIntegers DEF CandleType
<1>2. /\ sign * Level(a) < sign * c.open /\ sign * Level(b) < sign * c.open
  BY BarriersAreLevels
<1>3. Between(p[i], c.open, p[k]) /\ p[i] # p[k]
  <2>1. CASE sign = 1
    BY <1>1, <1>2, <2>1 DEF Between, Distance
  <2>2. CASE sign = -1
    BY <1>1, <1>2, <2>2 DEF Between, Distance
  <2> QED
    BY <2>1, <2>2
<1>4. ~(k < i) /\ DOMAIN p = 1..Cardinality(Levels(c)) /\ Cardinality(Levels(c)) \in Nat
  BY <1>3, PathsAreListings
<1> QED
  BY <1>3, <1>4

\* Two variants that both may have met either barrier: the pairs of exits one
\* path can give are those whose farther stop does not precede the nearer.
LEMMA BothOnOnePath ==
  ASSUME sign \in {1, -1}, NEW a \in 0..2, NEW b \in 0..2, NEW c \in CandleType,
         c.low <= c.open, c.open <= c.high, Both(a, c), Both(b, c),
         NEW stopA \in BOOLEAN, NEW stopB \in BOOLEAN
  PROVE  (\E p \in Paths(c) :
            /\ ExitOnPath(a, c, p) = IF stopA THEN StopExit(a) ELSE TargetExit
            /\ ExitOnPath(b, c, p) = IF stopB THEN StopExit(b) ELSE TargetExit)
         <=> /\ Distance(a, c) = Distance(b, c) => stopA = stopB
             /\ Distance(a, c) < Distance(b, c) => ~(~stopA /\ stopB)
             /\ Distance(b, c) < Distance(a, c) => ~(~stopB /\ stopA)
<1> DEFINE da == Distance(a, c)
           db == Distance(b, c)
           exit(stage, stop) == IF stop THEN StopExit(stage) ELSE TargetExit
<1>1. /\ sign * Level(a) < sign * c.open /\ sign * Level(b) < sign * c.open
      /\ sign * Target > sign * c.open
      /\ da \in Nat \ {0} /\ db \in Nat \ {0}
      /\ Level(a) # Target /\ Level(b) # Target
      /\ Level(a) \in Int /\ Level(b) \in Int /\ c.open \in Int
  BY BarriersAreLevels, LevelsAreIntegers DEF Both, CandleType
<1>2. StopExit(a) # TargetExit /\ StopExit(b) # TargetExit
  BY <1>1 DEF StopExit, TargetExit
<1>3. ASSUME NEW p \in Paths(c)
      PROVE  \E i, k, j \in DOMAIN p :
               /\ p[i] = Level(a) /\ p[k] = Level(b) /\ p[j] = Target
               /\ ExitOnPath(a, c, p) = exit(a, i < j)
               /\ ExitOnPath(b, c, p) = exit(b, k < j)
  <2>1. PICK i \in DOMAIN p, j \in DOMAIN p :
          p[i] = Level(a) /\ p[j] = Target /\ ExitOnPath(a, c, p) = exit(a, i < j)
    BY FirstBarrierMet DEF Both
  <2>2. PICK k \in DOMAIN p, l \in DOMAIN p :
          p[k] = Level(b) /\ p[l] = Target /\ ExitOnPath(b, c, p) = exit(b, k < l)
    BY FirstBarrierMet DEF Both
  <2>3. j = l
    BY <2>1, <2>2, PathsAreListings
  <2> QED
    BY <2>1, <2>2, <2>3
<1>4. ASSUME NEW q \in Nat, stopA <=> da <= q, stopB <=> db <= q
      PROVE  \E p \in Paths(c) : /\ ExitOnPath(a, c, p) = exit(a, stopA)
                                 /\ ExitOnPath(b, c, p) = exit(b, stopB)
  <2>1. PICK p \in Paths(c) :
          \A i, j \in DOMAIN p :
            sign * p[i] < sign * c.open /\ sign * p[j] > sign * c.open =>
              (i < j <=> sign * c.open - sign * p[i] <= q)
    BY PathByDistance
  <2>2. PICK i \in DOMAIN p, k \in DOMAIN p, j \in DOMAIN p :
          /\ p[i] = Level(a) /\ p[k] = Level(b) /\ p[j] = Target
          /\ ExitOnPath(a, c, p) = exit(a, i < j)
          /\ ExitOnPath(b, c, p) = exit(b, k < j)
    BY <1>3
  <2>3. (i < j <=> stopA) /\ (k < j <=> stopB)
    BY <1>1, <1>4, <2>1, <2>2 DEF Distance
  <2> QED
    BY <2>2, <2>3
<1>5. ASSUME NEW p \in Paths(c), ExitOnPath(a, c, p) = exit(a, stopA),
             ExitOnPath(b, c, p) = exit(b, stopB)
      PROVE  /\ da = db => stopA = stopB
             /\ da < db => ~(~stopA /\ stopB)
             /\ db < da => ~(~stopB /\ stopA)
  <2>1. PICK i \in DOMAIN p, k \in DOMAIN p, j \in DOMAIN p :
          /\ p[i] = Level(a) /\ p[k] = Level(b) /\ p[j] = Target
          /\ ExitOnPath(a, c, p) = exit(a, i < j)
          /\ ExitOnPath(b, c, p) = exit(b, k < j)
    BY <1>3
  <2>2. (i < j <=> stopA) /\ (k < j <=> stopB)
    BY <1>2, <1>5, <2>1
  <2>3. /\ DOMAIN p = 1..Cardinality(Levels(c)) /\ Cardinality(Levels(c)) \in Nat
        /\ \A x, y \in DOMAIN p : x # y => p[x] # p[y]
    BY PathsAreListings
  <2>4. da = db => Level(a) = Level(b)
    BY <1>1 DEF Distance
  <2>5. da = db => i = k
    BY <2>1, <2>3, <2>4
  <2>6. da < db => i < k
    BY <2>1, NearerStopFirst DEF Both
  <2>7. db < da => k < i
    BY <2>1, NearerStopFirst DEF Both
  <2> QED
    BY <2>2, <2>3, <2>5, <2>6, <2>7
<1>6. ASSUME da = db => stopA = stopB, da < db => ~(~stopA /\ stopB), db < da => ~(~stopB /\ stopA)
      PROVE  \E q \in Nat : (stopA <=> da <= q) /\ (stopB <=> db <= q)
  <2> HIDE DEF da, db
  <2>1. CASE stopA /\ stopB
    <3>1. da + db \in Nat /\ da <= da + db /\ db <= da + db
      BY <1>1
    <3> QED
      BY <2>1, <3>1
  <2>2. CASE ~stopA /\ ~stopB
    <3>1. 0 \in Nat /\ ~(da <= 0) /\ ~(db <= 0)
      BY <1>1
    <3> QED
      BY <2>2, <3>1
  <2>3. CASE stopA /\ ~stopB
    <3>0. stopA # stopB /\ da # db
      BY <1>6, <2>3
    <3>1. da \in Nat /\ da <= da /\ ~(db <= da)
      BY <1>1, <1>6, <2>3, <3>0
    <3> QED
      BY <2>3, <3>1
  <2>4. CASE ~stopA /\ stopB
    <3>0. stopA # stopB /\ da # db
      BY <1>6, <2>4
    <3>1. db \in Nat /\ db <= db /\ ~(da <= db)
      BY <1>1, <1>6, <2>4, <3>0
    <3> QED
      BY <2>4, <3>1
  <2> QED
    BY <2>1, <2>2, <2>3, <2>4
<1> QED
  BY <1>4, <1>5, <1>6

\* Two variants that met a barrier on the same candle: the compatible pairs of
\* alternatives are the pairs of exits of the candle's paths.
LEMMA CompatibleIsOnePath ==
  ASSUME sign \in {1, -1}, NEW a \in 0..2, NEW b \in 0..2, NEW c \in CandleType,
         c.low <= c.open, c.open <= c.high, NEW at,
         Alternatives(a, c, at) # {}, Alternatives(b, c, at) # {}
  PROVE  {<<Exit(q[1]), Exit(q[2])>> :
            q \in {r \in Alternatives(a, c, at) \X Alternatives(b, c, at) :
                     Compatible(r[1], r[2])}}
         = {<<ExitOnPath(a, c, p), ExitOnPath(b, c, p)>> : p \in Paths(c)}
<1> DEFINE As == Alternatives(a, c, at)
           Bs == Alternatives(b, c, at)
<1>1. SUFFICES
        /\ \A x \in As, y \in Bs : Compatible(x, y) =>
             \E p \in Paths(c) : Exit(x) = ExitOnPath(a, c, p) /\ Exit(y) = ExitOnPath(b, c, p)
        /\ \A p \in Paths(c) : \E x \in As, y \in Bs :
             Compatible(x, y) /\ Exit(x) = ExitOnPath(a, c, p) /\ Exit(y) = ExitOnPath(b, c, p)
  <2> HIDE DEF As, Bs
  <2> DEFINE Left == {<<Exit(q[1]), Exit(q[2])>> : q \in {r \in As \X Bs : Compatible(r[1], r[2])}}
             Right == {<<ExitOnPath(a, c, p), ExitOnPath(b, c, p)>> : p \in Paths(c)}
  <2>1. ASSUME NEW z \in Left PROVE z \in Right
    <3>1. PICK q \in As \X Bs : Compatible(q[1], q[2]) /\ z = <<Exit(q[1]), Exit(q[2])>>
      OBVIOUS
    <3> QED
      BY <1>1, <3>1
  <2>2. ASSUME NEW z \in Right PROVE z \in Left
    <3>1. PICK p \in Paths(c) : z = <<ExitOnPath(a, c, p), ExitOnPath(b, c, p)>>
      OBVIOUS
    <3>2. PICK x \in As, y \in Bs :
            Compatible(x, y) /\ Exit(x) = ExitOnPath(a, c, p) /\ Exit(y) = ExitOnPath(b, c, p)
      BY <1>1
    <3>3. /\ <<x, y>> \in As \X Bs /\ <<x, y>>[1] = x /\ <<x, y>>[2] = y
      OBVIOUS
    <3> QED
      BY <3>1, <3>2, <3>3
  <2> QED
    BY <2>1, <2>2 DEF As, Bs
<1>2. CASE ~Both(a, c) \/ ~Both(b, c)
  <2>1. \A x \in As, y \in Bs : Compatible(x, y)
    <3>1. \A x \in As, y \in Bs : "NONE" \in {x.order, y.order}
      BY <1>2, ExitsAreAlternatives
    <3> QED
      BY <3>1 DEF Compatible
  <2>2. /\ \A p \in Paths(c) : \E x \in As : Exit(x) = ExitOnPath(a, c, p)
        /\ \A x \in As : \E p \in Paths(c) : Exit(x) = ExitOnPath(a, c, p)
        /\ \A p \in Paths(c) : \E y \in Bs : Exit(y) = ExitOnPath(b, c, p)
        /\ \A y \in Bs : \E p \in Paths(c) : Exit(y) = ExitOnPath(b, c, p)
    BY ExitsAreAlternatives
  <2>3. CASE ~Both(a, c)
    <3>1. \A x \in As, p \in Paths(c) : Exit(x) = ExitOnPath(a, c, p)
      BY <2>3, ExitsAreAlternatives
    <3> HIDE DEF As, Bs
    <3> QED
      BY <2>1, <2>2, <3>1
  <2>4. CASE ~Both(b, c)
    <3>1. \A y \in Bs, p \in Paths(c) : Exit(y) = ExitOnPath(b, c, p)
      BY <2>4, ExitsAreAlternatives
    <3> HIDE DEF As, Bs
    <3> QED
      BY <2>1, <2>2, <3>1
  <2> QED
    BY <1>2, <2>3, <2>4
<1>3. CASE Both(a, c) /\ Both(b, c)
  <2> DEFINE exit(stage, stop) == IF stop THEN StopExit(stage) ELSE TargetExit
             order(stop) == IF stop THEN "STOP_BEFORE_TARGET" ELSE "TARGET_BEFORE_STOP"
             allowed(stopA, stopB) ==
               /\ Distance(a, c) = Distance(b, c) => stopA = stopB
               /\ Distance(a, c) < Distance(b, c) => ~(~stopA /\ stopB)
               /\ Distance(b, c) < Distance(a, c) => ~(~stopB /\ stopA)
  <2>1. /\ \A x \in As : /\ x.stop = Level(a) /\ x.candle = c /\ x.at = at
                         /\ \E stop \in BOOLEAN : Exit(x) = exit(a, stop) /\ x.order = order(stop)
        /\ \A stop \in BOOLEAN : \E x \in As : Exit(x) = exit(a, stop) /\ x.order = order(stop)
    <3>1. /\ \A x \in As :
               /\ x.stop = Level(a) /\ x.candle = c /\ x.at = at
               /\ \/ Exit(x) = StopExit(a) /\ x.order = "STOP_BEFORE_TARGET"
                  \/ Exit(x) = TargetExit /\ x.order = "TARGET_BEFORE_STOP"
          /\ \E x \in As : Exit(x) = StopExit(a) /\ x.order = "STOP_BEFORE_TARGET"
          /\ \E x \in As : Exit(x) = TargetExit /\ x.order = "TARGET_BEFORE_STOP"
      BY <1>3, AlternativesByCase DEF Both
    <3>2. /\ exit(a, TRUE) = StopExit(a) /\ order(TRUE) = "STOP_BEFORE_TARGET"
          /\ exit(a, FALSE) = TargetExit /\ order(FALSE) = "TARGET_BEFORE_STOP"
      OBVIOUS
    <3> HIDE DEF exit, order, As
    <3> QED
      BY <3>1, <3>2
  <2>2. /\ \A y \in Bs : /\ y.stop = Level(b) /\ y.candle = c /\ y.at = at
                         /\ \E stop \in BOOLEAN : Exit(y) = exit(b, stop) /\ y.order = order(stop)
        /\ \A stop \in BOOLEAN : \E y \in Bs : Exit(y) = exit(b, stop) /\ y.order = order(stop)
    <3>1. /\ \A y \in Bs :
               /\ y.stop = Level(b) /\ y.candle = c /\ y.at = at
               /\ \/ Exit(y) = StopExit(b) /\ y.order = "STOP_BEFORE_TARGET"
                  \/ Exit(y) = TargetExit /\ y.order = "TARGET_BEFORE_STOP"
          /\ \E y \in Bs : Exit(y) = StopExit(b) /\ y.order = "STOP_BEFORE_TARGET"
          /\ \E y \in Bs : Exit(y) = TargetExit /\ y.order = "TARGET_BEFORE_STOP"
      BY <1>3, AlternativesByCase DEF Both
    <3>2. /\ exit(b, TRUE) = StopExit(b) /\ order(TRUE) = "STOP_BEFORE_TARGET"
          /\ exit(b, FALSE) = TargetExit /\ order(FALSE) = "TARGET_BEFORE_STOP"
      OBVIOUS
    <3> HIDE DEF exit, order, Bs
    <3> QED
      BY <3>1, <3>2
  <2>3. /\ c.open \in Int /\ Level(a) \in Int /\ Level(b) \in Int
    BY LevelsAreIntegers DEF CandleType
  <2>4. /\ Level(a) = Level(b) <=> Distance(a, c) = Distance(b, c)
        /\ sign * Level(a) > sign * Level(b) <=> Distance(a, c) < Distance(b, c)
        /\ sign * Level(b) > sign * Level(a) <=> Distance(b, c) < Distance(a, c)
    BY <2>3 DEF Distance
  <2>5. ASSUME NEW x \in As, NEW y \in Bs, NEW stopA \in BOOLEAN, NEW stopB \in BOOLEAN,
               x.order = order(stopA), y.order = order(stopB)
        PROVE  Compatible(x, y) <=> allowed(stopA, stopB)
    <3>1. /\ "NONE" \notin {x.order, y.order} /\ <<x.candle, x.at>> = <<y.candle, y.at>>
          /\ x.stop = Level(a) /\ y.stop = Level(b)
      <4>1. order(stopA) # "NONE" /\ order(stopB) # "NONE"
        OBVIOUS
      <4>2. x.stop = Level(a) /\ x.candle = c /\ x.at = at
        BY <2>1
      <4>3. y.stop = Level(b) /\ y.candle = c /\ y.at = at
        BY <2>2
      <4> QED
        BY <2>5, <4>1, <4>2, <4>3
    <3>2. (x.order = y.order) <=> (stopA = stopB)
      BY <2>5
    <3>3. CASE x.stop = y.stop
      BY <2>4, <3>1, <3>2, <3>3 DEF Compatible
    <3>4. CASE x.stop # y.stop
      BY <2>4, <2>5, <3>1, <3>4 DEF Compatible
    <3> QED
      BY <3>3, <3>4
  <2>6. \A stopA, stopB \in BOOLEAN :
          allowed(stopA, stopB) <=>
            \E p \in Paths(c) : ExitOnPath(a, c, p) = exit(a, stopA) /\ ExitOnPath(b, c, p) = exit(b, stopB)
    BY <1>3, BothOnOnePath
  <2>7. \A p \in Paths(c) : \E stopA, stopB \in BOOLEAN :
          ExitOnPath(a, c, p) = exit(a, stopA) /\ ExitOnPath(b, c, p) = exit(b, stopB)
    <3>1. \A p \in Paths(c) : /\ \E x \in As : Exit(x) = ExitOnPath(a, c, p)
                              /\ \E y \in Bs : Exit(y) = ExitOnPath(b, c, p)
      BY ExitsAreAlternatives
    <3> QED
      BY <2>1, <2>2, <3>1
  <2> HIDE DEF As, Bs, exit, order, allowed
  <2>8. ASSUME NEW x \in As, NEW y \in Bs, Compatible(x, y)
        PROVE  \E p \in Paths(c) : Exit(x) = ExitOnPath(a, c, p) /\ Exit(y) = ExitOnPath(b, c, p)
    <3>1. PICK stopA \in BOOLEAN : Exit(x) = exit(a, stopA) /\ x.order = order(stopA)
      BY <2>1
    <3>2. PICK stopB \in BOOLEAN : Exit(y) = exit(b, stopB) /\ y.order = order(stopB)
      BY <2>2
    <3>3. allowed(stopA, stopB)
      BY <2>5, <2>8, <3>1, <3>2
    <3> QED
      BY <2>6, <3>1, <3>2, <3>3
  <2>9. ASSUME NEW p \in Paths(c)
        PROVE  \E x \in As, y \in Bs :
                 Compatible(x, y) /\ Exit(x) = ExitOnPath(a, c, p) /\ Exit(y) = ExitOnPath(b, c, p)
    <3>1. PICK stopA \in BOOLEAN, stopB \in BOOLEAN :
            ExitOnPath(a, c, p) = exit(a, stopA) /\ ExitOnPath(b, c, p) = exit(b, stopB)
      BY <2>7
    <3>2. allowed(stopA, stopB)
      BY <2>6, <3>1
    <3>3. PICK x \in As : Exit(x) = exit(a, stopA) /\ x.order = order(stopA)
      BY <2>1
    <3>4. PICK y \in Bs : Exit(y) = exit(b, stopB) /\ y.order = order(stopB)
      BY <2>2
    <3> QED
      BY <2>5, <3>1, <3>2, <3>3, <3>4
  <2> QED
    BY <2>8, <2>9 DEF As, Bs
<1> QED
  BY <1>2, <1>3

-----------------------------------------------------------------------------
(* The variants that ended with the same minute ended on the same candle.  *)

\* A variant ended on a candle of this shape.
EndedOn(u, s) ==
  LET r == replay[u]
  IN  r.alternatives = Alternatives(r.stage, Candle(s), r.completed) /\ r.alternatives # {}

EndsShareACandle ==
  \A v \in Variants : Ended(v) =>
    /\ replay[v].completed \in 1..minute
    /\ \A w \in Variants : Ended(w) /\ replay[w].completed = replay[v].completed =>
          \E s \in Shapes : EndedOn(v, s) /\ EndedOn(w, s)

\* With the direction fixed, what a variant ended on is read off its new record.
LEMMA EndedOnNext ==
  ASSUME sign' = sign, NEW v, NEW s
  PROVE  EndedOn(v, s)' <=>
           /\ replay'[v].alternatives =
                Alternatives(replay'[v].stage, Candle(s), replay'[v].completed)
           /\ replay'[v].alternatives # {}
BY DEF EndedOn, Alternatives, Alternative, Candle, Level, Target

\* A step ends variants on one candle, which no earlier end can share.
LEMMA StepKeepsEnds ==
  ASSUME IInv, EndsShareACandle, [Next]_vars
  PROVE  EndsShareACandle'
<1>1. /\ minute \in 0..Horizon /\ Horizon \in Nat /\ sign \in {1, -1}
      /\ \A v \in Variants : replay[v] \in ReplayType /\ replay[v].stage \in 0..2
  BY SizesAreNat DEF IInv, TypeOK, ReplayType
<1>2. sign' = sign /\ (minute' = minute \/ minute' = minute + 1)
  BY DEF Next, RelationshipMissing, DatasetEnds, EvidenceMissing, CandleObserved,
     NextMinute, vars
<1> DEFINE kept(v) == Ended(v) /\ replay'[v] = replay[v]
           new(v, s) == /\ minute' = minute + 1 /\ replay'[v].completed = minute + 1
                        /\ EndedOn(v, s)'
<1>3. \/ \A v \in Variants : Ended(v)' => kept(v)
      \/ \E s \in Shapes : \A v \in Variants : Ended(v)' => kept(v) \/ new(v, s)
  <2>1. CASE UNCHANGED vars
    BY <2>1 DEF vars, Ended
  <2>2. CASE RelationshipMissing \/ DatasetEnds \/ EvidenceMissing
    <3>1. PICK status \in Censorings, reason \in {"M1_RELATIONSHIP", "M1_EVIDENCE", "M1_END"} :
            Censor(status, reason)
      BY <2>2 DEF RelationshipMissing, DatasetEnds, EvidenceMissing, Censorings
    <3>2. ASSUME NEW v \in Variants, Ended(v)'
          PROVE  kept(v)
      <4>1. CASE Observing(v)
        <5>1. replay'[v] = Finished(replay[v], status, reason)
          BY <3>1, <4>1 DEF Censor
        <5>2. replay'[v].status = status
          BY <1>1, <5>1 DEF Finished, ReplayType
        <5> QED
          BY <3>2, <5>2 DEF Censorings, Terminals, Ended
      <4>2. CASE ~Observing(v)
        BY <3>1, <3>2, <4>2 DEF Censor, Ended
      <4> QED
        BY <4>1, <4>2
    <3> QED
      BY <3>2
  <2>3. CASE CandleObserved
    <3>1. PICK s \in Shapes, row5 \in M5Rows :
            replay' = [w \in Variants |-> IF Observing(w) THEN Replayed(w, Candle(s), row5)
                                           ELSE replay[w]]
      BY <2>3 DEF CandleObserved
    <3>2. TypeOK /\ NextMinute /\ minute' = minute + 1
      BY <2>3 DEF IInv, CandleObserved, NextMinute
    <3>3. ASSUME NEW v \in Variants, Ended(v)'
          PROVE  kept(v) \/ new(v, s)
      <4>1. /\ Observing(v) => Moves(v, s, replay'[v])
            /\ ~Observing(v) => replay'[v] = replay[v]
        BY <3>1, <3>2, ObservedMoves
      <4>2. CASE Observing(v)
        <5>1. /\ ~Held(replay[v].stage, s) /\ replay'[v].completed = minute + 1
              /\ replay'[v].stage = replay[v].stage
              /\ replay'[v].alternatives = Alternatives(replay[v].stage, Candle(s), minute + 1)
          BY <3>3, <4>1, <4>2 DEF Moves, Ended
        <5>2. replay'[v].alternatives # {}
          BY <1>1, <5>1, NoBarrierMet
        <5> QED
          BY <1>2, <3>2, <5>1, <5>2, EndedOnNext
      <4>3. CASE ~Observing(v)
        BY <3>3, <4>1, <4>3 DEF Ended
      <4> QED
        BY <4>2, <4>3
    <3> QED
      BY <3>3
  <2> QED
    BY <2>1, <2>2, <2>3 DEF Next
<1>4. ASSUME NEW v \in Variants, kept(v)
      PROVE  /\ replay'[v].completed \in 1..minute
             /\ \A s : EndedOn(v, s) => EndedOn(v, s)'
  <2>1. replay'[v].completed \in 1..minute
    BY <1>4 DEF EndsShareACandle
  <2>2. ASSUME NEW s, EndedOn(v, s) PROVE EndedOn(v, s)'
    BY <1>2, <1>4, <2>2, EndedOnNext DEF EndedOn
  <2> QED
    BY <2>1, <2>2
<1>5. ASSUME NEW v \in Variants, NEW w \in Variants, kept(v), kept(w),
             replay'[v].completed = replay'[w].completed
      PROVE  \E s \in Shapes : EndedOn(v, s)' /\ EndedOn(w, s)'
  <2>1. PICK s \in Shapes : EndedOn(v, s) /\ EndedOn(w, s)
    BY <1>5 DEF EndsShareACandle
  <2> QED
    BY <1>4, <1>5, <2>1
<1> SUFFICES ASSUME NEW v \in Variants, Ended(v)'
             PROVE  /\ replay'[v].completed \in 1..minute'
                    /\ \A w \in Variants : Ended(w)' /\ replay'[w].completed = replay'[v].completed =>
                         \E s \in Shapes : EndedOn(v, s)' /\ EndedOn(w, s)'
  BY DEF EndsShareACandle
<1>6. replay'[v].completed \in 1..minute'
  BY <1>1, <1>2, <1>3, <1>4
<1>7. ASSUME NEW w \in Variants, Ended(w)', replay'[w].completed = replay'[v].completed
      PROVE  \E s \in Shapes : EndedOn(v, s)' /\ EndedOn(w, s)'
  <2>1. CASE kept(v) /\ kept(w)
    BY <1>5, <1>7, <2>1
  <2>2. CASE ~(kept(v) /\ kept(w))
    <3>1. PICK s \in Shapes : \A u \in Variants : Ended(u)' => kept(u) \/ new(u, s)
      BY <1>3, <1>7, <2>2
    <3>2. \A u \in Variants : kept(u) => replay'[u].completed # minute + 1
      BY <1>1, <1>4
    <3>3. new(v, s) /\ new(w, s)
      BY <1>7, <2>2, <3>1, <3>2
    <3> QED
      BY <3>3
  <2> QED
    BY <2>1, <2>2
<1> QED
  BY <1>6, <1>7

\* The pairs of outcomes kept by the comparison are those of the price paths.
LEMMA EndsAreOnPaths ==
  ASSUME IInv, EndsShareACandle
  PROVE  PairsAreExactlyThePaths
<1> SUFFICES ASSUME NEW v \in Variants, NEW w \in Variants, Ended(v), Ended(w),
                    replay[v].completed = replay[w].completed
             PROVE  LET c == (CHOOSE x \in replay[v].alternatives : TRUE).candle
                    IN  {<<Exit(p[1]), Exit(p[2])>> : p \in Pairs(v, w)} =
                        {<<ExitOnPath(replay[v].stage, c, p), ExitOnPath(replay[w].stage, c, p)>> :
                            p \in Paths(c)}
  BY DEF PairsAreExactlyThePaths
<1>1. PICK s \in Shapes : EndedOn(v, s) /\ EndedOn(w, s)
  BY DEF EndsShareACandle
<1> DEFINE a == replay[v].stage
           b == replay[w].stage
           c == Candle(s)
           at == replay[v].completed
<1>2. /\ sign \in {1, -1} /\ a \in 0..2 /\ b \in 0..2
  BY DEF IInv, TypeOK, ReplayType
<1>3. /\ replay[v].alternatives = Alternatives(a, c, at)
      /\ replay[w].alternatives = Alternatives(b, c, at)
      /\ Alternatives(a, c, at) # {} /\ Alternatives(b, c, at) # {}
  BY <1>1 DEF EndedOn
<1>4. (CHOOSE x \in replay[v].alternatives : TRUE).candle = c
  BY <1>2, <1>3, CandleMoves, AlternativesByCase
<1>5. c \in CandleType /\ c.low <= c.open /\ c.open <= c.high
  <2>1. /\ c \in CandleType /\ s.open \in Int /\ s.adv \in Int /\ s.fav \in Int
        /\ s.adv <= s.open /\ s.open <= s.fav
    BY <1>2, CandleMoves
  <2>2. CASE sign = 1
    BY <2>1, <2>2 DEF Candle
  <2>3. CASE sign = -1
    BY <2>1, <2>3 DEF Candle
  <2> QED
    BY <1>2, <2>1, <2>2, <2>3
<1> HIDE DEF a, b, c, at
<1>6. {<<Exit(q[1]), Exit(q[2])>> :
         q \in {r \in Alternatives(a, c, at) \X Alternatives(b, c, at) :
                  Compatible(r[1], r[2])}}
      = {<<ExitOnPath(a, c, p), ExitOnPath(b, c, p)>> : p \in Paths(c)}
  BY <1>2, <1>3, <1>5, CompatibleIsOnePath
<1>7. Pairs(v, w) = {r \in Alternatives(a, c, at) \X Alternatives(b, c, at) :
                       Compatible(r[1], r[2])}
  BY <1>3 DEF Pairs
<1> DEFINE paired == {<<Exit(p[1]), Exit(p[2])>> : p \in Pairs(v, w)}
           onPaths(k) == {<<ExitOnPath(a, k, p), ExitOnPath(b, k, p)>> : p \in Paths(k)}
<1>8. paired = onPaths(c)
  BY <1>6, <1>7
<1> SUFFICES paired = onPaths((CHOOSE x \in replay[v].alternatives : TRUE).candle)
  BY DEF a, b
<1> HIDE DEF paired, onPaths
<1> QED
  BY <1>4, <1>8

\* The paired comparison keeps exactly the pairs of outcomes that one price path
\* inside the candle can give both variants, whatever the levels and the candles.
THEOREM ComparisonIsExact == Spec => []PairsAreExactlyThePaths
<1>1. Init => EndsShareACandle
  <2>1. ASSUME Init, NEW v \in Variants PROVE ~Ended(v)
    BY <2>1 DEF Init, Ended, Terminals
  <2> QED
    BY <2>1 DEF EndsShareACandle
<1>2. IInv /\ EndsShareACandle /\ [Next]_vars => EndsShareACandle'
  BY StepKeepsEnds
<1>3. IInv /\ EndsShareACandle => PairsAreExactlyThePaths
  BY EndsAreOnPaths
<1> QED
  BY <1>1, <1>2, <1>3, InvHolds, PTL DEF Spec
=============================================================================
