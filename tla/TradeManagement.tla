-------------------------- MODULE TradeManagement --------------------------
(***************************************************************************)
(* The replay of one frozen trade candidate under the five management      *)
(* variants of xauusd_reference_trade_management_experiment.py, side by    *)
(* side on the same minute candles, as the aggregate compares them.        *)
(*                                                                         *)
(* Prices are integers relative to the entry reference (entry = 0), R      *)
(* ticks is the initial risk, times are minutes after T.  `sign` is 1 for  *)
(* a LONG and -1 for a SHORT candidate.  The histories, complete before    *)
(* the code replays them, are drawn candle by candle: the replay of a      *)
(* minute reads no later one.                                              *)
(***************************************************************************)
EXTENDS Integers, FiniteSets

CONSTANTS
    R,          \* the initial risk, in ticks
    Horizon,    \* minutes observed after T (1440 in the policy)
    M5Minutes,  \* minutes of a structural candle of variant E (5)
    Shapes,     \* minute candles: opening, favourable and adverse extremes
    Extremes,   \* adverse extremes a structural or warm-up candle may have
    Evidences,  \* what the declarations of a request establish
    Missing     \* no candle, or not established

ASSUME SizesAreNat ==
    {R, Horizon, M5Minutes} \subseteq Nat \ {0}

ASSUME ShapesAreCandles ==
    /\ Shapes \subseteq [open : Int, fav : Int, adv : Int]
    /\ \A s \in Shapes : s.adv <= s.open /\ s.open <= s.fav

ASSUME MissingIsNoPrice ==
    Missing \notin Int /\ Extremes \subseteq Int

\* baseFrom and m5From: when the first declaration of the kind is available;
\* m1End and m5End: the declared end of the dataset, Missing if none;
\* m5Span: the declared M5 coverage; phase: the anchor of the M5 grid.
ASSUME EvidencesAreDeclarations ==
    Evidences \subseteq
        [baseFrom : Int, m5From : Int, m1End : Int \cup {Missing},
         m5End : Int \cup {Missing}, m5Span : Int \X Int,
         phase : 0..(M5Minutes - 1)]

VARIABLES
    sign, evidence,   \* the request, fixed
    minute,           \* minutes replayed
    m1, m5,           \* adverse extremes of the last two M1 and M5 candles
    replay            \* the state and the result of each variant

vars == <<sign, evidence, minute, m1, m5, replay>>

Variants == {"A", "B", "C", "D", "E"}
Terminals == {"RESOLVED", "AMBIGUOUS"}
Censorings == {"HORIZON_CENSORED", "MISSING_DATA_CENSORED", "END_OF_DATA_UNRESOLVED"}
Mechanisms == <<"INITIAL_RISK_STOP", "BREAK_EVEN_STOP", "PROTECTED_PROFIT_STOP">>

Observing(v) == replay[v].status = "OBSERVING"
Ended(v) == replay[v].status \in Terminals

LargerOf(a, b) == IF a >= b THEN a ELSE b

\* levels[stage] and target.
Level(stage) == sign * (stage - 1) * R
Target == sign * 3 * R

\* A candle of the given shape, in the direction of the candidate.
Candle(s) ==
    [open |-> sign * s.open,
     high |-> IF sign = 1 THEN s.fav ELSE -s.adv,
     low  |-> IF sign = 1 THEN s.adv ELSE -s.fav]

Adverse(c) == IF sign = 1 THEN c.low ELSE c.high
Favorable(c) == IF sign = 1 THEN c.high ELSE c.low

-----------------------------------------------------------------------------
(* One variant, one minute *)

Alternative(stage, c, at, mechanism, mark, order) ==
    [mechanism |-> mechanism, mark |-> mark, order |-> order,
     stop |-> Level(stage), candle |-> c, at |-> at]

\* The terminal alternatives of the candle that completes at a minute, under the
\* stop in force: an opening beyond a barrier decides; otherwise each barrier
\* touched is an alternative, and two of them carry the order that would make
\* them true.
Alternatives(stage, c, at) ==
    LET stop == Level(stage)
        mechanism == Mechanisms[stage + 1]
        openStop == (c.open - stop) * sign <= 0
        openTarget == (c.open - Target) * sign >= 0
        stopTouch == IF sign = 1 THEN c.low <= stop ELSE c.high >= stop
        targetTouch == IF sign = 1 THEN c.high >= Target ELSE c.low <= Target
        order(o) == IF stopTouch /\ targetTouch THEN o ELSE "NONE"
    IN  IF openStop \/ openTarget
        THEN {Alternative(stage, c, at, IF openStop THEN mechanism ELSE "FINAL_TARGET",
                          c.open, "NONE")}
        ELSE (IF stopTouch
              THEN {Alternative(stage, c, at, mechanism, stop, order("STOP_BEFORE_TARGET"))}
              ELSE {})
             \cup
             (IF targetTouch
              THEN {Alternative(stage, c, at, "FINAL_TARGET", Target, order("TARGET_BEFORE_STOP"))}
              ELSE {})

\* Wrong on purpose: the adverse excursion of the last candle only.
LastAdverseOnly(r, c) ==
    LET movement == Favorable(c) * sign
    IN  [r EXCEPT
            !.mae = -(Adverse(c) * sign),
            !.mfe = LargerOf(@, movement),
            !.first_1r = IF movement >= R /\ @ = Missing THEN minute + 1 ELSE @,
            !.latched_2r = @ \/ movement >= 2 * R]

\* A candle survived: excursions, and the milestones it reached, which latch.
Survived(r, c) ==
    LET movement == Favorable(c) * sign
    IN  [r EXCEPT
            !.mae = LargerOf(@, -(Adverse(c) * sign)),
            !.mfe = LargerOf(@, movement),
            !.first_1r = IF movement >= R /\ @ = Missing THEN minute + 1 ELSE @,
            !.latched_2r = @ \/ movement >= 2 * R]

\* Is the middle one strictly more adverse than its neighbours?  A known
\* neighbour can refute it whatever the others are.
Pivot(left, middle, right) ==
    LET refutes(n) == /\ Missing \notin {middle, n}
                      /\ IF sign = 1 THEN middle >= n ELSE middle <= n
    IN  IF refutes(left) \/ refutes(right) THEN "FALSE"
        ELSE IF Missing \in {left, middle, right} THEN "UNKNOWN"
        ELSE "TRUE"

M5Declared == evidence.m5From <= minute + 1

\* An M5 candle completes with this minute.
M5Boundary == (minute + 1 - evidence.phase) % M5Minutes = 0

\* A pivot may be confirmed now: its centre opened at T or later.  Without a
\* declared grid any phase is possible.
Possible(v) ==
    LET d == IF v = "D" THEN 1 ELSE M5Minutes
    IN  /\ minute + 1 >= 2 * d
        /\ v = "E" /\ M5Declared => M5Boundary

InCoverage(v) ==
    v = "E" => /\ minute + 1 - 3 * M5Minutes >= evidence.m5Span[1]
               /\ minute + 1 <= evidence.m5Span[2]

\* Wrong on purpose: the M1 gate, too, waits for the M5 relationship.
OneRelationshipForBoth(v, key, row5) ==
    IF ~M5Declared THEN "UNKNOWN"
    ELSE IF v = "D" THEN Pivot(m1[1], m1[2], key)
    ELSE IF InCoverage(v) THEN Pivot(m5[1], m5[2], row5)
    ELSE "UNKNOWN"

Verdict(v, key, row5) ==
    IF v = "D" THEN Pivot(m1[1], m1[2], key)
    ELSE IF M5Declared /\ InCoverage(v) THEN Pivot(m5[1], m5[2], row5)
    ELSE "UNKNOWN"

\* The gate of D and E is asked for once 1R is established, strictly later.
Awaiting(v, r) ==
    /\ v \in {"D", "E"} /\ ~r.gate_open
    /\ r.first_1r # Missing /\ minute + 1 > r.first_1r

\* Wrong on purpose: one R protects one R.
SkipsBreakEven(v, r) ==
    IF v = "A" \/ ~r.gate_open \/ r.first_1r = Missing THEN 0
    ELSE IF v # "B" THEN 2
    ELSE 1

\* Wrong on purpose: the stages of B and of the staged variants are swapped.
SwapsStages(v, r) ==
    IF v = "A" \/ ~r.gate_open \/ r.first_1r = Missing THEN 0
    ELSE IF r.latched_2r /\ v = "B" THEN 2
    ELSE 1

\* The highest stage the latched milestones permit, in force from the next
\* candle on.
PermittedStage(v, r) ==
    IF v = "A" \/ ~r.gate_open \/ r.first_1r = Missing THEN 0
    ELSE IF r.latched_2r /\ v # "B" THEN 2
    ELSE 1

Promoted(v, r) == [r EXCEPT !.stage = LargerOf(@, PermittedStage(v, r))]

Finished(r, status, reason) ==
    [r EXCEPT !.status = status, !.reason = reason, !.completed = minute + 1]

\* A gate whose evidence is unknown stops the replay of the variant.
Starved(v, r) ==
    LET endpoint == IF v = "D" THEN evidence.m1End
                    ELSE IF M5Declared THEN evidence.m5End ELSE Missing
    IN  IF endpoint # Missing /\ minute + 1 > endpoint
        THEN Finished(r, "END_OF_DATA_UNRESOLVED", "GATE_END")
        ELSE Finished(r, "MISSING_DATA_CENSORED", "GATE_EVIDENCE")

\* Wrong on purpose: a gate whose evidence is missing is taken to stay closed.
SilenceIsNo(v, r, c, row5) ==
    LET opens == Awaiting(v, r) /\ Possible(v) /\ Verdict(v, Adverse(c), row5) = "TRUE"
    IN  IF minute + 1 = Horizon THEN Finished(r, "HORIZON_CENSORED", "HORIZON")
        ELSE Promoted(v, [r EXCEPT !.gate_open = @ \/ opens])

Advanced(v, r, c, row5) ==
    LET asked == Awaiting(v, r) /\ Possible(v)
        verdict == Verdict(v, Adverse(c), row5)
    IN  IF minute + 1 = Horizon THEN Finished(r, "HORIZON_CENSORED", "HORIZON")
        ELSE IF asked /\ verdict = "UNKNOWN" THEN Starved(v, r)
        ELSE Promoted(v, [r EXCEPT !.gate_open = @ \/ (asked /\ verdict = "TRUE")])

\* Wrong on purpose: the candle's own milestone protects against the candle.
PromotedFirst(v, c, row5) ==
    LET r == Promoted(v, Survived(replay[v], c))
        alternatives == Alternatives(r.stage, c, minute + 1)
        status == IF Cardinality(alternatives) > 1 THEN "AMBIGUOUS" ELSE "RESOLVED"
    IN  IF alternatives = {} THEN Advanced(v, r, c, row5)
        ELSE [Finished(r, status, "TERMINAL") EXCEPT !.alternatives = alternatives]

Replayed(v, c, row5) ==
    LET r == replay[v]
        alternatives == Alternatives(r.stage, c, minute + 1)
        status == IF Cardinality(alternatives) > 1 THEN "AMBIGUOUS" ELSE "RESOLVED"
    IN  IF alternatives = {} THEN Advanced(v, Survived(r, c), c, row5)
        ELSE [Finished(r, status, "TERMINAL") EXCEPT !.alternatives = alternatives]

-----------------------------------------------------------------------------
(* The replay *)

Init ==
    /\ sign \in {1, -1}
    /\ evidence \in Evidences
    /\ minute = 0
    /\ \E t1 \in Extremes : m1 = <<Missing, sign * t1>>
    /\ \/ m5 = <<Missing, Missing>>
       \/ /\ evidence.m5Span[1] <= -M5Minutes
          /\ \E x \in Extremes : m5 = <<Missing, sign * x>>
    /\ replay = [v \in Variants |->
           [status |-> "OBSERVING", reason |-> "NONE", completed |-> Missing,
            stage |-> 0, first_1r |-> Missing, latched_2r |-> FALSE,
            gate_open |-> v \in {"A", "B", "C"}, mae |-> 0, mfe |-> 0,
            alternatives |-> {}]]

\* The minute in hand is replayed for the variants that still observe.
NextMinute ==
    /\ minute < Horizon
    /\ \E v \in Variants : Observing(v)
    /\ minute' = minute + 1
    /\ UNCHANGED <<sign, evidence>>

Censor(status, reason) ==
    /\ replay' = [v \in Variants |-> IF Observing(v)
                                     THEN Finished(replay[v], status, reason)
                                     ELSE replay[v]]
    /\ UNCHANGED <<m1, m5>>

RelationshipMissing ==
    /\ NextMinute
    /\ evidence.baseFrom > minute + 1
    /\ Censor("MISSING_DATA_CENSORED", "M1_RELATIONSHIP")

AfterDatasetEnd == evidence.m1End # Missing /\ minute + 1 > evidence.m1End

DatasetEnds ==
    /\ NextMinute
    /\ evidence.baseFrom <= minute + 1
    /\ AfterDatasetEnd
    /\ Censor("END_OF_DATA_UNRESOLVED", "M1_END")

EvidenceMissing ==
    /\ NextMinute
    /\ evidence.baseFrom <= minute + 1
    /\ ~AfterDatasetEnd
    /\ Censor("MISSING_DATA_CENSORED", "M1_EVIDENCE")

\* The structural candle that completes now: none beyond what is declared, a
\* hole anywhere.
M5Rows ==
    {Missing} \cup
    {sign * x : x \in {y \in Extremes :
        /\ minute + 1 - M5Minutes >= evidence.m5Span[1]
        /\ minute + 1 <= evidence.m5Span[2]
        /\ evidence.m5End = Missing \/ minute + 1 <= evidence.m5End}}

CandleObserved ==
    /\ NextMinute
    /\ evidence.baseFrom <= minute + 1
    /\ ~AfterDatasetEnd
    /\ \E s \in Shapes, row5 \in M5Rows :
        LET c == Candle(s)
        IN  /\ M5Boundary \/ row5 = Missing
            /\ replay' = [v \in Variants |-> IF Observing(v) THEN Replayed(v, c, row5)
                                             ELSE replay[v]]
            /\ m1' = <<m1[2], Adverse(c)>>
            /\ m5' = IF M5Boundary THEN <<m5[2], row5>> ELSE m5

Next == RelationshipMissing \/ DatasetEnds \/ EvidenceMissing \/ CandleObserved

Spec == Init /\ [][Next]_vars

-----------------------------------------------------------------------------
(* What the replay has to get right *)

AlternativeType ==
    [mechanism : {"INITIAL_RISK_STOP", "BREAK_EVEN_STOP", "PROTECTED_PROFIT_STOP",
                  "FINAL_TARGET"},
     mark : Int, stop : Int, at : 1..Horizon,
     order : {"NONE", "STOP_BEFORE_TARGET", "TARGET_BEFORE_STOP"},
     candle : [open : Int, high : Int, low : Int]]

ReplayType ==
    [status : Terminals \cup Censorings \cup {"OBSERVING"},
     reason : {"NONE", "TERMINAL", "HORIZON", "M1_RELATIONSHIP", "M1_EVIDENCE",
               "M1_END", "GATE_EVIDENCE", "GATE_END"},
     completed : 1..Horizon \cup {Missing},
     stage : 0..2, first_1r : 1..Horizon \cup {Missing},
     latched_2r : BOOLEAN, gate_open : BOOLEAN, mae : Nat, mfe : Nat,
     alternatives : SUBSET AlternativeType]

Row == Int \cup {Missing}

\* Every variable has its type; an excursion is never negative.
TypeOK ==
    /\ sign \in {1, -1}
    /\ evidence \in Evidences
    /\ minute \in 0..Horizon
    /\ m1 \in Row \X Row
    /\ m5 \in Row \X Row
    /\ replay \in [Variants -> ReplayType]

\* A is the loosest management and C the tightest: while C is still open no
\* other variant has met a barrier, and none is still open once A has.
TighterExitsFirst ==
    /\ Observing("C") => \A v \in Variants : ~Ended(v)
    /\ Ended("A") => \A v \in Variants : ~Observing(v)
    /\ \A v \in Variants : Observing(v) /\ Observing("C") =>
           replay["A"].stage <= replay[v].stage /\ replay[v].stage <= replay["C"].stage

\* The protection in force was earned by an excursion the replay has recorded,
\* and an open variant has met neither its initial stop nor the target.
ProtectionIsEarned ==
    \A v \in Variants :
        /\ replay[v].stage * R <= replay[v].mfe
        /\ replay[v].first_1r # Missing <=> replay[v].mfe >= R
        /\ Observing(v) => replay[v].mae < R /\ replay[v].mfe < 3 * R

\* The minute evidence of a replay that got this far answers every question of
\* the M1 gate: D is never censored for structural evidence.
DNeverStarves ==
    replay["D"].reason \notin {"GATE_EVIDENCE", "GATE_END"}

\* A stop that ends a variant was in force before the candle that met it: its
\* milestone is older than the candle, and so is the gate.
NothingIsBackdated ==
    [][\A v \in Variants : Observing(v) /\ Ended(v)' =>
        /\ \A x \in replay'[v].alternatives :
              x.mechanism \in {"BREAK_EVEN_STOP", "PROTECTED_PROFIT_STOP"} =>
                  replay[v].first_1r # Missing /\ replay[v].gate_open
        /\ replay'[v].stage = replay[v].stage]_vars

\* A stop never loosens, and a result once given does not change.
StopsOnlyTighten ==
    [][\A v \in Variants :
        /\ replay[v].stage <= replay'[v].stage
        /\ ~Observing(v) => replay'[v] = replay[v]]_vars

\* The candles at hand leave no doubt about the pivot of the gate: each neighbour of the
\* centre is there and less adverse, or one that is there is not.
Settles(row5, opens) ==
    /\ m5[2] # Missing
    /\ IF opens
       THEN \A n \in {m5[1], row5} : n # Missing /\ sign * m5[2] < sign * n
       ELSE \E n \in {m5[1], row5} : n # Missing /\ sign * n <= sign * m5[2]

\* E is never continued where missing evidence could matter: with 1R established before
\* the minute and the gate closed, E goes on only if no pivot can be confirmed now (no
\* full one since T, or no M5 candle completes on the declared grid) or the M5 candles
\* there are settle it, one way or the other.
GateOfEIsDecided ==
    [][/\ Observing("E") /\ Observing("E")'
       /\ replay["E"].first_1r # Missing /\ ~replay["E"].gate_open
       => \/ minute + 1 < 2 * M5Minutes
          \/ M5Declared /\ ~M5Boundary
          \/ Settles(m5'[2], replay'["E"].gate_open)]_vars

\* Missing structural evidence is consequential only when its unknown predicate
\* could change the next stop (docs/capability_architecture.md:2124): a variant
\* is not censored over a pivot the M5 candles it has already refute.
CensoringIsConsequential ==
    [][Observing("E") /\ replay'["E"].reason \in {"GATE_EVIDENCE", "GATE_END"} /\ M5Declared =>
        Pivot(m5[1], m5[2], m5'[2]) # "FALSE"]_vars
=============================================================================
