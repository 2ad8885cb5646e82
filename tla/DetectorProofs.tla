--------------------------- MODULE DetectorProofs ---------------------------
(***************************************************************************)
(* The detectors do not repaint: what one of them says of candles it has   *)
(* seen is what it says of them after any number of further candles, for   *)
(* every history, every setting and every price.                           *)
(*                                                                         *)
(* Every fact about a candle is taken from candles up to it, or up to the  *)
(* one that confirms it; these proofs trace that bound through each        *)
(* definition: swings, the swings a candle is measured against, the levels *)
(* drawn through those, and what the candle did to the levels.             *)
(*                                                                         *)
(* What a report then tells are dated facts, some left out by filters and  *)
(* limits.  Of two histories of one market the longer tells a fact again   *)
(* while it covers its subject and leaves nothing out; and a fact that it  *)
(* dates before the end of the shorter one, the shorter one told already.  *)
(*                                                                         *)
(* And what is told is so: by the definitions of MarketTruth, which look   *)
(* at the candles and not at the detectors, every gap, move, block and     *)
(* event told was there, the structure called bullish rose, and what an    *)
(* answer that leaves nothing out does not tell was not there.             *)
(***************************************************************************)
EXTENDS MarketTruth, FiniteSetTheorems, SequenceTheorems, NaturalsInduction,
        WellFoundedInduction, TLAPS

\* A history, and one that goes on from it.
Continues(longer, candles) ==
  /\ Len(candles) <= Len(longer)
  /\ \A i \in 1..Len(candles) : longer[i] = candles[i]

-----------------------------------------------------------------------------
(* Swings.                                                                 *)

\* A confirmed swing stays one, and no further candle makes a swing of a candle
\* that was confirmed not to be one: a swing is known one candle after its own,
\* and for good.
THEOREM SwingsNeverRepaint ==
  ASSUME NEW C, NEW candles \in Seq(C), NEW longer \in Seq(C), Continues(longer, candles)
  PROVE  /\ SwingHighs(candles) = {i \in SwingHighs(longer) : i < Len(candles)}
         /\ SwingLows(candles) = {i \in SwingLows(longer) : i < Len(candles)}
<1>1. Len(candles) \in Nat /\ Len(longer) \in Nat /\ Len(candles) <= Len(longer)
  BY DEF Continues
<1>2. ASSUME NEW i \in 2..(Len(candles) - 1)
      PROVE  /\ longer[i] = candles[i] /\ longer[i - 1] = candles[i - 1]
             /\ longer[i + 1] = candles[i + 1]
  BY <1>1 DEF Continues
<1>3. 2..(Len(candles) - 1) = {i \in 2..(Len(longer) - 1) : i < Len(candles)}
  BY <1>1
<1>4. SwingHighs(candles) = {i \in SwingHighs(longer) : i < Len(candles)}
  BY <1>2, <1>3 DEF SwingHighs
<1>5. SwingLows(candles) = {i \in SwingLows(longer) : i < Len(candles)}
  BY <1>2, <1>3 DEF SwingLows
<1> QED
  BY <1>4, <1>5

\* A pivot stands one candle before the end at the latest.
LEMMA PivotsStandInside ==
  ASSUME NEW C, NEW candles \in Seq(C), NEW p \in Pivots(candles)
  PROVE  p.index \in 2..(Len(candles) - 1)
<1>1. Len(candles) \in Nat
  OBVIOUS
<1> QED
  BY <1>1 DEF Pivots, SwingHighs, SwingLows

\* Nor do pivots.
LEMMA PivotsNeverRepaint ==
  ASSUME NEW C, NEW candles \in Seq(C), NEW longer \in Seq(C), Continues(longer, candles)
  PROVE  Pivots(candles) = {p \in Pivots(longer) : p.index < Len(candles)}
<1> DEFINE High(s) == {[side |-> "high", index |-> i, price |-> s[i].high] : i \in SwingHighs(s)}
           Low(s) == {[side |-> "low", index |-> i, price |-> s[i].low] : i \in SwingLows(s)}
<1>1. /\ SwingHighs(candles) = {i \in SwingHighs(longer) : i < Len(candles)}
      /\ SwingLows(candles) = {i \in SwingLows(longer) : i < Len(candles)}
  BY SwingsNeverRepaint
<1>2. Len(candles) \in Nat /\ Len(longer) \in Nat
  OBVIOUS
<1>3. /\ \A i \in SwingHighs(candles) : longer[i] = candles[i]
      /\ \A i \in SwingLows(candles) : longer[i] = candles[i]
  <2>1. /\ SwingHighs(candles) \subseteq 1..Len(candles)
        /\ SwingLows(candles) \subseteq 1..Len(candles)
    BY <1>2 DEF SwingHighs, SwingLows
  <2> QED
    BY <2>1 DEF Continues
<1>4. High(candles) = {p \in High(longer) : p.index < Len(candles)}
  BY <1>1, <1>3
<1>5. Low(candles) = {p \in Low(longer) : p.index < Len(candles)}
  BY <1>1, <1>3
<1> QED
  BY <1>4, <1>5 DEF Pivots

-----------------------------------------------------------------------------
(* Levels and what happened to them.                                       *)

\* A cluster is drawn through swings it was given.
LEMMA ClustersAreOfPivots ==
  ASSUME NEW pivots, NEW side, NEW config, NEW c \in Clusters(pivots, side, config)
  PROVE  c.members \subseteq pivots
<1> DEFINE mine == {p \in pivots : p.side = side}
<1>1. PICK p : c = [side |-> side, type |-> "equal_cluster", members |-> Run(mine, p, config)]
  BY DEF Clusters
<1>2. c.members = Run(mine, p, config)
  BY <1>1
<1> QED
  BY <1>2 DEF Run

\* A level is drawn through pivots of its side.
LEMMA ViewsAreOfPivots ==
  ASSUME NEW pivots, NEW config, NEW level \in Views(pivots, config)
  PROVE  level.members \subseteq pivots
BY ClustersAreOfPivots DEF Views

\* A candle is measured against the same swings later as when it completed.
LEMMA EligibleNeverRepaints ==
  ASSUME NEW C, NEW candles \in Seq(C), NEW longer \in Seq(C), Continues(longer, candles),
         NEW config, NEW i \in 1..Len(candles)
  PROVE  Eligible(Pivots(candles), i, config) = Eligible(Pivots(longer), i, config)
<1>1. Pivots(candles) = {p \in Pivots(longer) : p.index < Len(candles)}
  BY PivotsNeverRepaint
<1>2. \A p \in Pivots(longer) : p.index \in Int
  BY PivotsStandInside
<1>3. Len(candles) \in Nat
  OBVIOUS
<1> QED
  BY <1>1, <1>2, <1>3 DEF Eligible

\* A level has the same boundary, known from the same instant on.
LEMMA BoundaryNeverRepaints ==
  ASSUME NEW C, NEW candles \in Seq(C), NEW longer \in Seq(C), Continues(longer, candles),
         NEW config, NEW tf, NEW i \in 1..Len(candles),
         NEW level \in Views(Eligible(Pivots(candles), i, config), config)
  PROVE  Boundary(level, candles, config, tf) = Boundary(level, longer, config, tf)
<1>1. ASSUME NEW m \in level.members
      PROVE  longer[m.index + 1] = candles[m.index + 1]
  <2>1. m \in Pivots(candles) /\ m.index + 1 < i
    BY ViewsAreOfPivots DEF Eligible
  <2>2. m.index \in 2..(Len(candles) - 1) /\ Len(candles) \in Nat
    BY <2>1, PivotsStandInside
  <2> QED
    BY <2>2 DEF Continues
<1>2. {Completion(candles[m.index + 1], tf) : m \in level.members}
        = {Completion(longer[m.index + 1], tf) : m \in level.members}
  BY <1>1
<1> QED
  BY <1>2 DEF Boundary

\* What the candles did to the levels of their time is never rewritten: further
\* candles add rows of their own and leave every earlier row as it was, whatever
\* was touched, swept or closed beyond.
THEOREM InteractionsNeverRepaint ==
  ASSUME NEW C, NEW candles \in Seq(C), NEW longer \in Seq(C), Continues(longer, candles),
         NEW config, NEW tf
  PROVE  InteractionHistory(candles, config, tf)
           = {row \in InteractionHistory(longer, config, tf) : row.candle <= Len(candles)}
<1> DEFINE Levels_(s, i) == {Boundary(level, s, config, tf) :
                               level \in Views(Eligible(Pivots(s), i, config), config)}
           Rows(s, i) == {[boundary |-> b, candle |-> i, kind |-> InteractionOf(s[i], b)] :
                             b \in Levels_(s, i)}
<1>1. Len(candles) \in Nat /\ Len(longer) \in Nat /\ Len(candles) <= Len(longer)
      /\ DOMAIN candles = 1..Len(candles) /\ DOMAIN longer = 1..Len(longer)
  BY DEF Continues
<1>2. ASSUME NEW i \in 1..Len(candles)
      PROVE  Rows(candles, i) = Rows(longer, i)
  <2>1. Levels_(candles, i) = Levels_(longer, i)
    BY EligibleNeverRepaints, BoundaryNeverRepaints
  <2>2. candles[i] = longer[i]
    BY DEF Continues
  <2> HIDE DEF Levels_
  <2> QED
    BY <2>1, <2>2
<1>3. \A s \in {candles, longer} :
        InteractionHistory(s, config, tf)
          = {row \in UNION {Rows(s, i) : i \in DOMAIN s} : row.kind # "none"}
  BY DEF InteractionHistory
<1>4. \A s \in {candles, longer} : \A i \in DOMAIN s : \A row \in Rows(s, i) : row.candle = i
  OBVIOUS
<1> HIDE DEF Rows
<1>5. ASSUME NEW row \in InteractionHistory(candles, config, tf)
      PROVE  row \in InteractionHistory(longer, config, tf) /\ row.candle <= Len(candles)
  <2>1. PICK i \in 1..Len(candles) : row \in Rows(candles, i)
    BY <1>1, <1>3
  <2>2. row \in Rows(longer, i) /\ i \in DOMAIN longer /\ row.kind # "none"
    BY <1>1, <1>2, <1>3, <2>1
  <2>3. row.candle = i
    BY <1>1, <1>4, <2>1
  <2> QED
    BY <1>1, <1>3, <2>2, <2>3
<1>6. ASSUME NEW row \in InteractionHistory(longer, config, tf), row.candle <= Len(candles)
      PROVE  row \in InteractionHistory(candles, config, tf)
  <2>1. PICK i \in DOMAIN longer : row \in Rows(longer, i)
    BY <1>3
  <2>2. row.candle = i
    BY <1>4, <2>1
  <2>3. i \in 1..Len(candles)
    BY <1>1, <1>6, <2>2
  <2>4. row \in Rows(candles, i) /\ i \in DOMAIN candles /\ row.kind # "none"
    BY <1>1, <1>2, <1>3, <2>1, <2>3
  <2> QED
    BY <1>3, <2>4
<1> QED
  BY <1>5, <1>6

-----------------------------------------------------------------------------
(* Displacements.                                                          *)

\* The true range of a candle looks one candle back.
LEMMA TrueRangeNeverRepaints ==
  ASSUME NEW C, NEW candles \in Seq(C), NEW longer \in Seq(C), Continues(longer, candles),
         NEW i \in 1..Len(candles)
  PROVE  TrueRange(longer, i) = TrueRange(candles, i)
<1>1. longer[i] = candles[i] /\ (i # 1 => longer[i - 1] = candles[i - 1])
  <2>1. Len(candles) \in Nat
    OBVIOUS
  <2> QED
    BY <2>1 DEF Continues
<1> QED
  BY <1>1 DEF TrueRange

\* The window before a candle lies inside every history that has the candle.
LEMMA BaselineNeverRepaints ==
  ASSUME NEW C, NEW candles \in Seq(C), NEW longer \in Seq(C), Continues(longer, candles),
         NEW i \in 1..Len(candles), NEW window \in Nat, window <= i - 1
  PROVE  Baseline(longer, i, window) = Baseline(candles, i, window)
<1> DEFINE before == (i - window)..(i - 1)
           Half(bars, m) == {j \in before : TrueRange(bars, j) <= TrueRange(bars, m)}
           Smallest(bars, n) ==
             {TrueRange(bars, k) : k \in {m \in before : Cardinality(Half(bars, m)) >= n}}
<1>1. ASSUME NEW k \in before
      PROVE  TrueRange(longer, k) = TrueRange(candles, k)
  <2>1. Len(candles) \in Nat
    OBVIOUS
  <2>2. k \in 1..Len(candles)
    BY <2>1
  <2> QED
    BY <2>2, TrueRangeNeverRepaints
<1> HIDE DEF before
<1>2. \A m \in before : Half(longer, m) = Half(candles, m)
  BY <1>1
<1> HIDE DEF Half
<1>3. \A n : Smallest(longer, n) = Smallest(candles, n)
  BY <1>1, <1>2
<1>4. \A bars : Baseline(bars, i, window)
                  = Min(Smallest(bars, (window + 1) \div 2)) + Min(Smallest(bars, (window \div 2) + 1))
  BY DEF Baseline, Half, before
<1> HIDE DEF Smallest
<1> QED
  BY <1>3, <1>4

\* Whether a candle has a baseline is known with the candle.
LEMMA BaselineStateNeverRepaints ==
  ASSUME NEW C, NEW candles \in Seq(C), NEW longer \in Seq(C), Continues(longer, candles),
         NEW config, config.baseline \in Nat, NEW i \in 1..Len(candles)
  PROVE  BaselineState(longer, i, config) = BaselineState(candles, i, config)
<1>1. CASE i - 1 < config.baseline
  BY <1>1 DEF BaselineState
<1>2. CASE config.baseline <= i - 1
  <2>1. Baseline(longer, i, config.baseline) = Baseline(candles, i, config.baseline)
    BY <1>2, BaselineNeverRepaints
  <2> QED
    BY <2>1 DEF BaselineState
<1>3. Len(candles) \in Nat
  OBVIOUS
<1> QED
  BY <1>1, <1>2, <1>3

\* Whether a candle is a displacement is settled when it completes: the candles it
\* is compared with are those before it.
THEOREM DisplacementsNeverRepaint ==
  ASSUME NEW C, NEW candles \in Seq(C), NEW longer \in Seq(C), Continues(longer, candles),
         NEW config, config.baseline \in Nat, NEW i \in 1..Len(candles)
  PROVE  Displaces(longer, i, config) <=> Displaces(candles, i, config)
<1>1. longer[i] = candles[i]
  BY DEF Continues
<1>2. BaselineState(longer, i, config) = BaselineState(candles, i, config)
  BY BaselineStateNeverRepaints
<1>3. TrueRange(longer, i) = TrueRange(candles, i)
  BY TrueRangeNeverRepaints
<1>4. BaselineState(candles, i, config) = "available" =>
        Baseline(longer, i, config.baseline) = Baseline(candles, i, config.baseline)
  <2>1. ASSUME BaselineState(candles, i, config) = "available"
        PROVE  config.baseline <= i - 1
    BY <2>1 DEF BaselineState
  <2> QED
    BY <2>1, BaselineNeverRepaints
<1> QED
  BY <1>1, <1>2, <1>3, <1>4 DEF Displaces

-----------------------------------------------------------------------------
(* Gaps.                                                                   *)

\* A gap keeps its bounds and its history: further candles only add what they did,
\* and one that was filled, in part or in full, never counts as less filled again.
THEOREM GapsNeverRepaint ==
  ASSUME NEW C, NEW candles \in Seq(C), NEW longer \in Seq(C), Continues(longer, candles),
         NEW config, NEW b \in 2..(Len(candles) - 1)
  PROVE  LET before == GapAt(candles, b, config)
             after == GapAt(longer, b, config)
         IN  /\ after.gap = before.gap
             /\ before.interactions = {e \in after.interactions : e.candle <= Len(candles)}
             /\ before.status = "fully_filled" => after.status = "fully_filled"
             /\ before.status = "partially_filled" => after.status # "open"
<1> DEFINE gap == GapAt(candles, b, config).gap
           Done(s) == {[candle |-> i, kind |-> GapEvent(s[i], gap, config)] :
                          i \in (b + 2)..Len(s)}
           Kinds(s) == {e.kind : e \in Done(s)}
<1>1. Len(candles) \in Nat /\ Len(longer) \in Nat /\ Len(candles) <= Len(longer)
  BY DEF Continues
<1>2. GapAt(longer, b, config).gap = gap
  <2>1. longer[b - 1] = candles[b - 1] /\ longer[b + 1] = candles[b + 1]
    BY <1>1 DEF Continues
  <2> QED
    BY <2>1 DEF GapAt
<1>3. \A s \in {candles, longer} :
        /\ GapAt(s, b, config).interactions = {e \in Done(s) : e.kind # "none"}
        /\ GapAt(s, b, config).status =
             IF "fully_filled_event" \in Kinds(s) THEN "fully_filled"
             ELSE IF "partial_fill_event" \in Kinds(s) THEN "partially_filled"
             ELSE "open"
  <2>1. ASSUME NEW s, GapAt(s, b, config).gap = gap
        PROVE  /\ GapAt(s, b, config).interactions = {e \in Done(s) : e.kind # "none"}
               /\ GapAt(s, b, config).status =
                    IF "fully_filled_event" \in Kinds(s) THEN "fully_filled"
                    ELSE IF "partial_fill_event" \in Kinds(s) THEN "partially_filled"
                    ELSE "open"
    <3> DEFINE around == GapAt(s, b, config).gap
               events == {[candle |-> i, kind |-> GapEvent(s[i], around, config)] : i \in (b + 2)..Len(s)}
               kinds == {e.kind : e \in events}
    <3>1. GapAt(s, b, config).interactions = {e \in events : e.kind # "none"}
      BY DEF GapAt
    <3>2. GapAt(s, b, config).status = IF "fully_filled_event" \in kinds THEN "fully_filled"
                                       ELSE IF "partial_fill_event" \in kinds THEN "partially_filled"
                                       ELSE "open"
      BY DEF GapAt
    <3>3. events = Done(s) /\ kinds = Kinds(s)
      BY <2>1
    <3> HIDE DEF events, kinds, gap, Done, Kinds
    <3> QED
      BY <3>1, <3>2, <3>3
  <2> HIDE DEF gap, Done, Kinds
  <2> QED
    BY <1>2, <2>1 DEF gap
<1>4. Done(candles) = {e \in Done(longer) : e.candle <= Len(candles)}
  <2>1. \A i \in (b + 2)..Len(candles) : longer[i] = candles[i]
    BY <1>1 DEF Continues
  <2>2. (b + 2)..Len(candles) = {i \in (b + 2)..Len(longer) : i <= Len(candles)}
    BY <1>1
  <2> HIDE DEF gap
  <2> QED
    BY <2>1, <2>2
<1>5. Kinds(candles) \subseteq Kinds(longer)
  <2> HIDE DEF Done
  <2> QED
    BY <1>4
<1>6. GapAt(candles, b, config).interactions
        = {e \in GapAt(longer, b, config).interactions : e.candle <= Len(candles)}
  <2> HIDE DEF Done, Kinds
  <2> QED
    BY <1>3, <1>4
<1>7. /\ GapAt(candles, b, config).status = "fully_filled"
           => GapAt(longer, b, config).status = "fully_filled"
      /\ GapAt(candles, b, config).status = "partially_filled"
           => GapAt(longer, b, config).status # "open"
  <2> HIDE DEF Done, Kinds
  <2> QED
    BY <1>3, <1>5
<1> QED
  BY <1>2, <1>6, <1>7

-----------------------------------------------------------------------------
(* Maxima and finite sets.                                                 *)

\* A set of natural numbers that is not empty has a least member.
LEMMA LeastIndex ==
  ASSUME NEW T, T \subseteq Nat, T # {}
  PROVE  \E m \in T : \A k \in T : m <= k
<1>1. PICK m \in T : \A k \in T : <<k, m>> \notin OpToRel(<, Nat)
  BY NatLessThanWellFounded, WFMin
<1>2. \A k \in T : ~(k < m)
  BY <1>1 DEF OpToRel
<1> QED
  BY <1>2

\* Integers that are bounded have a greatest one.
LEMMA GreatestIndex ==
  ASSUME NEW T, T \subseteq Int, T # {}, NEW b \in Int, \A y \in T : y <= b
  PROVE  Max(T) \in T /\ \A y \in T : y <= Max(T)
<1> DEFINE gaps == {n \in Nat : b - n \in T}
<1>1. gaps # {}
  <2>1. PICK y \in T : TRUE
    OBVIOUS
  <2>2. b - y \in Nat /\ b - (b - y) = y
    BY <2>1
  <2> QED
    BY <2>1, <2>2
<1>2. PICK m \in gaps : \A k \in gaps : m <= k
  BY <1>1, LeastIndex
<1>3. b - m \in T
  BY <1>2
<1>4. ASSUME NEW y \in T
      PROVE  b - m >= y
  <2>1. b - y \in Nat /\ b - (b - y) = y
    OBVIOUS
  <2>2. m <= b - y
    BY <1>2, <2>1
  <2> QED
    BY <1>2, <2>1, <2>2
<1>5. Max(T) \in T /\ \A y \in T : Max(T) >= y
  BY <1>3, <1>4 DEF Max
<1> QED
  BY <1>5

\* The greatest is the greatest.
LEMMA MaxIs ==
  ASSUME NEW T, T \subseteq Int, NEW m \in T, \A y \in T : y <= m
  PROVE  Max(T) = m
<1>1. Max(T) \in T /\ \A y \in T : Max(T) >= y
  BY DEF Max
<1>2. Max(T) \in Int /\ m \in Int /\ Max(T) >= m /\ Max(T) <= m
  BY <1>1
<1> QED
  BY <1>2

\* Two are enough for what is cut off: nothing below zero.
LEMMA NothingBelow ==
  ASSUME NEW n \in Int
  PROVE  /\ Max({0, n}) \in Nat
         /\ Max({0, n}) = 0 => n <= 0
<1>1. n <= 0 => Max({0, n}) = 0
  BY MaxIs
<1>2. n > 0 => Max({0, n}) = n
  BY MaxIs
<1> QED
  BY <1>1, <1>2

\* What a function makes of a finite set is finite.
LEMMA ImagesAreFinite ==
  ASSUME NEW S, IsFiniteSet(S), NEW f, NEW T, \A y \in T : \E x \in S : y = f[x]
  PROVE  IsFiniteSet(T)
<1> DEFINE image == {f[x] : x \in S}
           g == [x \in S |-> f[x]]
<1>1. g \in Surjection(S, image)
  BY DEF Surjection
<1>2. IsFiniteSet(image)
  BY <1>1, FS_Surjection
<1> QED
  BY <1>2, FS_Subset

\* A set of two is finite.
LEMMA PairsAreFinite ==
  \A a, b : IsFiniteSet({a, b})
<1> TAKE a, b
<1> DEFINE one == {a}
           other == {b}
<1>1. IsFiniteSet(one) /\ IsFiniteSet(other)
  BY FS_Singleton
<1>2. {a, b} = one \cup other
  OBVIOUS
<1> HIDE DEF one, other
<1>3. IsFiniteSet(one \cup other)
  BY <1>1, FS_Union
<1> QED
  BY <1>2, <1>3

\* The latest of a set are of the set, and all of it when they are few.
LEMMA LatestAreMembers ==
  ASSUME NEW set, NEW at, NEW n
  PROVE  LatestOf(set, at, n) \subseteq set
BY DEF LatestOf

\* When a set is no larger than what is retained, all of it is retained.
LEMMA FewAreAllLatest ==
  ASSUME NEW set, NEW at, NEW n \in Int, IsFiniteSet(set), Cardinality(set) <= n
  PROVE  LatestOf(set, at, n) = set
<1>1. ASSUME NEW x \in set
      PROVE  Cardinality({y \in set : at[y] > at[x]} \cup {y \in set : at[y] = at[x]}) <= n
  <2> DEFINE late == {y \in set : at[y] > at[x]} \cup {y \in set : at[y] = at[x]}
  <2>1. late \in SUBSET set
    OBVIOUS
  <2> HIDE DEF late
  <2>2. IsFiniteSet(late) /\ Cardinality(late) <= Cardinality(set)
    BY <2>1, FS_Subset
  <2>3. Cardinality(late) \in Nat /\ Cardinality(set) \in Nat
    BY <2>2, FS_CardinalityType
  <2>4. Cardinality(late) <= n
    BY <2>2, <2>3
  <2> QED
    BY <2>4 DEF late
<1> QED
  BY <1>1 DEF LatestOf

\* The least is the least.
LEMMA MinIs ==
  ASSUME NEW T, T \subseteq Int, NEW m \in T, \A y \in T : m <= y
  PROVE  Min(T) = m
<1>1. Min(T) \in T /\ \A y \in T : Min(T) <= y
  BY DEF Min
<1>2. Min(T) \in Int /\ m \in Int /\ Min(T) <= m /\ m <= Min(T)
  BY <1>1
<1> QED
  BY <1>2

\* Of finitely many numbers one is the least.
LEMMA LeastIsThere ==
  ASSUME NEW T, IsFiniteSet(T), T # {}, NEW r \in [T -> Int]
  PROVE  \E m \in T : \A k \in T : r[m] <= r[k]
<1> DEFINE Less(m) == {j \in T : r[j] < r[m]}
           sizes == {Cardinality(Less(m)) : m \in T}
<1>1. \A m \in T : Less(m) \in SUBSET T
  OBVIOUS
<1>2. ASSUME NEW m \in T, NEW k \in T, r[k] < r[m]
      PROVE  Less(k) \in SUBSET Less(m) /\ Less(k) # Less(m)
  <2>1. \A j \in T : r[j] \in Int
    OBVIOUS
  <2>2. k \in Less(m) /\ k \notin Less(k)
    BY <1>2, <2>1
  <2>3. \A j \in T : r[j] < r[k] => r[j] < r[m]
    BY <1>2, <2>1
  <2> QED
    BY <2>2, <2>3
<1> HIDE DEF Less
<1>3. \A m \in T : IsFiniteSet(Less(m)) /\ Cardinality(Less(m)) \in Nat
  BY <1>1, FS_Subset, FS_CardinalityType
<1>4. sizes \subseteq Nat /\ sizes # {}
  BY <1>3
<1>5. PICK size \in sizes : \A other \in sizes : size <= other
  BY <1>4, LeastIndex
<1>6. PICK m \in T : size = Cardinality(Less(m))
  BY <1>5
<1>7. ASSUME NEW k \in T, r[k] < r[m]
      PROVE  FALSE
  <2>1. Less(k) \in SUBSET Less(m) /\ Less(k) # Less(m)
    BY <1>2, <1>7
  <2>2. Cardinality(Less(k)) <= Cardinality(Less(m)) /\ Cardinality(Less(k)) # Cardinality(Less(m))
    BY <2>1, <1>3, FS_Subset
  <2>3. Cardinality(Less(m)) <= Cardinality(Less(k))
    BY <1>5, <1>6
  <2> QED
    BY <2>2, <2>3, <1>3
<1>8. \A k \in T : r[m] \in Int /\ r[k] \in Int
  OBVIOUS
<1> QED
  BY <1>7, <1>8

\* And one is the greatest.
LEMMA GreatestIsThere ==
  ASSUME NEW T, IsFiniteSet(T), T # {}, NEW r \in [T -> Int]
  PROVE  \E m \in T : \A k \in T : r[k] <= r[m]
<1> DEFINE s == [k \in T |-> -r[k]]
<1>1. s \in [T -> Int]
  OBVIOUS
<1> HIDE DEF s
<1>2. PICK m \in T : \A k \in T : s[m] <= s[k]
  BY <1>1, LeastIsThere
<1>3. \A k \in T : r[k] \in Int /\ s[k] = -r[k]
  BY DEF s
<1>4. \A k \in T : r[k] <= r[m]
  BY <1>2, <1>3
<1> QED
  BY <1>4

\* Two parts of a finite set, and their sizes.
LEMMA PartsAddUp ==
  ASSUME NEW W, IsFiniteSet(W), NEW A, NEW B, W = A \cup B, A \cap B = {}
  PROVE  /\ Cardinality(A) \in Nat /\ Cardinality(B) \in Nat
         /\ Cardinality(W) = Cardinality(A) + Cardinality(B)
<1>1. A \in SUBSET W /\ B \in SUBSET W
  OBVIOUS
<1>2. IsFiniteSet(A) /\ IsFiniteSet(B)
  BY <1>1, FS_Subset
<1>3. Cardinality(A \cup B) = Cardinality(A) + Cardinality(B) - Cardinality(A \cap B)
  BY <1>2, FS_Union
<1>4. Cardinality(A) \in Nat /\ Cardinality(B) \in Nat /\ Cardinality(A \cap B) = 0
  BY <1>2, FS_CardinalityType, FS_EmptySet
<1> QED
  BY <1>3, <1>4

\* A finite set has subsets of every size up to its own.
LEMMA SubsetsAreThere ==
  ASSUME NEW S, IsFiniteSet(S), NEW n \in Nat, n <= Cardinality(S)
  PROVE  \E T \in SUBSET S : IsFiniteSet(T) /\ Cardinality(T) = n
<1> DEFINE size == Cardinality(S)
<1>1. size \in Nat /\ ExistsBijection(1..size, S)
  BY FS_CardinalityType
<1>2. PICK f \in Bijection(1..size, S) : TRUE
  BY <1>1 DEF ExistsBijection
<1> HIDE DEF size
<1> DEFINE T == {f[k] : k \in 1..n}
           g == [k \in 1..n |-> f[k]]
<1>3. \A k \in 1..n : k \in 1..size
  BY <1>1 DEF size
<1>4. f \in [1..size -> S] /\ \A a, b \in 1..size : a # b => f[a] # f[b]
  BY <1>2 DEF Bijection, Injection, IsInjective
<1>5. T \in SUBSET S
  BY <1>3, <1>4
<1>6. g \in Bijection(1..n, T)
  BY <1>3, <1>4 DEF Bijection, Injection, IsInjective, Surjection
<1> HIDE DEF T, g
<1>7. ExistsBijection(1..n, T)
  BY <1>6 DEF ExistsBijection
<1>8. IsFiniteSet(1..n) /\ Cardinality(1..n) = n
  <2>1. IsFiniteSet(1..n) /\ Cardinality(1..n) = IF 1 > n THEN 0 ELSE n - 1 + 1
    BY FS_Interval
  <2> QED
    BY <2>1
<1>9. IsFiniteSet(T) /\ Cardinality(T) = n
  BY <1>7, <1>8, FS_Bijection
<1> QED
  BY <1>5, <1>9

\* Of something there is a latest.
LEMMA SomeAreLatest ==
  ASSUME NEW set, IsFiniteSet(set), set # {}, NEW at, \A x \in set : at[x] \in Int,
         NEW n \in Nat \ {0}
  PROVE  LatestOf(set, at, n) # {}
<1> DEFINE Later(x) == {y \in set : at[y] > at[x]}
           With(x) == {y \in set : at[y] = at[x]}
           Some(x) == CHOOSE some \in kSubset(n - Cardinality(Later(x)), With(x)) : TRUE
           r == [x \in set |-> at[x]]
<1>1. r \in [set -> Int]
  OBVIOUS
<1> HIDE DEF r
<1>2. PICK x \in set : \A k \in set : r[k] <= r[x]
  BY <1>1, GreatestIsThere
<1>3. \A k \in set : at[k] <= at[x]
  BY <1>2 DEF r
<1>4. \A z \in set : at[z] = at[x] => Later(z) = {} /\ With(z) = With(x)
  BY <1>3
<1>5. With(x) \in SUBSET set /\ x \in With(x)
  OBVIOUS
<1>6. LatestOf(set, at, n) =
        {z \in set : \/ Cardinality(Later(z) \cup With(z)) <= n
                     \/ Cardinality(Later(z)) < n /\ z \in Some(z)}
  BY DEF LatestOf
<1>7. Cardinality({}) = 0
  BY FS_EmptySet
<1> HIDE DEF Later, With
<1>8. IsFiniteSet(With(x)) /\ Cardinality(With(x)) \in Nat
  BY <1>5, FS_Subset, FS_CardinalityType
<1>9. CASE Cardinality(With(x)) <= n
  <2>1. Later(x) \cup With(x) = With(x)
    BY <1>4
  <2> QED
    BY <1>6, <1>9, <2>1
<1>10. CASE n <= Cardinality(With(x))
  <2> DEFINE some == CHOOSE some \in kSubset(n, With(x)) : TRUE
  <2>1. some \in SUBSET With(x) /\ Cardinality(some) = n
    <3>1. kSubset(n, With(x)) = {s \in SUBSET With(x) : Cardinality(s) = n}
      BY DEF kSubset
    <3>2. \E s \in SUBSET With(x) : Cardinality(s) = n
      BY <1>8, <1>10, SubsetsAreThere
    <3>3. some \in kSubset(n, With(x))
      BY <3>1, <3>2
    <3> HIDE DEF some
    <3> QED
      BY <3>1, <3>3
  <2>2. some # {}
    BY <1>7, <2>1
  <2>3. PICK z : z \in some
    BY <2>2
  <2>4. z \in set /\ at[z] = at[x]
    BY <2>1, <2>3 DEF With
  <2>5. Some(z) = some
    <3>1. n - Cardinality(Later(z)) = n /\ With(z) = With(x)
      BY <1>4, <1>7, <2>4
    <3> QED
      BY <3>1
  <2>6. Cardinality(Later(z)) < n
    BY <1>4, <1>7, <2>4
  <2> HIDE DEF some, Some
  <2> QED
    BY <1>6, <2>3, <2>4, <2>5, <2>6
<1> QED
  BY <1>8, <1>9, <1>10

\* The smaller of two.
LEMMA Smaller ==
  ASSUME NEW x \in Int, NEW y \in Int
  PROVE  Min({x, y}) = IF x <= y THEN x ELSE y
<1> DEFINE m == IF x <= y THEN x ELSE y
<1>1. m \in {x, y} /\ \A z \in {x, y} : m <= z
  OBVIOUS
<1>2. \A n \in {x, y} : (\A z \in {x, y} : n <= z) => n = m
  BY <1>1
<1> HIDE DEF m
<1>3. Min({x, y}) = m
  BY <1>1, <1>2 DEF Min
<1> QED
  BY <1>3 DEF m

-----------------------------------------------------------------------------
(* Histories.                                                              *)

\* The completed candles of a timeframe from the beginning of the market.
Bar == [at : Int, open : Int, high : Int, low : Int, close : Int]
History(bars, tf) ==
  /\ bars \in Seq(Bar)
  /\ \A k \in 1..Len(bars) : bars[k].at = Duration[tf] * (k - 1)

\* The k-th candle of a history completes after k durations.
LEMMA CompletedAt ==
  ASSUME NEW tf, Duration[tf] \in {1, 2}, NEW bars, History(bars, tf), NEW k \in 1..Len(bars)
  PROVE  /\ Completion(bars[k], tf) = Duration[tf] * k
         /\ Completion(bars[k], tf) \in Int
         /\ bars[k].at < Completion(bars[k], tf)
<1>1. Len(bars) \in Nat /\ bars[k].at = Duration[tf] * (k - 1)
  BY DEF History
<1>2. CASE Duration[tf] = 1
  BY <1>1, <1>2 DEF Completion
<1>3. CASE Duration[tf] = 2
  BY <1>1, <1>3 DEF Completion
<1> QED
  BY <1>2, <1>3

\* Completions of candles are in the order of the candles.
LEMMA CompletedInTurn ==
  ASSUME NEW tf, Duration[tf] \in {1, 2}, NEW i \in Int, NEW k \in Int
  PROVE  /\ Duration[tf] * i <= Duration[tf] * k <=> i <= k
         /\ Duration[tf] * i = Duration[tf] * k => i = k
<1>1. CASE Duration[tf] = 1
  BY <1>1
<1>2. CASE Duration[tf] = 2
  BY <1>2
<1> QED
  BY <1>1, <1>2

-----------------------------------------------------------------------------
(* Events on levels.                                                       *)

\* Pivots are counted.
LEMMA PivotsAreCounted ==
  ASSUME NEW tf, NEW bars, History(bars, tf), NEW p \in Pivots(bars)
  PROVE  p.index \in 2..(Len(bars) - 1) /\ p.price \in Int /\ Len(bars) \in Nat
<1>1. bars \in Seq(Bar) /\ Len(bars) \in Nat
  BY DEF History
<1>2. p.index \in 2..(Len(bars) - 1)
  BY <1>1, PivotsStandInside
<1>3. \A i \in 2..(Len(bars) - 1) : bars[i].high \in Int /\ bars[i].low \in Int
  <2>1. \A i \in 2..(Len(bars) - 1) : bars[i] \in Bar
    BY <1>1
  <2> QED
    BY <2>1 DEF Bar
<1> QED
  BY <1>1, <1>2, <1>3 DEF Pivots, SwingHighs, SwingLows

\* A level is drawn through something.
LEMMA LevelsHaveMembers ==
  ASSUME NEW pivots, \A p \in pivots : p.price \in Int /\ p.index \in Int,
         NEW config, config.tolerance \in Nat, NEW level \in Views(pivots, config)
  PROVE  level.members # {}
<1>1. ASSUME NEW side, level \in Clusters(pivots, side, config)
      PROVE  level.members # {}
  <2> DEFINE mine == {p \in pivots : p.side = side}
  <2>1. PICK p \in Starts(mine, config) :
          level = [side |-> side, type |-> "equal_cluster", members |-> Run(mine, p, config)]
    BY <1>1 DEF Clusters
  <2>2. p \in mine /\ p.price \in Int /\ p.index \in Int
    BY DEF Starts
  <2>3. p \in Run(mine, p, config)
    BY <2>2 DEF Run, Below
  <2> QED
    BY <2>1, <2>3
<1> QED
  BY <1>1 DEF Views

\* An interaction is one of a candle with a level drawn before it.
LEMMA RowsAreOfLevels ==
  ASSUME NEW bars, NEW config, NEW tf, NEW row \in InteractionHistory(bars, config, tf)
  PROVE  /\ row.candle \in DOMAIN bars
         /\ \E level \in Views(Eligible(Pivots(bars), row.candle, config), config) :
              row = [boundary |-> Boundary(level, bars, config, tf), candle |-> row.candle,
                     kind |-> InteractionOf(bars[row.candle], Boundary(level, bars, config, tf))]
BY DEF InteractionHistory

\* When an event on a level is known.
KnownAt(candle, boundary, bars, tf) == Max({Completion(bars[candle], tf), boundary.available})

\* A level is known before the candle it is measured with completes.
LEMMA LevelsAreKnownBefore ==
  ASSUME NEW tf, Duration[tf] \in {1, 2}, NEW bars, History(bars, tf),
         NEW config, config.tolerance \in Nat, NEW row \in InteractionHistory(bars, config, tf)
  PROVE  /\ row.candle \in 1..Len(bars)
         /\ KnownAt(row.candle, row.boundary, bars, tf) = Duration[tf] * row.candle
<1>1. row.candle \in 1..Len(bars) /\ bars \in Seq(Bar) /\ Len(bars) \in Nat
  BY RowsAreOfLevels DEF History
<1>2. PICK level \in Views(Eligible(Pivots(bars), row.candle, config), config) :
        row.boundary = Boundary(level, bars, config, tf)
  BY RowsAreOfLevels
<1>3. level.members \subseteq Eligible(Pivots(bars), row.candle, config)
  BY ViewsAreOfPivots
<1>4. level.members # {}
  <2>1. \A p \in Eligible(Pivots(bars), row.candle, config) : p.price \in Int /\ p.index \in Int
    BY PivotsAreCounted DEF Eligible
  <2> QED
    BY <2>1, LevelsHaveMembers
<1> DEFINE done == {Completion(bars[m.index + 1], tf) : m \in level.members}
<1>5. row.boundary.available = Max(done)
  BY <1>2 DEF Boundary
<1>6. ASSUME NEW m \in level.members
      PROVE  /\ Completion(bars[m.index + 1], tf) \in Int
             /\ Completion(bars[m.index + 1], tf) <= Duration[tf] * row.candle
  <2>1. m \in Pivots(bars) /\ m.index + 1 < row.candle
    BY <1>3 DEF Eligible
  <2>2. m.index \in 2..(Len(bars) - 1)
    BY <2>1, PivotsAreCounted
  <2>3. m.index + 1 \in 1..Len(bars)
    BY <1>1, <2>2
  <2>4. Completion(bars[m.index + 1], tf) = Duration[tf] * (m.index + 1)
        /\ Completion(bars[m.index + 1], tf) \in Int
    BY <2>3, CompletedAt
  <2>5. m.index + 1 \in Int /\ row.candle \in Int /\ m.index + 1 <= row.candle
    BY <1>1, <2>1, <2>2
  <2> QED
    BY <2>4, <2>5, CompletedInTurn
<1>7. done # {} /\ done \subseteq Int /\ \A y \in done : y <= Duration[tf] * row.candle
  BY <1>4, <1>6
<1>8. Completion(bars[row.candle], tf) = Duration[tf] * row.candle
      /\ Completion(bars[row.candle], tf) \in Int
  BY <1>1, CompletedAt
<1> HIDE DEF done
<1>9. Max(done) \in done
  BY <1>7, <1>8, GreatestIndex
<1>10. Max(done) \in Int /\ Max(done) <= Duration[tf] * row.candle
  BY <1>7, <1>9
<1> DEFINE known == {Completion(bars[row.candle], tf), row.boundary.available}
<1>11. /\ known \subseteq Int /\ Duration[tf] * row.candle \in known
       /\ \A y \in known : y <= Duration[tf] * row.candle
  BY <1>5, <1>8, <1>10
<1> HIDE DEF known
<1>12. Max(known) = Duration[tf] * row.candle
  BY <1>11, MaxIs
<1> QED
  BY <1>1, <1>12 DEF known, KnownAt

\* Finitely many levels are drawn, and finitely much happens to them.
LEMMA ViewsAreFinite ==
  ASSUME NEW pivots, IsFiniteSet(pivots), NEW config
  PROVE  IsFiniteSet(Views(pivots, config))
<1> DEFINE kinds == {"high", "low"} \X {"equal_cluster", "swing"}
           space == (kinds \cup {<<p.side, "swing">> : p \in pivots}) \X SUBSET pivots
           level == [x \in space |-> [side |-> x[1][1], type |-> x[1][2], members |-> x[2]]]
<1>1. IsFiniteSet(space)
  <2>1. IsFiniteSet({"high", "low"}) /\ IsFiniteSet({"equal_cluster", "swing"})
    BY PairsAreFinite
  <2>2. IsFiniteSet(kinds)
    BY <2>1, FS_Product
  <2> DEFINE tags == {<<p.side, "swing">> : p \in pivots}
             tag == [p \in pivots |-> <<p.side, "swing">>]
  <2>3. \A y \in tags : \E p \in pivots : y = tag[p]
    OBVIOUS
  <2> HIDE DEF tags, tag
  <2>4. IsFiniteSet(tags)
    BY <2>3, ImagesAreFinite
  <2> HIDE DEF kinds
  <2>5. IsFiniteSet(kinds \cup tags)
    BY <2>2, <2>4, FS_Union
  <2>6. IsFiniteSet(SUBSET pivots)
    BY FS_SUBSET
  <2>7. IsFiniteSet((kinds \cup tags) \X SUBSET pivots)
    BY <2>5, <2>6, FS_Product
  <2> QED
    BY <2>7 DEF tags, kinds
<1>2. ASSUME NEW v \in Views(pivots, config)
      PROVE  \E x \in space : v = level[x]
  <2>1. ASSUME NEW side \in {"high", "low"}, v \in Clusters(pivots, side, config)
        PROVE  \E x \in space : v = level[x]
    <3>1. PICK p : v = [side |-> side, type |-> "equal_cluster",
                        members |-> Run({q \in pivots : q.side = side}, p, config)]
      BY <2>1 DEF Clusters
    <3> DEFINE m == Run({q \in pivots : q.side = side}, p, config)
    <3>2. m \in SUBSET pivots
      BY DEF Run
    <3> HIDE DEF m
    <3>3. <<<<side, "equal_cluster">>, m>> \in space
      BY <3>2
    <3>4. level[<<<<side, "equal_cluster">>, m>>] = [side |-> side, type |-> "equal_cluster", members |-> m]
      BY <3>3
    <3> QED
      BY <3>1, <3>3, <3>4 DEF m
  <2>2. ASSUME NEW p \in pivots, v = [side |-> p.side, type |-> "swing", members |-> {p}]
        PROVE  \E x \in space : v = level[x]
    <3>1. <<<<p.side, "swing">>, {p}>> \in space
      OBVIOUS
    <3>2. level[<<<<p.side, "swing">>, {p}>>] = [side |-> p.side, type |-> "swing", members |-> {p}]
      BY <3>1
    <3> QED
      BY <2>2, <3>1, <3>2
  <2>3. \/ v \in Clusters(pivots, "high", config) \/ v \in Clusters(pivots, "low", config)
        \/ \E p \in pivots : v = [side |-> p.side, type |-> "swing", members |-> {p}]
    BY DEF Views
  <2> HIDE DEF space, level
  <2> QED
    BY <2>1, <2>2, <2>3
<1> HIDE DEF space, level
<1> QED
  BY <1>1, <1>2, ImagesAreFinite

\* There are finitely many interactions with levels.
LEMMA InteractionsAreFinite ==
  ASSUME NEW tf, NEW bars, History(bars, tf), NEW config
  PROVE  IsFiniteSet(InteractionHistory(bars, config, tf))
<1> DEFINE P(i) == Eligible(Pivots(bars), i, config)
           rowsAt == [i \in 1..Len(bars) |->
                       {[boundary |-> Boundary(level, bars, config, tf), candle |-> i,
                         kind |-> InteractionOf(bars[i], Boundary(level, bars, config, tf))]
                        : level \in Views(P(i), config)}]
           all == {rowsAt[i] : i \in 1..Len(bars)}
<1>1. Len(bars) \in Nat /\ DOMAIN bars = 1..Len(bars)
  BY DEF History
<1>2. IsFiniteSet(Pivots(bars))
  <2> DEFINE space == {"high", "low"} \X (1..Len(bars))
             pivot == [x \in space |-> [side |-> x[1], index |-> x[2],
                         price |-> IF x[1] = "high" THEN bars[x[2]].high ELSE bars[x[2]].low]]
  <2>1. IsFiniteSet(space)
    <3>2. IsFiniteSet({"high", "low"})
      BY PairsAreFinite
    <3>3. IsFiniteSet(1..Len(bars))
      BY <1>1, FS_Interval
    <3> QED
      BY <3>2, <3>3, FS_Product
  <2>2. \A p \in Pivots(bars) : \E x \in space : p = pivot[x]
    <3>1. ASSUME NEW i \in SwingHighs(bars)
          PROVE  <<"high", i>> \in space
                 /\ pivot[<<"high", i>>] = [side |-> "high", index |-> i, price |-> bars[i].high]
      BY <1>1 DEF SwingHighs
    <3>2. ASSUME NEW i \in SwingLows(bars)
          PROVE  <<"low", i>> \in space
                 /\ pivot[<<"low", i>>] = [side |-> "low", index |-> i, price |-> bars[i].low]
      BY <1>1 DEF SwingLows
    <3> HIDE DEF space, pivot
    <3> QED
      BY <3>1, <3>2 DEF Pivots
  <2> HIDE DEF space, pivot
  <2> QED
    BY <2>1, <2>2, ImagesAreFinite
<1>3. ASSUME NEW i \in 1..Len(bars)
      PROVE  IsFiniteSet(rowsAt[i])
  <2> DEFINE V == Views(P(i), config)
             row == [level \in V |->
                       [boundary |-> Boundary(level, bars, config, tf), candle |-> i,
                        kind |-> InteractionOf(bars[i], Boundary(level, bars, config, tf))]]
  <2>1. IsFiniteSet(P(i))
    BY <1>2, FS_Subset DEF Eligible
  <2> HIDE DEF P
  <2>2. IsFiniteSet(V)
    BY <2>1, ViewsAreFinite
  <2> HIDE DEF V
  <2>3. \A y \in rowsAt[i] : \E x \in V : y = row[x]
    BY DEF V
  <2> HIDE DEF row, rowsAt
  <2> QED
    BY <2>2, <2>3, ImagesAreFinite
<1>4. IsFiniteSet(all)
  <2>1. IsFiniteSet(1..Len(bars))
    BY <1>1, FS_Interval
  <2>2. \A y \in all : \E i \in 1..Len(bars) : y = rowsAt[i]
    OBVIOUS
  <2> HIDE DEF all, rowsAt
  <2> QED
    BY <2>1, <2>2, ImagesAreFinite
<1>5. \A T \in all : IsFiniteSet(T)
  <2> HIDE DEF rowsAt
  <2> QED
    BY <1>3
<1>6. ASSUME NEW r \in InteractionHistory(bars, config, tf)
      PROVE  r \in UNION all
  <2>1. r.candle \in 1..Len(bars)
    BY <1>1, RowsAreOfLevels
  <2>2. r \in rowsAt[r.candle]
    BY <2>1, RowsAreOfLevels
  <2> HIDE DEF rowsAt
  <2> QED
    BY <2>1, <2>2
<1> HIDE DEF all
<1>7. IsFiniteSet(UNION all)
  BY <1>4, <1>5, FS_UNION
<1> QED
  BY <1>6, <1>7, FS_Subset

\* A fact, known as soon as its candle completes.
Dated(tf, family, object, candle) ==
  [tf |-> tf, family |-> family, object |-> object, candle |-> candle,
   available |-> Duration[tf] * candle]

\* A fact that rests on candles up to its own is known when its own completes.
LEMMA FactIsDated ==
  ASSUME NEW tf, Duration[tf] \in {1, 2}, NEW bars, History(bars, tf),
         NEW family, NEW object, NEW candle \in 1..Len(bars),
         NEW needed, \A i \in needed : i \in 1..Len(bars) /\ i <= candle
  PROVE  Fact(bars, tf, family, object, candle, needed) = Dated(tf, family, object, candle)
<1> DEFINE done == {Completion(bars[i], tf) : i \in needed \cup {candle}}
<1>1. Len(bars) \in Nat
  BY DEF History
<1>2. \A i \in needed \cup {candle} :
        /\ Completion(bars[i], tf) = Duration[tf] * i /\ Completion(bars[i], tf) \in Int
        /\ Duration[tf] * i <= Duration[tf] * candle
  <2>1. \A i \in needed \cup {candle} : i \in 1..Len(bars) /\ i <= candle /\ i \in Int /\ candle \in Int
    BY <1>1
  <2> QED
    BY <2>1, CompletedAt, CompletedInTurn
<1>3. /\ done \subseteq Int /\ Duration[tf] * candle \in done
      /\ \A y \in done : y <= Duration[tf] * candle
  <2>1. Duration[tf] * candle = Completion(bars[candle], tf)
    BY <1>2
  <2> QED
    BY <1>2, <2>1
<1> HIDE DEF done
<1>4. Max(done) = Duration[tf] * candle
  BY <1>3, MaxIs
<1> QED
  BY <1>4 DEF Fact, Dated, done

\* The facts of a history of interactions, and what is told when nothing is kept
\* back.
InteractionFact(row, tf) == Dated(tf, EventType(row.kind), row.boundary, row.candle)
EventOf(row, bars, tf) ==
  [type |-> EventType(row.kind), candle |-> row.candle, boundary |-> row.boundary,
   available |-> Completion(bars[row.candle], tf)]
ToldEvents(bars, config, tf) ==
  Events(bars, InteractionHistory(bars, config, tf), config, tf)

\* The facts about levels are those of the interactions; all of them when nothing is
\* left out.
LEMMA EventFactsAre ==
  ASSUME NEW tf, Duration[tf] \in {1, 2}, NEW bars, History(bars, tf),
         NEW config, config.tolerance \in Nat, config.maximum \in Nat
  PROVE  LET rows == InteractionHistory(bars, config, tf)
             told == ToldEvents(bars, config, tf)
         IN  /\ \A f \in LiquidityFacts(bars, tf, told) :
                   \E row \in rows : f = InteractionFact(row, tf)
             /\ rows = {} => told.emitted = {}
             /\ told.truncated \in Nat /\ told.excluded \in Nat
             /\ told.truncated = 0 /\ told.excluded = 0 =>
                  \A row \in rows : InteractionFact(row, tf) \in LiquidityFacts(bars, tf, told)
<1> DEFINE rows == InteractionHistory(bars, config, tf)
           told == ToldEvents(bars, config, tf)
           event == [row \in rows |-> EventOf(row, bars, tf)]
           events == {event[row] : row \in rows}
           touches == {e \in events : ~config.touches /\ e.type = "liquidity_touch"}
           candidates == {e \in events : config.touches \/ e.type # "liquidity_touch"}
           at == [e \in candidates |-> e.candle]
           fact(e) == [tf |-> tf, family |-> e.type, object |-> e.boundary, candle |-> e.candle,
                       available |-> KnownAt(e.candle, e.boundary, bars, tf)]
<1>1. /\ told.emitted = LatestOf(candidates, at, config.maximum)
      /\ told.truncated = Max({0, Cardinality(candidates) - config.maximum})
      /\ told.excluded = Cardinality(touches)
  <2>1. events = {[type |-> EventType(row.kind), candle |-> row.candle, boundary |-> row.boundary,
                   available |-> Completion(bars[row.candle], tf)] : row \in rows}
    BY DEF EventOf
  <2> QED
    BY <2>1 DEF ToldEvents, Events
<1>2. LiquidityFacts(bars, tf, told) = {fact(e) : e \in told.emitted}
  BY DEF LiquidityFacts, KnownAt
<1>3. ASSUME NEW row \in rows
      PROVE  fact(event[row]) = InteractionFact(row, tf)
  <2>1. KnownAt(row.candle, row.boundary, bars, tf) = Duration[tf] * row.candle
    BY LevelsAreKnownBefore
  <2>2. event[row] = EventOf(row, bars, tf)
    OBVIOUS
  <2> QED
    BY <2>1, <2>2 DEF EventOf, InteractionFact, Dated
<1>4. IsFiniteSet(events)
  <2>1. IsFiniteSet(rows)
    BY InteractionsAreFinite
  <2>2. \A y \in events : \E row \in rows : y = event[row]
    OBVIOUS
  <2> HIDE DEF events, event, rows
  <2> QED
    BY <2>1, <2>2, ImagesAreFinite
<1>5. /\ IsFiniteSet(candidates) /\ Cardinality(candidates) \in Nat
      /\ IsFiniteSet(touches) /\ Cardinality(touches) \in Nat
      /\ Cardinality(touches) = 0 => touches = {}
  <2>1. candidates \in SUBSET events /\ touches \in SUBSET events
    OBVIOUS
  <2> HIDE DEF candidates, touches, events
  <2>2. IsFiniteSet(candidates) /\ IsFiniteSet(touches)
    BY <1>4, <2>1, FS_Subset
  <2> QED
    BY <2>2, FS_CardinalityType, FS_EmptySet
<1>6. told.emitted \subseteq candidates
  <2> HIDE DEF candidates, at, told
  <2> QED
    BY <1>1, LatestAreMembers
<1>7. \A e \in candidates : \E row \in rows : e = event[row]
  OBVIOUS
<1>8. \A row \in rows : event[row] \in candidates \cup touches
  OBVIOUS
<1>9. rows = {} => candidates = {}
  OBVIOUS
<1> HIDE DEF candidates, touches, events, event, at, rows, told, fact
<1>10. ASSUME NEW f \in LiquidityFacts(bars, tf, told)
       PROVE  \E row \in rows : f = InteractionFact(row, tf)
  <2>1. PICK e \in told.emitted : f = fact(e)
    BY <1>2
  <2>2. PICK row \in rows : e = event[row]
    BY <1>6, <1>7, <2>1
  <2> QED
    BY <1>3, <2>1, <2>2
<1>11. told.truncated \in Nat /\ told.excluded \in Nat
  BY <1>1, <1>5, NothingBelow
<1>12. ASSUME told.truncated = 0, told.excluded = 0, NEW row \in rows
       PROVE  InteractionFact(row, tf) \in LiquidityFacts(bars, tf, told)
  <2>1. touches = {}
    BY <1>1, <1>5, <1>12
  <2>2. Cardinality(candidates) <= config.maximum
    <3>1. Cardinality(candidates) - config.maximum <= 0
      BY <1>1, <1>5, <1>12, NothingBelow
    <3> QED
      BY <1>5, <3>1
  <2>3. told.emitted = candidates
    BY <1>1, <1>5, <2>2, FewAreAllLatest
  <2>4. event[row] \in told.emitted
    BY <1>8, <2>1, <2>3
  <2> QED
    BY <1>2, <1>3, <2>4
<1> QED
  BY <1>6, <1>9, <1>10, <1>11, <1>12 DEF rows, told

-----------------------------------------------------------------------------
(* Facts about gaps.                                                       *)

\* The greater of two integers is at most what both are at most.
LEMMA BothAtMost ==
  ASSUME NEW x \in Int, NEW y \in Int, NEW b \in Int
  PROVE  /\ Max({x, y}) \in {x, y}
         /\ Max({x, y}) <= b <=> x <= b /\ y <= b
<1>1. x <= y => Max({x, y}) = y
  BY MaxIs
<1>2. y <= x => Max({x, y}) = x
  BY MaxIs
<1> QED
  BY <1>1, <1>2

GapWindow(bars, config) == {b \in 2..(Len(bars) - 1) : b > Len(bars) - config.lookback}
IsGap(bars, b, config) ==
  /\ bars[b - 1].high < bars[b + 1].low \/ bars[b - 1].low > bars[b + 1].high
  /\ GapAt(bars, b, config).gap.upper - GapAt(bars, b, config).gap.lower >= config.minimum
CreatedGap(bars, b, config, tf) == Dated(tf, "fvg_created", GapAt(bars, b, config).gap, b + 1)
VisitedGap(bars, b, config, tf, i) ==
  Dated(tf, GapFamily(i.kind), GapAt(bars, b, config).gap, i.candle)
ToldGaps(bars, config, tf) == GapFacts(bars, tf, Gaps(bars, config))

\* The candles that a gap is sought around.
LEMMA GapWindowIs ==
  ASSUME NEW bars, Len(bars) \in Nat, NEW config, config.lookback \in Int
  PROVE  GapCandidates(bars, config) = GapWindow(bars, config)
<1>1. Len(bars) - config.lookback + 1 \in Int
  OBVIOUS
<1> DEFINE start == Max({2, Len(bars) - config.lookback + 1})
<1>2. start \in Int
      /\ \A b \in Int : start <= b <=> 2 <= b /\ Len(bars) - config.lookback + 1 <= b
  <2> DEFINE last == Len(bars) - config.lookback + 1
  <2>1. last \in Int /\ 2 \in Int
    OBVIOUS
  <2> HIDE DEF last
  <2>2. Max({2, last}) \in {2, last} /\ \A b \in Int : Max({2, last}) <= b <=> 2 <= b /\ last <= b
    BY <2>1, BothAtMost
  <2> QED
    BY <2>1, <2>2 DEF last
<1>3. GapCandidates(bars, config) = start..(Len(bars) - 1)
  BY DEF GapCandidates
<1> HIDE DEF start
<1>4. \A b \in Int : b \in start..(Len(bars) - 1) <=> b \in GapWindow(bars, config)
  BY <1>2 DEF GapWindow
<1>5. start..(Len(bars) - 1) \subseteq Int /\ GapWindow(bars, config) \subseteq Int
  BY <1>2 DEF GapWindow
<1> QED
  BY <1>3, <1>4, <1>5

\* A gap is around its middle, and what happens to it happens later.
LEMMA GapIsAround ==
  ASSUME NEW bars, Len(bars) \in Nat, NEW config, NEW b \in Int
  PROVE  /\ GapAt(bars, b, config).gap.middle = b
         /\ \A i \in GapAt(bars, b, config).interactions : i.candle \in (b + 2)..Len(bars)
BY DEF GapAt

\* The facts about gaps are those of the gaps in the window, their creation and their
\* interactions; all of them when none is omitted.
LEMMA GapFactsAre ==
  ASSUME NEW tf, Duration[tf] \in {1, 2}, NEW bars, History(bars, tf),
         NEW config, config.lookback \in Int
  PROVE  LET told == ToldGaps(bars, config, tf)
             gaps == {b \in GapWindow(bars, config) : IsGap(bars, b, config)}
         IN  /\ \A f \in told : \E b \in gaps :
                   \/ f = CreatedGap(bars, b, config, tf)
                   \/ \E i \in GapAt(bars, b, config).interactions : f = VisitedGap(bars, b, config, tf, i)
             /\ Gaps(bars, config).emitted = {} => told = {}
             /\ Gaps(bars, config).omitted \in Nat
             /\ Gaps(bars, config).omitted = 0 => \A b \in gaps :
                   /\ CreatedGap(bars, b, config, tf) \in told
                   /\ \A i \in GapAt(bars, b, config).interactions :
                         VisitedGap(bars, b, config, tf, i) \in told
<1> DEFINE told == ToldGaps(bars, config, tf)
           gaps == {b \in GapWindow(bars, config) : IsGap(bars, b, config)}
           found == FoundGaps(bars, config)
           emitted == Gaps(bars, config).emitted
           facts(g) == {Fact(bars, tf, "fvg_created", g.gap, g.gap.middle + 1, {})}
                        \cup {Fact(bars, tf, GapFamily(i.kind), g.gap, i.candle, {g.gap.middle + 1}) :
                                 i \in g.interactions}
           gap == [b \in gaps |-> GapAt(bars, b, config)]
<1>1. Len(bars) \in Nat
  BY DEF History
<1>2. /\ \A b \in gaps : gap[b] \in found
      /\ \A g \in found : \E b \in gaps : g = gap[b]
  BY <1>1, GapWindowIs DEF FoundGaps, IsGap
<1>3. emitted \subseteq found /\ Gaps(bars, config).omitted = Cardinality(found \ emitted)
  BY DEF Gaps
<1>4. told = UNION {facts(g) : g \in emitted}
  BY DEF ToldGaps, GapFacts
<1>5. ASSUME NEW b \in gaps
      PROVE  facts(gap[b]) = {CreatedGap(bars, b, config, tf)}
                               \cup {VisitedGap(bars, b, config, tf, i) : i \in GapAt(bars, b, config).interactions}
  <2>1. b \in 2..(Len(bars) - 1) /\ gap[b] = GapAt(bars, b, config) /\ gap[b].gap.middle = b
    BY <1>1, GapIsAround DEF GapWindow
  <2>2. b + 1 \in 1..Len(bars) /\ b \in Int
    BY <1>1, <2>1
  <2>3. Fact(bars, tf, "fvg_created", gap[b].gap, b + 1, {}) = CreatedGap(bars, b, config, tf)
    BY <2>1, <2>2, FactIsDated DEF CreatedGap
  <2>4. ASSUME NEW i \in gap[b].interactions
        PROVE  Fact(bars, tf, GapFamily(i.kind), gap[b].gap, i.candle, {b + 1})
                 = VisitedGap(bars, b, config, tf, i)
    <3>1. i.candle \in (b + 2)..Len(bars)
      BY <1>1, <2>1, <2>2, <2>4, GapIsAround
    <3>2. i.candle \in 1..Len(bars) /\ b + 1 <= i.candle
      BY <1>1, <2>2, <3>1
    <3> DEFINE needed == {b + 1}
    <3>3. \A k \in needed : k \in 1..Len(bars) /\ k <= i.candle
      BY <2>2, <3>2
    <3> HIDE DEF needed, gap
    <3>4. Fact(bars, tf, GapFamily(i.kind), gap[b].gap, i.candle, needed)
            = Dated(tf, GapFamily(i.kind), gap[b].gap, i.candle)
      BY <3>2, <3>3, FactIsDated
    <3> QED
      BY <2>1, <3>4 DEF needed, VisitedGap
  <2> HIDE DEF gap
  <2> QED
    BY <2>1, <2>3, <2>4
<1>6. IsFiniteSet(found)
  <2>1. IsFiniteSet(gaps)
    <3>1. gaps \in SUBSET (2..(Len(bars) - 1))
      BY DEF GapWindow
    <3>2. IsFiniteSet(2..(Len(bars) - 1))
      BY <1>1, FS_Interval
    <3> HIDE DEF gaps
    <3> QED
      BY <3>1, <3>2, FS_Subset
  <2> HIDE DEF gaps, gap, found
  <2> QED
    BY <1>2, <2>1, ImagesAreFinite
<1> HIDE DEF gap, gaps, found, emitted, facts
<1>7. ASSUME NEW f \in told
      PROVE  \E b \in gaps :
                   \/ f = CreatedGap(bars, b, config, tf)
                   \/ \E i \in GapAt(bars, b, config).interactions : f = VisitedGap(bars, b, config, tf, i)
  <2>1. PICK g \in emitted : f \in facts(g)
    BY <1>4, <1>7
  <2>2. PICK b \in gaps : g = gap[b]
    BY <1>2, <1>3, <2>1
  <2> HIDE DEF told
  <2> QED
    BY <1>5, <2>1, <2>2
<1>8. /\ Gaps(bars, config).omitted \in Nat
      /\ Gaps(bars, config).omitted = 0 => emitted = found
  <2> DEFINE left == found \ emitted
  <2>1. left \in SUBSET found
    OBVIOUS
  <2> HIDE DEF left
  <2>2. IsFiniteSet(left)
    BY <1>6, <2>1, FS_Subset
  <2>3. Cardinality(left) \in Nat /\ (Cardinality(left) = 0 => left = {})
    BY <2>2, FS_CardinalityType, FS_EmptySet
  <2> QED
    BY <1>3, <2>3 DEF left
<1>9. ASSUME emitted = found, NEW b \in gaps
      PROVE  /\ CreatedGap(bars, b, config, tf) \in told
             /\ \A i \in GapAt(bars, b, config).interactions : VisitedGap(bars, b, config, tf, i) \in told
  <2>1. gap[b] \in emitted
    BY <1>2, <1>9
  <2>2. facts(gap[b]) \subseteq told
    BY <1>4, <2>1
  <2> HIDE DEF told
  <2> QED
    BY <1>5, <2>2
<1>10. emitted = {} => told = {}
  BY <1>4
<1> QED
  BY <1>7, <1>8, <1>9, <1>10 DEF gaps, emitted

-----------------------------------------------------------------------------
(* Facts about displacements and blocks.                                   *)

Window(bars, lookback) == {i \in 1..Len(bars) : i > Len(bars) - lookback}
MoveAt(bars, i) == [direction |-> Direction(bars[i]), candle |-> i]
MovesOf(bars, config) ==
  {MoveAt(bars, i) : i \in {k \in Window(bars, config.lookback) : Displaces(bars, k, config)}}

\* The displacements told are those of the window.
LEMMA DisplacementsAre ==
  ASSUME NEW bars, Len(bars) \in Nat, NEW config, config.lookback \in Int
  PROVE  Displacements(bars, config).events = MovesOf(bars, config)
<1> DEFINE start == Max({1, Len(bars) - config.lookback + 1})
           before == Max({1, start - 1})
           all == {i \in before..Len(bars) : Displaces(bars, i, config)}
<1>1. Len(bars) - config.lookback + 1 \in Int
  OBVIOUS
<1>2. start \in Int /\ \A b \in Int : start <= b <=> 1 <= b /\ Len(bars) - config.lookback + 1 <= b
  BY <1>1, BothAtMost
<1>3. Displacements(bars, config).events = {MoveAt(bars, i) : i \in {k \in all : k >= start}}
  BY DEF Displacements, MoveAt
<1> HIDE DEF start
<1>4. before \in Int
      /\ \A b \in Int : before <= b <=> 1 <= b /\ start - 1 <= b
  BY <1>2, BothAtMost
<1> HIDE DEF before
<1>5. {k \in all : k >= start} = {k \in Window(bars, config.lookback) : Displaces(bars, k, config)}
  <2>1. \A k \in Int : k \in before..Len(bars) /\ k >= start
                         <=> k \in Window(bars, config.lookback)
    <3> SUFFICES ASSUME NEW k \in Int
                 PROVE  k \in before..Len(bars) /\ k >= start
                          <=> k \in Window(bars, config.lookback)
      OBVIOUS
    <3>1. k \in Window(bars, config.lookback)
            <=> 1 <= k /\ k <= Len(bars) /\ Len(bars) - config.lookback + 1 <= k
      BY DEF Window
    <3>2. k \in before..Len(bars) <=> before <= k /\ k <= Len(bars)
      BY <1>4
    <3>3. start <= k => start - 1 <= k
      BY <1>2
    <3> QED
      BY <1>2, <1>4, <3>1, <3>2, <3>3
  <2>2. before..Len(bars) \subseteq Int /\ Window(bars, config.lookback) \subseteq Int
    BY <1>4 DEF Window
  <2> QED
    BY <2>1, <2>2
<1> QED
  BY <1>3, <1>5 DEF MovesOf

StartOf(bars, e, config) == Max(Origins(bars, e, config))
Confirmed(bars, moves, config) ==
  {e \in moves :
     /\ Origins(bars, e, config) # {}
     /\ \A other \in moves : ~ /\ Origins(bars, other, config) # {}
                               /\ other.direction = e.direction
                               /\ StartOf(bars, other, config) = StartOf(bars, e, config)
                               /\ other.candle < e.candle}
Visits(bars, e, config) ==
  {r \in {[candle |-> i, kind |-> BlockEvent(bars[i], bars[StartOf(bars, e, config)], e.direction)]
          : i \in (e.candle + 1)..Len(bars)} : r.kind # "none"}
BlockOf(bars, e, config) ==
  [origin |-> StartOf(bars, e, config), direction |-> e.direction, confirmed |-> e.candle]
CreatedBlock(bars, e, config, tf) ==
  Dated(tf, "order_block_created", BlockOf(bars, e, config), e.candle)
VisitedBlock(bars, e, config, tf, r) == Dated(tf, r.kind, BlockOf(bars, e, config), r.candle)

\* A move starts before it, at a candle of the history.
LEMMA MovesStartBefore ==
  ASSUME NEW bars, Len(bars) \in Nat, NEW config, config.search \in Nat,
         NEW e, e.candle \in 1..Len(bars), Origins(bars, e, config) # {}
  PROVE  /\ StartOf(bars, e, config) \in Origins(bars, e, config)
         /\ StartOf(bars, e, config) \in 1..(e.candle - 1)
<1>1. e.candle \in Int /\ e.candle - config.search \in Int
  OBVIOUS
<1> DEFINE earliest == Max({1, e.candle - config.search})
<1>2. earliest \in Int /\ \A b \in Int : earliest <= b => 1 <= b
  BY <1>1, BothAtMost
<1>3. Origins(bars, e, config) \subseteq 1..(e.candle - 1)
  <2>1. Origins(bars, e, config) \subseteq earliest..(e.candle - 1)
    BY DEF Origins
  <2> HIDE DEF earliest
  <2> QED
    BY <1>1, <1>2, <2>1
<1>4. /\ Origins(bars, e, config) \subseteq Int
      /\ \A y \in Origins(bars, e, config) : y <= e.candle
  BY <1>1, <1>3
<1>5. Max(Origins(bars, e, config)) \in Origins(bars, e, config)
  BY <1>1, <1>4, GreatestIndex
<1> QED
  BY <1>3, <1>5 DEF StartOf

\* Of what happened to a block the latest is told, and all of it when it is little.
LatestVisits(rows, n) == {r \in rows : Cardinality({s \in rows : s.candle > r.candle}) < n}

\* No more visits than are told are told all.
LEMMA FewVisitsAreTold ==
  ASSUME NEW rows, IsFiniteSet(rows), \A r \in rows : r.candle \in Int,
         NEW n \in Nat, Cardinality(rows) <= n
  PROVE  LatestVisits(rows, n) = rows
<1>1. ASSUME NEW r \in rows
      PROVE  Cardinality({s \in rows : s.candle > r.candle}) < n
  <2> DEFINE late == {s \in rows : s.candle > r.candle}
             rest == rows \ {r}
  <2>1. late \in SUBSET rest /\ rest \in SUBSET rows
    OBVIOUS
  <2>2. Cardinality(rest) = Cardinality(rows) - 1
    BY FS_RemoveElement
  <2> HIDE DEF late, rest
  <2>3. IsFiniteSet(rest)
    BY <2>1, FS_Subset
  <2>4. IsFiniteSet(late) /\ Cardinality(late) <= Cardinality(rest)
    BY <2>1, <2>3, FS_Subset
  <2>5. Cardinality(late) \in Nat /\ Cardinality(rest) \in Nat /\ Cardinality(rows) \in Nat
    BY <2>3, <2>4, FS_CardinalityType
  <2>6. Cardinality(late) < n
    BY <2>2, <2>4, <2>5
  <2> QED
    BY <2>6 DEF late
<1> QED
  BY <1>1 DEF LatestVisits

\* What happens to a block happens after its confirmation.
LEMMA VisitsComeAfter ==
  ASSUME NEW bars, Len(bars) \in Nat, NEW config, NEW e, e.candle \in Int,
         NEW r \in Visits(bars, e, config)
  PROVE  r.candle \in (e.candle + 1)..Len(bars) /\ r.candle \in Int
BY DEF Visits

\* What is known of a block is dated by the candle it happened at.
CreationOf(bars, tf, block) ==
  Fact(bars, tf, "order_block_created", block, block.confirmed, {block.origin})
VisitTo(bars, tf, block, r) == Fact(bars, tf, r.kind, block, r.candle, {block.confirmed})

\* The facts about a block are dated by their candles.
LEMMA BlockFactsAreDated ==
  ASSUME NEW tf, Duration[tf] \in {1, 2}, NEW bars, History(bars, tf),
         NEW config, config.search \in Nat,
         NEW e, e.candle \in 1..Len(bars), Origins(bars, e, config) # {}
  PROVE  /\ CreationOf(bars, tf, BlockOf(bars, e, config)) = CreatedBlock(bars, e, config, tf)
         /\ \A r \in Visits(bars, e, config) :
               VisitTo(bars, tf, BlockOf(bars, e, config), r) = VisitedBlock(bars, e, config, tf, r)
<1> DEFINE block == BlockOf(bars, e, config)
           origin == {block.origin}
           confirmed == {e.candle}
<1>1. Len(bars) \in Nat /\ e.candle \in Int
  BY DEF History
<1>2. block.origin \in 1..(e.candle - 1) /\ block.confirmed = e.candle
  BY <1>1, MovesStartBefore DEF BlockOf
<1>3. \A i \in origin : i \in 1..Len(bars) /\ i <= e.candle
  BY <1>1, <1>2
<1> HIDE DEF origin
<1>4. Fact(bars, tf, "order_block_created", block, e.candle, origin) = CreatedBlock(bars, e, config, tf)
  <2> HIDE DEF block
  <2>1. Fact(bars, tf, "order_block_created", block, e.candle, origin)
          = Dated(tf, "order_block_created", block, e.candle)
    BY <1>3, FactIsDated
  <2> QED
    BY <2>1 DEF CreatedBlock, block
<1>5. ASSUME NEW r \in Visits(bars, e, config)
      PROVE  Fact(bars, tf, r.kind, block, r.candle, confirmed) = VisitedBlock(bars, e, config, tf, r)
  <2>1. r.candle \in (e.candle + 1)..Len(bars)
    BY <1>1, VisitsComeAfter
  <2>2. r.candle \in 1..Len(bars)
    BY <1>1, <2>1
  <2>3. \A i \in confirmed : i \in 1..Len(bars) /\ i <= r.candle
    BY <1>1, <2>1
  <2> HIDE DEF block, confirmed
  <2>4. Fact(bars, tf, r.kind, block, r.candle, confirmed) = Dated(tf, r.kind, block, r.candle)
    BY <2>2, <2>3, FactIsDated
  <2> QED
    BY <2>1, <2>4 DEF VisitedBlock, block
<1> HIDE DEF block
<1> QED
  BY <1>2, <1>4, <1>5 DEF origin, confirmed, block, CreationOf, VisitTo

\* Finitely much happens to a block.
LEMMA VisitsAreFinite ==
  ASSUME NEW bars, Len(bars) \in Nat, NEW config, NEW e, e.candle \in Int
  PROVE  IsFiniteSet(Visits(bars, e, config))
<1> DEFINE later == (e.candle + 1)..Len(bars)
           visit == [i \in later |->
                       [candle |-> i, kind |-> BlockEvent(bars[i], bars[StartOf(bars, e, config)], e.direction)]]
<1>1. IsFiniteSet(later)
  BY FS_Interval
<1>2. \A r \in Visits(bars, e, config) : \E i \in later : r = visit[i]
  BY DEF Visits
<1> HIDE DEF later, visit
<1> QED
  BY <1>1, <1>2, ImagesAreFinite

\* A block as it is told.
ToldBlock(bars, e, config) ==
  [origin |-> StartOf(bars, e, config), direction |-> e.direction, confirmed |-> e.candle,
   state |-> BlockState({r.kind : r \in Visits(bars, e, config)}),
   interactions |-> LatestVisits(Visits(bars, e, config), config.interactions)]
LaterBlocks(e, confirmed) == Cardinality({other \in confirmed : other.candle > e.candle})
KeptBlocks(bars, moves, config) ==
  LET confirmed == Confirmed(bars, moves, config)
  IN  {e \in confirmed : LaterBlocks(e, confirmed) < config.blocks}

\* The answer about blocks, in its parts: those kept, and what was left out.
LEMMA BlocksAre ==
  ASSUME NEW bars, NEW result, NEW config
  PROVE  LET answer == OrderBlocks(bars, result, config)
             confirmed == Confirmed(bars, result.events, config)
             kept == KeptBlocks(bars, result.events, config)
         IN  /\ answer.blocks = {ToldBlock(bars, e, config) : e \in kept}
             /\ answer.truncated = Cardinality(confirmed \ kept)
             /\ answer.shortened = Cardinality({e \in kept :
                   Cardinality(Visits(bars, e, config)) > config.interactions})
<1> DEFINE confirmed == Confirmed(bars, result.events, config)
           kept == KeptBlocks(bars, result.events, config)
           started == {e \in result.events : Origins(bars, e, config) # {}}
<1>1. confirmed = {e \in started : ~\E other \in started :
                     /\ other.direction = e.direction
                     /\ Max(Origins(bars, other, config)) = Max(Origins(bars, e, config))
                     /\ other.candle < e.candle}
  BY DEF Confirmed, StartOf
<1> QED
  BY <1>1 DEF OrderBlocks, KeptBlocks, LaterBlocks, ToldBlock, LatestVisits, Visits, StartOf

\* Without a displacement there is no block.
LEMMA NoMovesNoBlocks ==
  ASSUME NEW bars, NEW result, NEW config, result.events = {}
  PROVE  OrderBlocks(bars, result, config).blocks = {}
<1>1. KeptBlocks(bars, result.events, config) = {}
  BY DEF KeptBlocks, Confirmed
<1>2. OrderBlocks(bars, result, config).blocks
        = {ToldBlock(bars, e, config) : e \in KeptBlocks(bars, result.events, config)}
  BY BlocksAre
<1> QED
  BY <1>1, <1>2

\* The facts about blocks are those of the confirmed moves, and all of them when
\* nothing was cut off or shortened.
LEMMA BlockFactsAre ==
  ASSUME NEW tf, Duration[tf] \in {1, 2}, NEW bars, History(bars, tf),
         NEW config, config.search \in Nat, config.interactions \in Nat,
         NEW result, IsFiniteSet(result.events), \A e \in result.events : e.candle \in 1..Len(bars)
  PROVE  LET answer == OrderBlocks(bars, result, config)
             told == BlockFacts(bars, tf, answer)
             all == Confirmed(bars, result.events, config)
         IN  /\ \A f \in told : \E e \in all :
                   \/ f = CreatedBlock(bars, e, config, tf)
                   \/ \E r \in Visits(bars, e, config) : f = VisitedBlock(bars, e, config, tf, r)
             /\ answer.blocks = {} => told = {}
             /\ answer.truncated \in Nat /\ answer.shortened \in Nat
             /\ answer.truncated = 0 /\ answer.shortened = 0 => \A e \in all :
                   /\ CreatedBlock(bars, e, config, tf) \in told
                   /\ \A r \in Visits(bars, e, config) : VisitedBlock(bars, e, config, tf, r) \in told
<1> DEFINE answer == OrderBlocks(bars, result, config)
           told == BlockFacts(bars, tf, answer)
           all == Confirmed(bars, result.events, config)
           kept == KeptBlocks(bars, result.events, config)
           cut == all \ kept
           short == {e \in kept : Cardinality(Visits(bars, e, config)) > config.interactions}
           facts(e) == {CreatedBlock(bars, e, config, tf)}
                         \cup {VisitedBlock(bars, e, config, tf, r) :
                                 r \in LatestVisits(Visits(bars, e, config), config.interactions)}
           factsOf(b) == LET block == [origin |-> b.origin, direction |-> b.direction, confirmed |-> b.confirmed]
                         IN  {CreationOf(bars, tf, block)}
                             \cup {VisitTo(bars, tf, block, i) : i \in b.interactions}
<1>1. Len(bars) \in Nat
  BY DEF History
<1>2. /\ answer.blocks = {ToldBlock(bars, e, config) : e \in kept}
      /\ answer.truncated = Cardinality(cut) /\ answer.shortened = Cardinality(short)
  BY BlocksAre
<1>3. told = UNION {factsOf(b) : b \in answer.blocks}
  BY DEF BlockFacts, CreationOf, VisitTo
<1>4. kept \subseteq all /\ all \subseteq result.events
      /\ \A e \in all : Origins(bars, e, config) # {} /\ e.candle \in 1..Len(bars)
  BY DEF KeptBlocks, Confirmed
<1>5. ASSUME NEW e \in all
      PROVE  factsOf(ToldBlock(bars, e, config)) = facts(e)
  <2> DEFINE block == BlockOf(bars, e, config)
             visits == LatestVisits(Visits(bars, e, config), config.interactions)
             b == ToldBlock(bars, e, config)
  <2>1. /\ CreationOf(bars, tf, block) = CreatedBlock(bars, e, config, tf)
        /\ \A r \in visits : VisitTo(bars, tf, block, r) = VisitedBlock(bars, e, config, tf, r)
    <3>1. e.candle \in 1..Len(bars) /\ Origins(bars, e, config) # {}
      BY <1>4
    <3>2. visits \subseteq Visits(bars, e, config)
      BY DEF LatestVisits
    <3> HIDE DEF visits
    <3> QED
      BY <3>1, <3>2, BlockFactsAreDated
  <2>2. /\ block = [origin |-> b.origin, direction |-> b.direction, confirmed |-> b.confirmed]
        /\ b.interactions = visits
    BY DEF BlockOf, ToldBlock
  <2> HIDE DEF block, visits, b
  <2>3. factsOf(b) = {CreationOf(bars, tf, block)} \cup {VisitTo(bars, tf, block, r) : r \in visits}
    BY <2>2
  <2>4. factsOf(b) = {CreatedBlock(bars, e, config, tf)}
                       \cup {VisitedBlock(bars, e, config, tf, r) : r \in visits}
    BY <2>1, <2>3
  <2> QED
    BY <2>4 DEF visits, b
<1>6. IsFiniteSet(all) /\ IsFiniteSet(kept)
  BY <1>4, FS_Subset
<1>7. /\ Cardinality(cut) \in Nat /\ (Cardinality(cut) = 0 => cut = {})
      /\ Cardinality(short) \in Nat /\ (Cardinality(short) = 0 => short = {})
  <2>1. cut \in SUBSET all /\ short \in SUBSET kept
    OBVIOUS
  <2> HIDE DEF cut, short, all, kept
  <2>2. IsFiniteSet(cut) /\ IsFiniteSet(short)
    BY <1>6, <2>1, FS_Subset
  <2> QED
    BY <2>2, FS_CardinalityType, FS_EmptySet
<1>8. ASSUME short = {}, NEW e \in kept
      PROVE  LatestVisits(Visits(bars, e, config), config.interactions) = Visits(bars, e, config)
  <2> DEFINE visits == Visits(bars, e, config)
  <2>1. ~(Cardinality(visits) > config.interactions)
    BY <1>8
  <2>2. e.candle \in 1..Len(bars) /\ e.candle \in Int
    BY <1>1, <1>4, <1>8
  <2>3. IsFiniteSet(visits)
    BY <1>1, <2>2, VisitsAreFinite
  <2>4. \A r \in visits : r.candle \in Int
    BY <1>1, <2>2, VisitsComeAfter
  <2>5. Cardinality(visits) \in Nat
    BY <2>3, FS_CardinalityType
  <2> HIDE DEF visits
  <2>6. LatestVisits(visits, config.interactions) = visits
    BY <2>1, <2>3, <2>4, <2>5, FewVisitsAreTold
  <2> QED
    BY <2>6 DEF visits
<1> HIDE DEF factsOf, all, kept
<1>9. told = UNION {facts(e) : e \in kept}
  <2>1. told = UNION {factsOf(ToldBlock(bars, e, config)) : e \in kept}
    <3> HIDE DEF told, answer
    <3> QED
      BY <1>2, <1>3
  <2> HIDE DEF facts
  <2> QED
    BY <1>4, <1>5, <2>1
<1> HIDE DEF told, answer
<1>10. ASSUME NEW f \in told
       PROVE  \E e \in all :
                   \/ f = CreatedBlock(bars, e, config, tf)
                   \/ \E r \in Visits(bars, e, config) : f = VisitedBlock(bars, e, config, tf, r)
  <2>1. PICK e \in kept : f \in facts(e)
    BY <1>9, <1>10
  <2> QED
    BY <1>4, <2>1 DEF LatestVisits
<1>11. ASSUME answer.truncated = 0, answer.shortened = 0, NEW e \in all
       PROVE  /\ CreatedBlock(bars, e, config, tf) \in told
              /\ \A r \in Visits(bars, e, config) : VisitedBlock(bars, e, config, tf, r) \in told
  <2>1. cut = {} /\ short = {}
    <3> HIDE DEF cut, short
    <3> QED
      BY <1>2, <1>7, <1>11
  <2>2. e \in kept
    BY <2>1, <1>11
  <2>3. facts(e) \subseteq told
    <3> HIDE DEF facts
    <3> QED
      BY <1>9, <2>2
  <2> QED
    BY <1>8, <2>1, <2>2, <2>3
<1>12. answer.blocks = {} => told = {}
  <2>1. answer.blocks = {} => kept = {}
    BY <1>2
  <2> QED
    BY <1>9, <2>1
<1> QED
  <2> HIDE DEF cut, short, facts
  <2>1. answer.truncated \in Nat /\ answer.shortened \in Nat
    BY <1>2, <1>7
  <2> QED
    BY <1>10, <1>11, <1>12, <2>1 DEF told, answer, all

-----------------------------------------------------------------------------
(* What two histories of one market say.                                   *)

\* An instant is that of a candle of the shorter history.
LEMMA DatedBefore ==
  ASSUME NEW tf, Duration[tf] \in {1, 2}, NEW i \in Int, NEW n \in Int
  PROVE  Duration[tf] * i <= Duration[tf] * n <=> i <= n
BY CompletedInTurn

\* Events on levels are found again in longer histories, and were told before if
\* they happened before.
THEOREM EventsAgree ==
  ASSUME NEW tf, Duration[tf] \in {1, 2}, NEW bars, History(bars, tf),
         NEW longer, History(longer, tf), Continues(longer, bars),
         NEW config, config.tolerance \in Nat, config.maximum \in Nat
  PROVE  LET earlier == ToldEvents(bars, config, tf)
             later == ToldEvents(longer, config, tf)
         IN  /\ later.truncated + later.excluded = 0 =>
                  \A f \in LiquidityFacts(bars, tf, earlier) : f \in LiquidityFacts(longer, tf, later)
             /\ earlier.truncated + earlier.excluded = 0 =>
                  \A f \in LiquidityFacts(longer, tf, later) :
                     f.available <= Duration[tf] * Len(bars) => f \in LiquidityFacts(bars, tf, earlier)
<1> DEFINE earlier == ToldEvents(bars, config, tf)
           later == ToldEvents(longer, config, tf)
           before == LiquidityFacts(bars, tf, earlier)
           after == LiquidityFacts(longer, tf, later)
           rows == InteractionHistory(bars, config, tf)
           more == InteractionHistory(longer, config, tf)
<1>1. bars \in Seq(Bar) /\ longer \in Seq(Bar) /\ Len(bars) \in Nat
  BY DEF History
<1>2. rows = {row \in more : row.candle <= Len(bars)}
  BY <1>1, InteractionsNeverRepaint
<1>3. /\ \A f \in before : \E row \in rows : f = InteractionFact(row, tf)
      /\ earlier.truncated \in Nat /\ earlier.excluded \in Nat
      /\ earlier.truncated = 0 /\ earlier.excluded = 0 =>
           \A row \in rows : InteractionFact(row, tf) \in before
  BY EventFactsAre
<1>4. /\ \A f \in after : \E row \in more : f = InteractionFact(row, tf)
      /\ later.truncated \in Nat /\ later.excluded \in Nat
      /\ later.truncated = 0 /\ later.excluded = 0 =>
           \A row \in more : InteractionFact(row, tf) \in after
  BY EventFactsAre
<1>5. \A row \in more : /\ row.candle \in Int
                        /\ InteractionFact(row, tf).available = Duration[tf] * row.candle
  <2>1. \A row \in more : row.candle \in Int
    BY RowsAreOfLevels, <1>1
  <2> QED
    BY <2>1 DEF InteractionFact, Dated
<1> HIDE DEF earlier, later, before, after, rows, more
<1>6. ASSUME later.truncated + later.excluded = 0, NEW f \in before
      PROVE  f \in after
  <2>1. later.truncated = 0 /\ later.excluded = 0
    BY <1>4, <1>6
  <2> QED
    BY <1>2, <1>3, <1>4, <1>6, <2>1
<1>7. ASSUME earlier.truncated + earlier.excluded = 0,
             NEW f \in after, f.available <= Duration[tf] * Len(bars)
      PROVE  f \in before
  <2>1. earlier.truncated = 0 /\ earlier.excluded = 0
    BY <1>3, <1>7
  <2>2. PICK row \in more : f = InteractionFact(row, tf)
    BY <1>4, <1>7
  <2>3. row.candle <= Len(bars)
    BY <1>1, <1>5, <1>7, <2>2, DatedBefore
  <2> QED
    BY <1>2, <1>3, <2>1, <2>2, <2>3
<1> QED
  BY <1>6, <1>7 DEF earlier, later, before, after

\* A gap of the shorter history is one of the longer, with the same history so far.
LEMMA GapsAreKept ==
  ASSUME NEW tf, NEW bars, History(bars, tf), NEW longer, History(longer, tf),
         Continues(longer, bars), NEW config, NEW b \in 2..(Len(bars) - 1)
  PROVE  /\ IsGap(bars, b, config) <=> IsGap(longer, b, config)
         /\ CreatedGap(bars, b, config, tf) = CreatedGap(longer, b, config, tf)
         /\ \A i \in GapAt(longer, b, config).interactions :
               VisitedGap(bars, b, config, tf, i) = VisitedGap(longer, b, config, tf, i)
         /\ \A i : i \in GapAt(bars, b, config).interactions <=>
               i \in GapAt(longer, b, config).interactions /\ i.candle <= Len(bars)
<1>1. bars \in Seq(Bar) /\ longer \in Seq(Bar) /\ Len(bars) \in Nat
  BY DEF History
<1>2. /\ GapAt(longer, b, config).gap = GapAt(bars, b, config).gap
      /\ GapAt(bars, b, config).interactions
           = {i \in GapAt(longer, b, config).interactions : i.candle <= Len(bars)}
  BY <1>1, GapsNeverRepaint
<1>3. longer[b - 1] = bars[b - 1] /\ longer[b + 1] = bars[b + 1]
  BY <1>1 DEF Continues
<1> QED
  BY <1>2, <1>3 DEF IsGap, CreatedGap, VisitedGap

\* What is told of a gap.
OfGap(f, bars, b, config, tf) ==
  \/ f = CreatedGap(bars, b, config, tf)
  \/ \E i \in GapAt(bars, b, config).interactions : f = VisitedGap(bars, b, config, tf, i)
GapsOf(bars, config) == {b \in GapWindow(bars, config) : IsGap(bars, b, config)}

\* A fact about gaps is of a gap, and every one is told when none is omitted.
LEMMA GapFactsAreOfGaps ==
  ASSUME NEW tf, Duration[tf] \in {1, 2}, NEW bars, History(bars, tf),
         NEW config, config.lookback \in Int
  PROVE  /\ \A f \in ToldGaps(bars, config, tf) :
               \E b \in GapsOf(bars, config) : OfGap(f, bars, b, config, tf)
         /\ Gaps(bars, config).omitted = 0 => \A b \in GapsOf(bars, config) : \A f :
               OfGap(f, bars, b, config, tf) => f \in ToldGaps(bars, config, tf)
BY GapFactsAre DEF GapsOf, OfGap

GapDated(f, b, bars, tf) ==
  /\ f.object.middle = b
  /\ f.candle \in Int /\ b < f.candle /\ f.candle <= Len(bars)
  /\ f.available = Duration[tf] * f.candle
  /\ f.family \in Families.gaps

\* What is told of a gap is dated after its middle candle.
LEMMA OfGapIsDated ==
  ASSUME NEW tf, NEW bars, Len(bars) \in Nat, NEW config, NEW b \in 2..(Len(bars) - 1),
         NEW f, OfGap(f, bars, b, config, tf)
  PROVE  GapDated(f, b, bars, tf)
<1>1. /\ GapAt(bars, b, config).gap.middle = b
      /\ \A i \in GapAt(bars, b, config).interactions : i.candle \in (b + 2)..Len(bars)
  BY GapIsAround
<1>2. CASE f = CreatedGap(bars, b, config, tf)
  <2>1. b + 1 \in Int /\ b < b + 1 /\ b + 1 <= Len(bars)
    OBVIOUS
  <2> QED
    BY <1>1, <1>2, <2>1 DEF CreatedGap, Dated, Families, GapDated
<1>3. ASSUME NEW i \in GapAt(bars, b, config).interactions, f = VisitedGap(bars, b, config, tf, i)
      PROVE  GapDated(f, b, bars, tf)
  <2>1. i.candle \in Int /\ b < i.candle /\ i.candle <= Len(bars)
    BY <1>1
  <2>2. GapFamily(i.kind) \in Families.gaps
    BY DEF GapFamily, Families
  <2> QED
    BY <1>1, <1>3, <2>1, <2>2 DEF VisitedGap, Dated, GapDated
<1> QED
  BY <1>2, <1>3 DEF OfGap

\* Facts about a gap are found again in longer histories that still search it, and
\* were told before if they happened before.
THEOREM GapsAgree ==
  ASSUME NEW tf, Duration[tf] \in {1, 2}, NEW bars, History(bars, tf),
         NEW longer, History(longer, tf), Continues(longer, bars),
         NEW config, config.lookback \in Int
  PROVE  /\ Gaps(longer, config).omitted = 0 =>
               \A f \in ToldGaps(bars, config, tf) :
                  f.object.middle > Len(longer) - config.lookback => f \in ToldGaps(longer, config, tf)
         /\ Gaps(bars, config).omitted = 0 =>
               \A f \in ToldGaps(longer, config, tf) :
                  f.available <= Duration[tf] * Len(bars) => f \in ToldGaps(bars, config, tf)
<1>1. Len(bars) \in Nat /\ Len(longer) \in Nat /\ Len(bars) <= Len(longer)
  BY DEF History, Continues
<1>2. ASSUME Gaps(longer, config).omitted = 0, NEW f \in ToldGaps(bars, config, tf),
             f.object.middle > Len(longer) - config.lookback
      PROVE  f \in ToldGaps(longer, config, tf)
  <2>1. PICK b \in GapsOf(bars, config) : OfGap(f, bars, b, config, tf)
    BY GapFactsAreOfGaps
  <2>2. b \in 2..(Len(bars) - 1) /\ IsGap(bars, b, config)
    BY DEF GapsOf, GapWindow
  <2>3. f.object.middle = b
    BY <1>1, <2>1, <2>2, OfGapIsDated DEF GapDated
  <2>4. b \in GapsOf(longer, config)
    BY <1>1, <1>2, <2>2, <2>3, GapsAreKept DEF GapsOf, GapWindow
  <2>5. OfGap(f, longer, b, config, tf)
    BY <2>1, <2>2, GapsAreKept DEF OfGap
  <2> QED
    BY <1>2, <2>4, <2>5, GapFactsAreOfGaps
<1>3. ASSUME Gaps(bars, config).omitted = 0, NEW f \in ToldGaps(longer, config, tf),
             f.available <= Duration[tf] * Len(bars)
      PROVE  f \in ToldGaps(bars, config, tf)
  <2>1. PICK b \in GapsOf(longer, config) : OfGap(f, longer, b, config, tf)
    BY GapFactsAreOfGaps
  <2>2. b \in 2..(Len(longer) - 1) /\ IsGap(longer, b, config) /\ b > Len(longer) - config.lookback
    BY DEF GapsOf, GapWindow
  <2>3. f.candle \in Int /\ b < f.candle /\ f.available = Duration[tf] * f.candle
    <3>1. GapDated(f, b, longer, tf)
      BY <1>1, <2>1, <2>2, OfGapIsDated
    <3> QED
      BY <3>1 DEF GapDated
  <2>4. f.candle <= Len(bars)
    BY <1>1, <1>3, <2>3, DatedBefore
  <2>5. b \in 2..(Len(bars) - 1) /\ b > Len(bars) - config.lookback
    BY <1>1, <2>2, <2>3, <2>4
  <2>6. b \in GapsOf(bars, config)
    BY <2>2, <2>5, GapsAreKept DEF GapsOf, GapWindow
  <2>7. OfGap(f, bars, b, config, tf)
    <3>1. CASE f = CreatedGap(longer, b, config, tf)
      BY <2>5, <3>1, GapsAreKept DEF OfGap
    <3>2. ASSUME NEW i \in GapAt(longer, b, config).interactions, f = VisitedGap(longer, b, config, tf, i)
          PROVE  OfGap(f, bars, b, config, tf)
      <4>1. i.candle <= Len(bars)
        BY <2>4, <3>2 DEF VisitedGap, Dated
      <4> QED
        BY <2>5, <3>2, <4>1, GapsAreKept DEF OfGap
    <3> QED
      BY <2>1, <3>1, <3>2 DEF OfGap
  <2> QED
    BY <1>3, <2>6, <2>7, GapFactsAreOfGaps
<1> QED
  BY <1>2, <1>3

\* What is told of a displacement.
MoveFact(bars, tf, i) == Dated(tf, "displacement", [direction |-> Direction(bars[i])], i)
ToldMoves(bars, config, tf) == DisplacementFacts(bars, tf, Displacements(bars, config))
MoveCandles(bars, config) == {i \in Window(bars, config.lookback) : Displaces(bars, i, config)}

\* The facts about displacements are those of the candles that displace.
LEMMA MoveFactsAre ==
  ASSUME NEW tf, Duration[tf] \in {1, 2}, NEW bars, History(bars, tf),
         NEW config, config.lookback \in Int
  PROVE  ToldMoves(bars, config, tf) = {MoveFact(bars, tf, i) : i \in MoveCandles(bars, config)}
<1> DEFINE nothing == {}
           moves == Displacements(bars, config).events
           moving == MoveCandles(bars, config)
<1>1. Len(bars) \in Nat
  BY DEF History
<1>2. moves = {MoveAt(bars, i) : i \in moving}
  BY <1>1, DisplacementsAre DEF MovesOf, MoveCandles
<1>3. \A i \in moving : i \in 1..Len(bars)
  BY DEF MoveCandles, Window
<1>4. ToldMoves(bars, config, tf)
        = {Fact(bars, tf, "displacement", [direction |-> d.direction], d.candle, nothing) : d \in moves}
  BY DEF ToldMoves, DisplacementFacts
<1>5. \A i \in nothing : i \in 1..Len(bars) /\ i <= 0
  OBVIOUS
<1>6. \A i \in moving :
        Fact(bars, tf, "displacement", [direction |-> Direction(bars[i])], i, nothing) = MoveFact(bars, tf, i)
  <2> HIDE DEF nothing, moving
  <2>1. ASSUME NEW i \in moving
        PROVE  Fact(bars, tf, "displacement", [direction |-> Direction(bars[i])], i, nothing) = MoveFact(bars, tf, i)
    <3> DEFINE object == [direction |-> Direction(bars[i])]
    <3>1. i \in 1..Len(bars)
      BY <1>3
    <3>2. \A k \in nothing : k \in 1..Len(bars) /\ k <= i
      BY DEF nothing
    <3> HIDE DEF object
    <3>3. Fact(bars, tf, "displacement", object, i, nothing) = Dated(tf, "displacement", object, i)
      BY <3>1, <3>2, FactIsDated
    <3> QED
      BY <3>3 DEF MoveFact, object
  <2> QED
    BY <2>1
<1>7. \A i \in moving : MoveAt(bars, i).direction = Direction(bars[i]) /\ MoveAt(bars, i).candle = i
  BY DEF MoveAt
<1> HIDE DEF nothing, moves, moving
<1> DEFINE told(i) == Fact(bars, tf, "displacement", [direction |-> MoveAt(bars, i).direction],
                           MoveAt(bars, i).candle, nothing)
           fact(i) == MoveFact(bars, tf, i)
<1>8. ToldMoves(bars, config, tf) = {told(i) : i \in moving}
  BY <1>2, <1>4
<1>9. \A i \in moving : told(i) = fact(i)
  BY <1>6, <1>7
<1> HIDE DEF told, fact
<1>10. {told(i) : i \in moving} = {fact(i) : i \in moving}
  BY <1>9
<1>11. {fact(i) : i \in moving} = {MoveFact(bars, tf, i) : i \in MoveCandles(bars, config)}
  BY DEF fact, moving
<1> QED
  BY <1>8, <1>10, <1>11

\* A candle among the last of the longer history is among the last of the shorter.
LEMMA WindowsMoveOn ==
  ASSUME NEW bars, NEW longer, Len(bars) \in Nat, Len(longer) \in Nat, Continues(longer, bars),
         NEW lookback \in Int, NEW i \in Int
  PROVE  /\ i \in Window(longer, lookback) /\ i <= Len(bars) => i \in Window(bars, lookback)
         /\ i \in Window(bars, lookback) => i \in 1..Len(longer)
BY DEF Window, Continues

\* Displacements are found again in longer histories that still search them, and
\* were told before if they happened before.
THEOREM MovesAgree ==
  ASSUME NEW tf, Duration[tf] \in {1, 2}, NEW bars, History(bars, tf),
         NEW longer, History(longer, tf), Continues(longer, bars),
         NEW config, config.lookback \in Int, config.baseline \in Nat
  PROVE  /\ \A f \in ToldMoves(bars, config, tf) :
               f.candle > Len(longer) - config.lookback => f \in ToldMoves(longer, config, tf)
         /\ \A f \in ToldMoves(longer, config, tf) :
               f.available <= Duration[tf] * Len(bars) => f \in ToldMoves(bars, config, tf)
<1>1. /\ bars \in Seq(Bar) /\ longer \in Seq(Bar)
      /\ Len(bars) \in Nat /\ Len(longer) \in Nat /\ Len(bars) <= Len(longer)
  BY DEF History, Continues
<1>2. \A i \in 1..Len(bars) : /\ Displaces(longer, i, config) <=> Displaces(bars, i, config)
                              /\ MoveFact(longer, tf, i) = MoveFact(bars, tf, i)
  <2>1. \A i \in 1..Len(bars) : longer[i] = bars[i]
    BY DEF Continues
  <2> QED
    BY <1>1, <2>1, DisplacementsNeverRepaint DEF MoveFact
<1>3. \A i : /\ MoveFact(bars, tf, i).candle = i
             /\ MoveFact(longer, tf, i).available = Duration[tf] * i
  BY DEF MoveFact, Dated
<1>4. /\ ToldMoves(bars, config, tf) = {MoveFact(bars, tf, i) : i \in MoveCandles(bars, config)}
      /\ ToldMoves(longer, config, tf) = {MoveFact(longer, tf, i) : i \in MoveCandles(longer, config)}
  BY MoveFactsAre
<1>5. ASSUME NEW f \in ToldMoves(bars, config, tf), f.candle > Len(longer) - config.lookback
      PROVE  f \in ToldMoves(longer, config, tf)
  <2>1. PICK i \in MoveCandles(bars, config) : f = MoveFact(bars, tf, i)
    BY <1>4, <1>5
  <2>2. i \in 1..Len(bars) /\ Displaces(bars, i, config) /\ i > Len(longer) - config.lookback
    BY <1>3, <1>5, <2>1 DEF MoveCandles, Window
  <2>3. i \in MoveCandles(longer, config)
    BY <1>1, <1>2, <2>2 DEF MoveCandles, Window
  <2> QED
    BY <1>2, <1>4, <2>1, <2>2, <2>3
<1>6. ASSUME NEW f \in ToldMoves(longer, config, tf), f.available <= Duration[tf] * Len(bars)
      PROVE  f \in ToldMoves(bars, config, tf)
  <2>1. PICK i \in MoveCandles(longer, config) : f = MoveFact(longer, tf, i)
    BY <1>4, <1>6
  <2>2. i \in Window(longer, config.lookback) /\ i \in Int /\ Displaces(longer, i, config)
    BY <1>1 DEF MoveCandles, Window
  <2>3. i <= Len(bars)
    BY <1>1, <1>3, <1>6, <2>1, <2>2, DatedBefore
  <2>4. i \in Window(bars, config.lookback) /\ i \in 1..Len(bars)
    BY <1>1, <2>2, <2>3, WindowsMoveOn DEF Window
  <2>5. i \in MoveCandles(bars, config)
    BY <1>2, <2>2, <2>4 DEF MoveCandles
  <2> QED
    BY <1>2, <1>4, <2>1, <2>4, <2>5
<1> QED
  BY <1>5, <1>6

\* Moves are those of the longer history, as far as both search them.
LEMMA MovesNeverRepaint ==
  ASSUME NEW bars \in Seq(Bar), NEW longer \in Seq(Bar), Continues(longer, bars),
         NEW config, config.lookback \in Int, config.baseline \in Nat, NEW e
  PROVE  /\ e \in MovesOf(bars, config) =>
               /\ e.candle \in 1..Len(bars)
               /\ e.candle > Len(longer) - config.lookback => e \in MovesOf(longer, config)
         /\ e \in MovesOf(longer, config) =>
               /\ e.candle \in 1..Len(longer)
               /\ e.candle <= Len(bars) => e \in MovesOf(bars, config)
<1>1. Len(bars) \in Nat /\ Len(longer) \in Nat /\ Len(bars) <= Len(longer)
  BY DEF Continues
<1>2. \A i \in 1..Len(bars) : /\ Displaces(longer, i, config) <=> Displaces(bars, i, config)
                              /\ MoveAt(longer, i) = MoveAt(bars, i)
  <2>1. \A i \in 1..Len(bars) : longer[i] = bars[i]
    BY DEF Continues
  <2> QED
    BY <2>1, DisplacementsNeverRepaint DEF MoveAt
<1>3. \A i : MoveAt(bars, i).candle = i /\ MoveAt(longer, i).candle = i
  BY DEF MoveAt
<1>4. ASSUME e \in MovesOf(bars, config)
      PROVE  /\ e.candle \in 1..Len(bars)
             /\ e.candle > Len(longer) - config.lookback => e \in MovesOf(longer, config)
  <2>1. PICK i \in Window(bars, config.lookback) : Displaces(bars, i, config) /\ e = MoveAt(bars, i)
    BY <1>4 DEF MovesOf
  <2>2. i \in 1..Len(bars) /\ e.candle = i
    BY <1>3, <2>1 DEF Window
  <2>3. i > Len(longer) - config.lookback => i \in Window(longer, config.lookback)
    BY <1>1, <2>2 DEF Window
  <2> QED
    BY <1>2, <2>1, <2>2, <2>3 DEF MovesOf
<1>5. ASSUME e \in MovesOf(longer, config)
      PROVE  /\ e.candle \in 1..Len(longer)
             /\ e.candle <= Len(bars) => e \in MovesOf(bars, config)
  <2>1. PICK i \in Window(longer, config.lookback) : Displaces(longer, i, config) /\ e = MoveAt(longer, i)
    BY <1>5 DEF MovesOf
  <2>2. i \in 1..Len(longer) /\ i \in Int /\ e.candle = i
    BY <1>1, <1>3, <2>1 DEF Window
  <2>3. i <= Len(bars) => i \in Window(bars, config.lookback) /\ i \in 1..Len(bars)
    BY <1>1, <2>1, <2>2, WindowsMoveOn DEF Window
  <2> QED
    BY <1>2, <2>1, <2>2, <2>3 DEF MovesOf
<1> QED
  BY <1>4, <1>5

\* A move starts where it started.
LEMMA OriginsNeverRepaint ==
  ASSUME NEW bars, NEW longer, Len(bars) \in Nat, Continues(longer, bars),
         NEW config, config.search \in Nat, NEW e, e.candle \in 1..Len(bars)
  PROVE  /\ Origins(longer, e, config) = Origins(bars, e, config)
         /\ StartOf(longer, e, config) = StartOf(bars, e, config)
<1> DEFINE earliest == Max({1, e.candle - config.search})
<1>1. e.candle \in Int /\ e.candle - config.search \in Int
  OBVIOUS
<1>2. earliest \in Int /\ \A b \in Int : earliest <= b => 1 <= b
  BY <1>1, BothAtMost
<1>3. \A s : Origins(s, e, config) =
        {j \in earliest..(e.candle - 1) :
           Direction(s[j]) = IF e.direction = "bullish" THEN "bearish" ELSE "bullish"}
  BY DEF Origins
<1> HIDE DEF earliest
<1>4. \A j \in earliest..(e.candle - 1) : longer[j] = bars[j]
  <2>1. \A j \in earliest..(e.candle - 1) : j \in 1..Len(bars)
    BY <1>1, <1>2
  <2> QED
    BY <2>1 DEF Continues
<1>5. Origins(longer, e, config) = Origins(bars, e, config)
  BY <1>3, <1>4
<1> QED
  BY <1>5 DEF StartOf

\* What happened to a block happened to it.
LEMMA VisitsNeverRepaint ==
  ASSUME NEW bars, NEW longer, Len(bars) \in Nat, Len(longer) \in Nat, Continues(longer, bars),
         NEW config, config.search \in Nat, NEW e, e.candle \in 1..Len(bars),
         Origins(bars, e, config) # {}, NEW r
  PROVE  r \in Visits(bars, e, config) <=> r \in Visits(longer, e, config) /\ r.candle <= Len(bars)
<1> DEFINE start == StartOf(bars, e, config)
           visit(s, i) == [candle |-> i, kind |-> BlockEvent(s[i], s[start], e.direction)]
<1>1. start \in 1..Len(bars) /\ StartOf(longer, e, config) = start
  <2>1. start \in 1..(e.candle - 1)
    BY MovesStartBefore
  <2> QED
    BY <2>1, OriginsNeverRepaint
<1>2. longer[start] = bars[start]
  BY <1>1 DEF Continues
<1>3. /\ r \in Visits(bars, e, config) <=>
           \E i \in (e.candle + 1)..Len(bars) : r = visit(bars, i) /\ r.kind # "none"
      /\ r \in Visits(longer, e, config) <=>
           \E i \in (e.candle + 1)..Len(longer) : r = visit(longer, i) /\ r.kind # "none"
  BY <1>1 DEF Visits
<1> HIDE DEF start
<1>4. \A i \in (e.candle + 1)..Len(bars) : visit(longer, i) = visit(bars, i)
  <2>1. \A i \in (e.candle + 1)..Len(bars) : longer[i] = bars[i]
    BY DEF Continues
  <2> QED
    BY <1>2, <2>1
<1>5. \A i : visit(longer, i).candle = i /\ visit(bars, i).candle = i
  OBVIOUS
<1>6. Len(bars) <= Len(longer)
  BY DEF Continues
<1> HIDE DEF visit
<1>7. ASSUME r \in Visits(bars, e, config)
      PROVE  r \in Visits(longer, e, config) /\ r.candle <= Len(bars)
  <2>1. PICK i \in (e.candle + 1)..Len(bars) : r = visit(bars, i) /\ r.kind # "none"
    BY <1>3, <1>7
  <2>2. i \in (e.candle + 1)..Len(longer) /\ i <= Len(bars)
    BY <1>6
  <2> QED
    BY <1>3, <1>4, <1>5, <2>1, <2>2
<1>8. ASSUME r \in Visits(longer, e, config), r.candle <= Len(bars)
      PROVE  r \in Visits(bars, e, config)
  <2>1. PICK i \in (e.candle + 1)..Len(longer) : r = visit(longer, i) /\ r.kind # "none"
    BY <1>3, <1>8
  <2>2. i \in (e.candle + 1)..Len(bars)
    BY <1>5, <1>8, <2>1
  <2> QED
    BY <1>3, <1>4, <2>1, <2>2
<1> QED
  BY <1>7, <1>8

\* What is told of a block.
OfBlock(f, bars, e, config, tf) ==
  \/ f = CreatedBlock(bars, e, config, tf)
  \/ \E r \in Visits(bars, e, config) : f = VisitedBlock(bars, e, config, tf, r)
AnswerOn(bars, moving, config) == OrderBlocks(bars, Displacements(bars, moving), config)
ToldBlocks(bars, moving, config, tf) == BlockFacts(bars, tf, AnswerOn(bars, moving, config))
BlockMoves(bars, moving, config) == Confirmed(bars, MovesOf(bars, moving), config)

\* There are finitely many displacements, each at a candle.
LEMMA MovesAreFinite ==
  ASSUME NEW bars, Len(bars) \in Nat, NEW config
  PROVE  /\ IsFiniteSet(MovesOf(bars, config))
         /\ \A e \in MovesOf(bars, config) : e.candle \in 1..Len(bars)
<1> DEFINE move == [i \in 1..Len(bars) |-> MoveAt(bars, i)]
<1>1. \A e \in MovesOf(bars, config) : \E i \in 1..Len(bars) : e = move[i]
  BY DEF MovesOf, Window
<1>2. \A i \in 1..Len(bars) : move[i].candle = i
  BY DEF MoveAt
<1>3. IsFiniteSet(1..Len(bars))
  BY FS_Interval
<1> HIDE DEF move
<1>4. IsFiniteSet(MovesOf(bars, config))
  BY <1>1, <1>3, ImagesAreFinite
<1> QED
  BY <1>1, <1>2, <1>4

\* A fact about blocks is of a block, and every one is told when nothing is left out.
LEMMA BlockFactsAreOfBlocks ==
  ASSUME NEW tf, Duration[tf] \in {1, 2}, NEW bars, History(bars, tf),
         NEW config, config.search \in Nat, config.interactions \in Nat,
         NEW moving, moving.lookback \in Int
  PROVE  LET answer == AnswerOn(bars, moving, config)
             told == ToldBlocks(bars, moving, config, tf)
         IN  /\ \A f \in told : \E e \in BlockMoves(bars, moving, config) : OfBlock(f, bars, e, config, tf)
             /\ answer.blocks = {} => told = {}
             /\ answer.truncated \in Nat /\ answer.shortened \in Nat
             /\ answer.truncated + answer.shortened = 0 =>
                  \A e \in BlockMoves(bars, moving, config) : \A f :
                     OfBlock(f, bars, e, config, tf) => f \in told
<1> DEFINE result == Displacements(bars, moving)
           answer == OrderBlocks(bars, result, config)
           told == BlockFacts(bars, tf, answer)
           all == Confirmed(bars, result.events, config)
<1>1. Len(bars) \in Nat
  BY DEF History
<1>2. result.events = MovesOf(bars, moving)
  BY <1>1, DisplacementsAre
<1>3. IsFiniteSet(result.events) /\ \A e \in result.events : e.candle \in 1..Len(bars)
  BY <1>1, <1>2, MovesAreFinite
<1> HIDE DEF result
<1>4. /\ \A f \in told : \E e \in all :
            \/ f = CreatedBlock(bars, e, config, tf)
            \/ \E r \in Visits(bars, e, config) : f = VisitedBlock(bars, e, config, tf, r)
      /\ answer.blocks = {} => told = {}
      /\ answer.truncated \in Nat /\ answer.shortened \in Nat
      /\ answer.truncated = 0 /\ answer.shortened = 0 => \A e \in all :
            /\ CreatedBlock(bars, e, config, tf) \in told
            /\ \A r \in Visits(bars, e, config) : VisitedBlock(bars, e, config, tf, r) \in told
  BY <1>3, BlockFactsAre
<1>5. /\ answer = AnswerOn(bars, moving, config) /\ told = ToldBlocks(bars, moving, config, tf)
      /\ all = BlockMoves(bars, moving, config)
  BY <1>2 DEF result, AnswerOn, ToldBlocks, BlockMoves
<1> HIDE DEF answer, told, all
<1>6. answer.truncated + answer.shortened = 0 => answer.truncated = 0 /\ answer.shortened = 0
  BY <1>4
<1> QED
  BY <1>4, <1>5, <1>6 DEF OfBlock

BlockDated(f, e, bars, config, tf) ==
  /\ f.object = BlockOf(bars, e, config) /\ f.object.confirmed = e.candle
  /\ f.candle \in Int /\ e.candle <= f.candle /\ f.candle <= Len(bars)
  /\ f.available = Duration[tf] * f.candle
  /\ f.family \in Families.blocks

\* What is told of a block is dated by the move that confirms it, or later.
LEMMA OfBlockIsDated ==
  ASSUME NEW tf, NEW bars, Len(bars) \in Nat, NEW config, NEW e, e.candle \in 1..Len(bars),
         NEW f, OfBlock(f, bars, e, config, tf)
  PROVE  BlockDated(f, e, bars, config, tf)
<1>1. BlockOf(bars, e, config).confirmed = e.candle /\ e.candle \in Int
  BY DEF BlockOf
<1>2. CASE f = CreatedBlock(bars, e, config, tf)
  BY <1>1, <1>2 DEF CreatedBlock, Dated, Families, BlockDated
<1>3. ASSUME NEW r \in Visits(bars, e, config), f = VisitedBlock(bars, e, config, tf, r)
      PROVE  BlockDated(f, e, bars, config, tf)
  <2>1. r.candle \in Int /\ e.candle <= r.candle /\ r.candle <= Len(bars)
    BY <1>1, VisitsComeAfter
  <2>2. r.kind \in Families.blocks
    <3>1. \E i : r.kind = BlockEvent(bars[i], bars[StartOf(bars, e, config)], e.direction) /\ r.kind # "none"
      BY DEF Visits
    <3> QED
      BY <3>1 DEF BlockEvent, Families
  <2> QED
    BY <1>1, <1>3, <2>1, <2>2 DEF VisitedBlock, Dated, BlockDated
<1> QED
  BY <1>2, <1>3 DEF OfBlock

\* A block of the shorter history that the longer one still searches is one of its
\* blocks, with the same history so far.
LEMMA BlocksAreKept ==
  ASSUME NEW bars \in Seq(Bar), NEW longer \in Seq(Bar), Continues(longer, bars), NEW tf,
         NEW config, config.search \in Nat,
         NEW moving, moving.lookback \in Int, moving.baseline \in Nat,
         NEW e \in BlockMoves(bars, moving, config), e.candle > Len(longer) - moving.lookback
  PROVE  /\ e \in BlockMoves(longer, moving, config)
         /\ \A f : OfBlock(f, bars, e, config, tf) => OfBlock(f, longer, e, config, tf)
<1>1. Len(bars) \in Nat /\ Len(longer) \in Nat /\ Len(bars) <= Len(longer)
  BY DEF Continues
<1>2. /\ e \in MovesOf(bars, moving) /\ Origins(bars, e, config) # {}
      /\ \A other \in MovesOf(bars, moving) :
            ~ /\ Origins(bars, other, config) # {}
              /\ other.direction = e.direction
              /\ StartOf(bars, other, config) = StartOf(bars, e, config)
              /\ other.candle < e.candle
  BY DEF BlockMoves, Confirmed
<1>3. e.candle \in 1..Len(bars) /\ e \in MovesOf(longer, moving)
  BY <1>2, MovesNeverRepaint
<1>4. /\ Origins(longer, e, config) = Origins(bars, e, config)
      /\ StartOf(longer, e, config) = StartOf(bars, e, config)
  BY <1>1, <1>3, OriginsNeverRepaint
<1>5. ASSUME NEW other \in MovesOf(longer, moving), Origins(longer, other, config) # {},
             other.direction = e.direction,
             StartOf(longer, other, config) = StartOf(longer, e, config),
             other.candle < e.candle
      PROVE  FALSE
  <2>1. other.candle \in 1..Len(longer)
    BY <1>5, MovesNeverRepaint
  <2>2. other.candle <= Len(bars) /\ other.candle \in 1..Len(bars)
    BY <1>1, <1>3, <1>5, <2>1
  <2>3. other \in MovesOf(bars, moving)
    BY <1>5, <2>2, MovesNeverRepaint
  <2>4. /\ Origins(longer, other, config) = Origins(bars, other, config)
        /\ StartOf(longer, other, config) = StartOf(bars, other, config)
    BY <1>1, <2>2, OriginsNeverRepaint
  <2> QED
    BY <1>2, <1>4, <1>5, <2>3, <2>4
<1>6. e \in BlockMoves(longer, moving, config)
  BY <1>2, <1>3, <1>4, <1>5 DEF BlockMoves, Confirmed
<1>7. BlockOf(longer, e, config) = BlockOf(bars, e, config)
  BY <1>4 DEF BlockOf
<1>8. \A r \in Visits(bars, e, config) : r \in Visits(longer, e, config)
  BY <1>1, <1>2, <1>3, VisitsNeverRepaint
<1> QED
  BY <1>6, <1>7, <1>8 DEF OfBlock, CreatedBlock, VisitedBlock

\* A block of the longer history was one before, if it was confirmed before; another
\* move may have confirmed it.
LEMMA BlocksWereThere ==
  ASSUME NEW bars \in Seq(Bar), NEW longer \in Seq(Bar), Continues(longer, bars),
         NEW config, config.search \in Nat,
         NEW moving, moving.lookback \in Int, moving.baseline \in Nat,
         NEW e \in BlockMoves(longer, moving, config), e.candle <= Len(bars)
  PROVE  \E first \in BlockMoves(bars, moving, config) :
            /\ first.direction = e.direction
            /\ StartOf(bars, first, config) = StartOf(longer, e, config)
<1>1. Len(bars) \in Nat /\ Len(longer) \in Nat /\ Len(bars) <= Len(longer)
  BY DEF Continues
<1>2. e \in MovesOf(longer, moving) /\ Origins(longer, e, config) # {}
  BY DEF BlockMoves, Confirmed
<1>3. e \in MovesOf(bars, moving) /\ e.candle \in 1..Len(bars)
  BY <1>1, <1>2, MovesNeverRepaint
<1>4. /\ Origins(longer, e, config) = Origins(bars, e, config)
      /\ StartOf(longer, e, config) = StartOf(bars, e, config)
  BY <1>1, <1>3, OriginsNeverRepaint
<1> DEFINE same == {other \in MovesOf(bars, moving) :
                      /\ Origins(bars, other, config) # {}
                      /\ other.direction = e.direction
                      /\ StartOf(bars, other, config) = StartOf(bars, e, config)}
           whens == {other.candle : other \in same}
<1>5. e \in same
  BY <1>2, <1>3, <1>4
<1>6. \A other \in same : other.candle \in Nat
  <2>1. \A other \in MovesOf(bars, moving) : other.candle \in 1..Len(bars)
    BY <1>1, MovesAreFinite
  <2> QED
    BY <1>1, <2>1
<1>7. whens \subseteq Nat /\ whens # {}
  BY <1>5, <1>6
<1> HIDE DEF whens
<1>8. PICK m \in whens : \A k \in whens : m <= k
  BY <1>7, LeastIndex
<1>9. PICK first \in same : first.candle = m
  BY <1>8 DEF whens
<1>10. \A other \in same : ~(other.candle < first.candle)
  <2>1. \A other \in same : other.candle \in whens
    BY DEF whens
  <2> HIDE DEF same
  <2> QED
    BY <1>6, <1>8, <1>9, <2>1
<1>11. first \in BlockMoves(bars, moving, config)
  BY <1>9, <1>10 DEF BlockMoves, Confirmed
<1> QED
  BY <1>4, <1>9, <1>11

-----------------------------------------------------------------------------
(* The gaps told are the gaps of the market.                               *)

\* A valid history of candles.
Priced(bars) == bars \in Seq(Bar) /\ ValidHistory(bars)

\* Of every candle of a valid history the extremes enclose the body.
LEMMA BodiesAreInside ==
  ASSUME NEW bars, Priced(bars), NEW i \in 1..Len(bars)
  PROVE  LET bar == bars[i]
         IN  /\ bar \in Bar
             /\ bar.open \in Int /\ bar.high \in Int /\ bar.low \in Int /\ bar.close \in Int
             /\ bar.low <= bar.open /\ bar.open <= bar.high
             /\ bar.low <= bar.close /\ bar.close <= bar.high /\ bar.low <= bar.high
<1>1. bars \in Seq(Bar) /\ PossiblePrices(bars[i])
  BY DEF Priced, ValidHistory
<1>2. bars[i] \in Bar
  BY <1>1
<1>3. /\ bars[i].open \in Int /\ bars[i].high \in Int /\ bars[i].low \in Int /\ bars[i].close \in Int
  BY <1>2 DEF Bar
<1>4. /\ bars[i].high >= bars[i].open /\ bars[i].high >= bars[i].close
      /\ bars[i].low <= bars[i].open /\ bars[i].low <= bars[i].close
  BY <1>1 DEF PossiblePrices
<1> QED
  BY <1>2, <1>3, <1>4

\* A candle fills some of a gap exactly when it reaches into it.
LEMMA DepthIsEntry ==
  ASSUME NEW width \in Int, width > 0, NEW depth \in Int
  PROVE  Max({0, Min({width, depth})}) > 0 <=> depth > 0
<1> DEFINE m == Min({width, depth})
<1>1. m = IF width <= depth THEN width ELSE depth
  BY Smaller
<1>2. m \in Int
  BY <1>1
<1> HIDE DEF m
<1>3. Max({0, m}) \in {0, m} /\ (Max({0, m}) <= 0 <=> 0 <= 0 /\ m <= 0)
  BY <1>2, BothAtMost
<1> QED
  BY <1>1, <1>2, <1>3 DEF m

\* What a candle does to a gap, as the candles say.
LEMMA GapEventIs ==
  ASSUME NEW bars, Priced(bars), NEW config, NEW b \in 2..(Len(bars) - 1), NEW i \in After(bars, b),
         \/ bars[b - 1].high < bars[b + 1].low
         \/ bars[b - 1].low > bars[b + 1].high
  PROVE  LET gap == GapAt(bars, b, config).gap
             event == GapEvent(bars[i], gap, config)
         IN  /\ event = "fully_filled_event" <=> Filled(bars, b, gap.side, i)
             /\ event = "partial_fill_event" <=>
                   ~Filled(bars, b, gap.side, i) /\ Entered(bars, b, gap.side, i)
<1> DEFINE first == bars[b - 1]
           third == bars[b + 1]
           bar == bars[i]
           gap == GapAt(bars, b, config).gap
           event == GapEvent(bar, gap, config)
           width == gap.upper - gap.lower
           depth == IF gap.side = "bullish" THEN gap.upper - bar.low ELSE bar.high - gap.lower
<1>1. Len(bars) \in Nat /\ b - 1 \in 1..Len(bars) /\ b + 1 \in 1..Len(bars) /\ i \in 1..Len(bars)
  BY DEF Priced, After
<1>2. /\ first.high \in Int /\ first.low \in Int /\ first.low <= first.high
      /\ third.high \in Int /\ third.low \in Int /\ third.low <= third.high
      /\ bar.high \in Int /\ bar.low \in Int
  BY <1>1, BodiesAreInside
<1>3. /\ first.high < third.low =>
            /\ gap.side = "bullish" /\ gap.lower = first.high /\ gap.upper = third.low
      /\ ~(first.high < third.low) =>
            /\ gap.side = "bearish" /\ gap.lower = third.high /\ gap.upper = first.low
  BY DEF GapAt
<1>0. first.high < third.low \/ first.low > third.high
  OBVIOUS
<1> HIDE DEF gap, first, third, bar
<1>4. width \in Int /\ width > 0 /\ depth \in Int
      /\ gap.lower \in Int /\ gap.upper \in Int
  <2>1. CASE first.high < third.low
    BY <1>2, <1>3, <2>1
  <2>2. CASE ~(first.high < third.low)
    <3>1. gap.side = "bearish" /\ gap.lower = third.high /\ gap.upper = first.low
      BY <1>3, <2>2
    <3>2. first.low > third.high
      BY <1>0, <2>2
    <3>3. depth = bar.high - gap.lower
      BY <3>1
    <3> QED
      BY <1>2, <3>1, <3>2, <3>3
  <2> QED
    BY <2>1, <2>2
<1>5. FillDepth(bar, gap) > 0 <=> depth > 0
  <2>1. FillDepth(bar, gap) = Max({0, Min({width, depth})})
    BY DEF FillDepth
  <2>2. width \in Int /\ width > 0 /\ depth \in Int
    BY <1>4
  <2> HIDE DEF width, depth
  <2>3. Max({0, Min({width, depth})}) > 0 <=> depth > 0
    BY <2>2, DepthIsEntry
  <2> QED
    BY <2>1, <2>3
<1>6. depth > 0 <=> Entered(bars, b, gap.side, i)
  <2>1. Entered(bars, b, gap.side, i) <=>
          IF gap.side = "bullish" THEN bar.low < third.low ELSE bar.high > third.high
    BY DEF Entered, bar, third
  <2> QED
    BY <1>2, <1>3, <2>1
<1>7. (IF gap.side = "bullish" THEN bar.low <= gap.lower ELSE bar.high >= gap.upper)
        <=> Filled(bars, b, gap.side, i)
  <2>1. Filled(bars, b, gap.side, i) <=>
          IF gap.side = "bullish" THEN bar.low <= first.high ELSE bar.high >= first.low
    BY DEF Filled, bar, first
  <2> QED
    BY <1>2, <1>3, <2>1
<1> HIDE DEF width, depth
<1>8. /\ event = "fully_filled_event" <=> Filled(bars, b, gap.side, i)
      /\ event = "partial_fill_event" <=>
            ~Filled(bars, b, gap.side, i) /\ Entered(bars, b, gap.side, i)
  BY <1>5, <1>6, <1>7 DEF GapEvent
<1> QED
  BY <1>8 DEF gap, bar

\* A gap that is found is one, and is told to be in the state it is in.
LEMMA GapsAreThere ==
  ASSUME NEW bars, Priced(bars), NEW config, config.lookback \in Int, config.minimum \in Nat,
         NEW b \in GapsOf(bars, config)
  PROVE  LET g == GapAt(bars, b, config)
         IN  /\ g.gap.side \in Directions /\ b \in GapMiddles(bars, config, g.gap.side)
             /\ [side |-> g.gap.side, current_status |-> g.status] = TrueGap(bars, b, g.gap.side)
             /\ g.status = "fully_filled" <=>
                  \E r \in g.interactions : r.kind = "fully_filled_event"
             /\ g.status = "partially_filled" =>
                  \E r \in g.interactions : r.kind = "partial_fill_event"
<1> DEFINE g == GapAt(bars, b, config)
           gap == g.gap
           events == {[candle |-> i, kind |-> GapEvent(bars[i], gap, config)] : i \in After(bars, b)}
           kinds == {e.kind : e \in events}
           first == bars[b - 1]
           third == bars[b + 1]
<1>1. /\ Len(bars) \in Nat /\ b \in 2..(Len(bars) - 1) /\ b > Len(bars) - config.lookback
      /\ b - 1 \in 1..Len(bars) /\ b + 1 \in 1..Len(bars)
      /\ first.high < third.low \/ first.low > third.high
      /\ gap.upper - gap.lower >= config.minimum
  BY DEF GapsOf, GapWindow, IsGap, Priced
<1>2. /\ first.high \in Int /\ first.low \in Int /\ first.low <= first.high
      /\ third.high \in Int /\ third.low \in Int /\ third.low <= third.high
  BY <1>1, BodiesAreInside
<1>3. /\ first.high < third.low =>
            /\ gap.side = "bullish" /\ gap.lower = first.high /\ gap.upper = third.low
      /\ ~(first.high < third.low) =>
            /\ gap.side = "bearish" /\ gap.lower = third.high /\ gap.upper = first.low
      /\ g.interactions = {e \in events : e.kind # "none"}
      /\ g.status = IF "fully_filled_event" \in kinds THEN "fully_filled"
                    ELSE IF "partial_fill_event" \in kinds THEN "partially_filled" ELSE "open"
  BY DEF GapAt, After
<1>4. \A i \in After(bars, b) :
        /\ GapEvent(bars[i], gap, config) = "fully_filled_event" <=> Filled(bars, b, gap.side, i)
        /\ GapEvent(bars[i], gap, config) = "partial_fill_event" <=>
              ~Filled(bars, b, gap.side, i) /\ Entered(bars, b, gap.side, i)
  BY <1>1, GapEventIs
<1>5. gap.side \in Directions
  BY <1>3 DEF Directions
<1>6. b \in GapMiddles(bars, config, gap.side)
  <2> HIDE DEF gap, g
  <2> DEFINE width == IF gap.side = "bullish" THEN third.low - first.high ELSE first.low - third.high
  <2>1. width > 0 /\ width >= config.minimum
    <3> HIDE DEF first, third
    <3>1. CASE first.high < third.low
      BY <1>1, <1>2, <1>3, <3>1
    <3>2. CASE ~(first.high < third.low)
      BY <1>1, <1>2, <1>3, <3>2
    <3> QED
      BY <3>1, <3>2
  <2> QED
    BY <1>1, <2>1 DEF GapMiddles
<1> HIDE DEF g, first, third
<1>7. \A kind : kind \in kinds <=> \E i \in After(bars, b) : GapEvent(bars[i], gap, config) = kind
  <2> HIDE DEF gap
  <2>1. \A i \in After(bars, b) : GapEvent(bars[i], gap, config) \in kinds
    <3> TAKE i \in After(bars, b)
    <3>1. [candle |-> i, kind |-> GapEvent(bars[i], gap, config)] \in events
      OBVIOUS
    <3> HIDE DEF events
    <3> QED
      BY <3>1
  <2>2. \A kind \in kinds : \E i \in After(bars, b) : GapEvent(bars[i], gap, config) = kind
    OBVIOUS
  <2> QED
    BY <2>1, <2>2
<1>8. \A kind : kind \in kinds => kind = "none" \/ \E r \in g.interactions : r.kind = kind
  BY <1>3
<1>9. \A r \in g.interactions : r.kind \in kinds
  BY <1>3
<1> HIDE DEF kinds, events
<1>10. [side |-> gap.side, current_status |-> g.status] = TrueGap(bars, b, gap.side)
  <2>1. "fully_filled_event" \in kinds <=> \E i \in After(bars, b) : Filled(bars, b, gap.side, i)
    BY <1>4, <1>7
  <2>2. "fully_filled_event" \notin kinds =>
          ("partial_fill_event" \in kinds <=> \E i \in After(bars, b) : Entered(bars, b, gap.side, i))
    BY <1>4, <1>7, <2>1
  <2> HIDE DEF gap
  <2> QED
    BY <1>3, <2>1, <2>2 DEF TrueGap
<1>11. /\ g.status = "fully_filled" <=> \E r \in g.interactions : r.kind = "fully_filled_event"
       /\ g.status = "partially_filled" => \E r \in g.interactions : r.kind = "partial_fill_event"
  <2>1. g.status = "fully_filled" <=> "fully_filled_event" \in kinds
    BY <1>3
  <2>2. g.status = "partially_filled" => "partial_fill_event" \in kinds
    BY <1>3
  <2>3. "fully_filled_event" \in kinds <=> \E r \in g.interactions : r.kind = "fully_filled_event"
    BY <1>8, <1>9
  <2>4. "partial_fill_event" \in kinds => \E r \in g.interactions : r.kind = "partial_fill_event"
    BY <1>8
  <2> QED
    BY <2>1, <2>2, <2>3, <2>4
<1> QED
  BY <1>5, <1>6, <1>10, <1>11 DEF g, gap

\* A gap that is there is found.
LEMMA GapsAreFound ==
  ASSUME NEW bars, Priced(bars), NEW config, config.lookback \in Int, config.minimum \in Nat,
         NEW side \in Directions, NEW b \in GapMiddles(bars, config, side)
  PROVE  b \in GapsOf(bars, config) /\ GapAt(bars, b, config).gap.side = side
<1> DEFINE gap == GapAt(bars, b, config).gap
           first == bars[b - 1]
           third == bars[b + 1]
<1>1. /\ Len(bars) \in Nat /\ b \in 2..(Len(bars) - 1) /\ b > Len(bars) - config.lookback
      /\ b - 1 \in 1..Len(bars) /\ b + 1 \in 1..Len(bars)
      /\ side = "bullish" => /\ third.low - first.high > 0
                             /\ third.low - first.high >= config.minimum
      /\ side # "bullish" => /\ first.low - third.high > 0
                             /\ first.low - third.high >= config.minimum
  BY DEF GapMiddles, Priced
<1>2. /\ first.high \in Int /\ first.low \in Int /\ first.low <= first.high
      /\ third.high \in Int /\ third.low \in Int /\ third.low <= third.high
  BY <1>1, BodiesAreInside
<1>3. /\ first.high < third.low =>
            /\ gap.side = "bullish" /\ gap.lower = first.high /\ gap.upper = third.low
      /\ ~(first.high < third.low) =>
            /\ gap.side = "bearish" /\ gap.lower = third.high /\ gap.upper = first.low
  BY DEF GapAt
<1> HIDE DEF gap
<1>4. side = "bullish" <=> first.high < third.low
  BY <1>1, <1>2
<1>5. gap.side = side
  BY <1>3, <1>4 DEF Directions
<1>6. /\ first.high < third.low \/ first.low > third.high
      /\ gap.upper - gap.lower >= config.minimum
  BY <1>1, <1>2, <1>3, <1>4
<1> QED
  BY <1>1, <1>5, <1>6 DEF gap, GapsOf, GapWindow, IsGap

\* What is told of the gaps is true of them, and told in full while nothing is left out.
THEOREM GapsAreTrue ==
  ASSUME NEW tf, Duration[tf] \in {1, 2}, NEW bars, History(bars, tf), Priced(bars),
         NEW config, config.lookback \in Int, config.minimum \in Nat
  PROVE  LET told == Gaps(bars, config)
             values == {[side |-> g.gap.side, current_status |-> g.status] : g \in told.emitted}
             facts == GapFacts(bars, tf, told)
             Seen(status) == \E v \in TrueGaps(bars, config) : v.current_status = status
             Tells(family) == \E f \in facts : f.family = family
         IN  /\ values \subseteq TrueGaps(bars, config)
             /\ told.omitted = 0 => values = TrueGaps(bars, config)
             /\ facts # {} => TrueGaps(bars, config) # {}
             /\ Tells("fvg_fully_filled") => Seen("fully_filled")
             /\ told.omitted = 0 /\ TrueGaps(bars, config) # {} => Tells("fvg_created")
             /\ told.omitted = 0 /\ Seen("fully_filled") => Tells("fvg_fully_filled")
             /\ told.omitted = 0 /\ Seen("partially_filled") => Tells("fvg_partial_fill")
<1> DEFINE told == Gaps(bars, config)
           Value(b) == [side |-> GapAt(bars, b, config).gap.side,
                        current_status |-> GapAt(bars, b, config).status]
           values == {[side |-> g.gap.side, current_status |-> g.status] : g \in told.emitted}
           facts == GapFacts(bars, tf, told)
           all == GapsOf(bars, config)
           true == TrueGaps(bars, config)
<1>1. Len(bars) \in Nat
  BY DEF History
<1>2. \A b \in all : Value(b) \in true
  <2> TAKE b \in all
  <2>1. /\ GapAt(bars, b, config).gap.side \in Directions
        /\ b \in GapMiddles(bars, config, GapAt(bars, b, config).gap.side)
        /\ Value(b) = TrueGap(bars, b, GapAt(bars, b, config).gap.side)
    BY GapsAreThere
  <2> QED
    BY <2>1 DEF TrueGaps
<1>3. \A v \in true : \E b \in all : v = Value(b)
  <2> TAKE v \in true
  <2>4. PICK side \in Directions : \E b \in GapMiddles(bars, config, side) : v = TrueGap(bars, b, side)
    BY DEF TrueGaps
  <2>1. PICK b \in GapMiddles(bars, config, side) : v = TrueGap(bars, b, side)
    BY <2>4
  <2>2. b \in all /\ GapAt(bars, b, config).gap.side = side
    BY <2>1, GapsAreFound
  <2>3. Value(b) = TrueGap(bars, b, side)
    BY <2>2, GapsAreThere
  <2> QED
    BY <2>1, <2>2, <2>3
<1>4. /\ FoundGaps(bars, config) = {GapAt(bars, b, config) : b \in all}
      /\ told.emitted \subseteq FoundGaps(bars, config)
      /\ told.omitted = Cardinality(FoundGaps(bars, config) \ told.emitted)
  <2>1. FoundGaps(bars, config) = {GapAt(bars, b, config) : b \in all}
    <3>1. GapCandidates(bars, config) = GapWindow(bars, config)
      BY <1>1, GapWindowIs
    <3> QED
      BY <3>1 DEF FoundGaps, GapsOf, IsGap
  <2> QED
    BY <2>1 DEF Gaps
<1>5. told.omitted = 0 => told.emitted = FoundGaps(bars, config)
  <2>1. IsFiniteSet(FoundGaps(bars, config))
    <3>1. IsFiniteSet(1..Len(bars))
      BY <1>1, FS_Interval
    <3>2. all \subseteq 1..Len(bars)
      BY <1>1 DEF GapsOf, GapWindow
    <3>3. IsFiniteSet(all)
      BY <3>1, <3>2, FS_Subset
    <3> DEFINE f == [b \in all |-> GapAt(bars, b, config)]
    <3>4. \A y \in FoundGaps(bars, config) : \E x \in all : y = f[x]
      BY <1>4
    <3> HIDE DEF f, all
    <3> QED
      BY <3>3, <3>4, ImagesAreFinite
  <2> HIDE DEF told
  <2>2. IsFiniteSet(FoundGaps(bars, config) \ told.emitted)
    BY <2>1, FS_Subset
  <2>3. told.omitted = 0 => FoundGaps(bars, config) \ told.emitted = {}
    BY <1>4, <2>2, FS_EmptySet
  <2> QED
    BY <1>4, <2>3
<1>6. values \subseteq true
  BY <1>2, <1>4
<1>7. told.omitted = 0 => values = true
  <2> SUFFICES ASSUME told.omitted = 0, NEW v \in true PROVE v \in values
    BY <1>6
  <2>1. PICK b \in all : v = Value(b)
    BY <1>3
  <2>2. GapAt(bars, b, config) \in told.emitted
    BY <1>4, <1>5
  <2> QED
    BY <2>1, <2>2
<1>8. ASSUME NEW f \in facts
      PROVE  /\ true # {}
             /\ f.family = "fvg_fully_filled" => \E v \in true : v.current_status = "fully_filled"
  <2>1. PICK b \in all : OfGap(f, bars, b, config, tf)
    BY GapFactsAreOfGaps DEF ToldGaps
  <2>2. Value(b) \in true
    BY <1>2
  <2>3. ASSUME f.family = "fvg_fully_filled"
        PROVE  GapAt(bars, b, config).status = "fully_filled"
    <3>1. CreatedGap(bars, b, config, tf).family = "fvg_created"
      BY DEF CreatedGap, Dated
    <3>2. PICK r \in GapAt(bars, b, config).interactions : f = VisitedGap(bars, b, config, tf, r)
      BY <2>1, <2>3, <3>1 DEF OfGap
    <3>3. f.family = GapFamily(r.kind)
      BY <3>2 DEF VisitedGap, Dated
    <3>4. r.kind \in {"fully_filled_event", "partial_fill_event", "touched_event"}
      <4> DEFINE gap == GapAt(bars, b, config).gap
                 events == {[candle |-> i, kind |-> GapEvent(bars[i], gap, config)] :
                               i \in (b + 2)..Len(bars)}
      <4>2. GapAt(bars, b, config).interactions = {e \in events : e.kind # "none"}
        BY DEF GapAt
      <4> HIDE DEF gap
      <4>1. r.kind # "none" /\ \E i : r.kind = GapEvent(bars[i], gap, config)
        BY <4>2
      <4> QED
        BY <4>1 DEF GapEvent
    <3>5. r.kind = "fully_filled_event"
      BY <2>3, <3>3, <3>4 DEF GapFamily
    <3> QED
      BY <3>5, GapsAreThere
  <2> QED
    BY <2>2, <2>3
<1>9. ASSUME told.omitted = 0, NEW v \in true
      PROVE  /\ \E f \in facts : f.family = "fvg_created"
             /\ v.current_status = "fully_filled" => \E f \in facts : f.family = "fvg_fully_filled"
             /\ v.current_status = "partially_filled" => \E f \in facts : f.family = "fvg_partial_fill"
  <2>1. PICK b \in all : v = Value(b)
    BY <1>3
  <2>2. \A f : OfGap(f, bars, b, config, tf) => f \in facts
    BY <1>9, GapFactsAreOfGaps DEF ToldGaps
  <2>3. CreatedGap(bars, b, config, tf) \in facts /\ CreatedGap(bars, b, config, tf).family = "fvg_created"
    BY <2>2 DEF OfGap, CreatedGap, Dated
  <2>4. \A r \in GapAt(bars, b, config).interactions :
          /\ VisitedGap(bars, b, config, tf, r) \in facts
          /\ VisitedGap(bars, b, config, tf, r).family = GapFamily(r.kind)
    BY <2>2 DEF OfGap, VisitedGap, Dated
  <2>5. /\ v.current_status = "fully_filled" =>
              \E r \in GapAt(bars, b, config).interactions : r.kind = "fully_filled_event"
        /\ v.current_status = "partially_filled" =>
              \E r \in GapAt(bars, b, config).interactions : r.kind = "partial_fill_event"
    BY <2>1, GapsAreThere
  <2>6. GapFamily("fully_filled_event") = "fvg_fully_filled" /\ GapFamily("partial_fill_event") = "fvg_partial_fill"
    BY DEF GapFamily
  <2> HIDE DEF facts, true
  <2> QED
    BY <2>3, <2>4, <2>5, <2>6
<1> HIDE DEF facts, true, values, told
<1>10. /\ facts # {} => true # {}
       /\ (\E f \in facts : f.family = "fvg_fully_filled") =>
             \E v \in true : v.current_status = "fully_filled"
  BY <1>8
<1>11. told.omitted = 0 =>
         /\ true # {} => \E f \in facts : f.family = "fvg_created"
         /\ (\E v \in true : v.current_status = "fully_filled") =>
               \E f \in facts : f.family = "fvg_fully_filled"
         /\ (\E v \in true : v.current_status = "partially_filled") =>
               \E f \in facts : f.family = "fvg_partial_fill"
  BY <1>9
<1> QED
  BY <1>6, <1>7, <1>10, <1>11 DEF facts, true, values, told

-----------------------------------------------------------------------------
(* The moves told are the moves of the market.                             *)

\* The two values in the middle are the least of which half of all are no greater,
\* and the least of which more than half are.
LEMMA MedianIs ==
  ASSUME NEW W, IsFiniteSet(W), W # {}, NEW r \in [W -> Int]
  PROVE  LET n == Cardinality(W)
             Reached(size) == {r[k] : k \in {m \in W : Cardinality({j \in W : r[j] <= r[m]}) >= size}}
             middles == {r[k] : k \in {m \in W :
                            /\ 2 * Cardinality({j \in W : r[j] < r[m]}) <= n
                            /\ 2 * Cardinality({j \in W : r[j] > r[m]}) <= n}}
         IN  /\ Min(Reached((n + 1) \div 2)) = Min(middles)
             /\ Min(Reached((n \div 2) + 1)) = Max(middles)
<1> DEFINE n == Cardinality(W)
           AtMost(m) == {j \in W : r[j] <= r[m]}
           Less(m) == {j \in W : r[j] < r[m]}
           More(m) == {j \in W : r[j] > r[m]}
           Reached(size) == {r[k] : k \in {m \in W : Cardinality(AtMost(m)) >= size}}
           middle == {m \in W : 2 * Cardinality(Less(m)) <= n /\ 2 * Cardinality(More(m)) <= n}
           middles == {r[k] : k \in middle}
<1>1. n \in Nat /\ n > 0
  BY FS_CardinalityType, FS_EmptySet
<1>2. ASSUME NEW m \in W
      PROVE  /\ Cardinality(AtMost(m)) \in Nat /\ Cardinality(More(m)) \in Nat
             /\ Cardinality(Less(m)) \in Nat
             /\ n = Cardinality(AtMost(m)) + Cardinality(More(m))
  <2>0. \A j \in W : r[j] \in Int
    OBVIOUS
  <2>1. W = AtMost(m) \cup More(m) /\ AtMost(m) \cap More(m) = {}
    BY <2>0
  <2>2. Less(m) \in SUBSET W
    OBVIOUS
  <2> HIDE DEF AtMost, More, Less
  <2>3. Cardinality(Less(m)) \in Nat
    BY <2>2, FS_Subset, FS_CardinalityType
  <2> QED
    BY <2>1, <2>3, PartsAddUp
<1>3. ASSUME NEW m \in W, NEW k \in W, r[m] < r[k], \A j \in W : r[j] < r[k] => r[j] <= r[m]
      PROVE  n = Cardinality(Less(k)) + Cardinality(More(m))
  <2>0. \A j \in W : r[j] \in Int
    OBVIOUS
  <2>1. W = Less(k) \cup More(m) /\ Less(k) \cap More(m) = {}
    BY <1>3, <2>0
  <2> HIDE DEF More, Less
  <2> QED
    BY <2>1, PartsAddUp
<1>4. ASSUME NEW k \in W, Less(k) # {}
      PROVE  \E m \in W : r[m] < r[k] /\ \A j \in W : r[j] < r[k] => r[j] <= r[m]
  <2> DEFINE some == Less(k)
             s == [j \in some |-> r[j]]
  <2>1. IsFiniteSet(some) /\ s \in [some -> Int]
    <3>1. some \in SUBSET W
      OBVIOUS
    <3>2. s \in [some -> Int]
      OBVIOUS
    <3> QED
      BY <3>1, <3>2, FS_Subset
  <2>2. \A j \in some : s[j] = r[j]
    OBVIOUS
  <2> HIDE DEF s, some
  <2>4. some # {}
    BY <1>4 DEF some
  <2>3. PICK m \in some : \A j \in some : s[j] <= s[m]
    BY <2>1, <2>4, GreatestIsThere
  <2> QED
    BY <2>2, <2>3 DEF some
<1>5. ASSUME NEW size \in Int, size <= n
      PROVE  \E m \in W : /\ Cardinality(AtMost(m)) >= size
                          /\ \A k \in W : Cardinality(AtMost(k)) >= size => r[m] <= r[k]
  <2> DEFINE some == {m \in W : Cardinality(AtMost(m)) >= size}
             s == [j \in some |-> r[j]]
  <2>1. IsFiniteSet(some) /\ s \in [some -> Int]
    <3>1. some \in SUBSET W
      OBVIOUS
    <3>2. s \in [some -> Int]
      OBVIOUS
    <3> QED
      BY <3>1, <3>2, FS_Subset
  <2>2. \A j \in some : s[j] = r[j]
    OBVIOUS
  <2>3. some # {}
    <3>1. PICK m \in W : \A k \in W : r[k] <= r[m]
      BY GreatestIsThere
    <3>2. AtMost(m) = W
      BY <3>1
    <3>3. Cardinality(AtMost(m)) >= size
      BY <3>2, <1>5
    <3> QED
      BY <3>3
  <2> HIDE DEF s
  <2>4. PICK m \in some : \A j \in some : s[m] <= s[j]
    BY <2>1, <2>3, LeastIsThere
  <2> HIDE DEF AtMost
  <2> QED
    BY <2>2, <2>4
<1> HIDE DEF AtMost
<1>6. PICK a \in W : /\ Cardinality(AtMost(a)) >= (n + 1) \div 2
                     /\ \A k \in W : Cardinality(AtMost(k)) >= (n + 1) \div 2 => r[a] <= r[k]
  BY <1>1, <1>5
<1>7. PICK b \in W : /\ Cardinality(AtMost(b)) >= (n \div 2) + 1
                     /\ \A k \in W : Cardinality(AtMost(k)) >= (n \div 2) + 1 => r[b] <= r[k]
  <2>1. (n \div 2) + 1 <= n
    BY <1>1
  <2> QED
    BY <1>1, <1>5, <2>1
<1>8. Min(Reached((n + 1) \div 2)) = r[a] /\ Min(Reached((n \div 2) + 1)) = r[b]
  <2>1. ASSUME NEW size PROVE Reached(size) \subseteq Int
    OBVIOUS
  <2>2. r[a] \in Reached((n + 1) \div 2) /\ \A y \in Reached((n + 1) \div 2) : r[a] <= y
    BY <1>6
  <2>3. r[b] \in Reached((n \div 2) + 1) /\ \A y \in Reached((n \div 2) + 1) : r[b] <= y
    BY <1>7
  <2> HIDE DEF Reached
  <2> QED
    BY <2>1, <2>2, <2>3, MinIs
<1>9. ASSUME NEW m \in W
      PROVE  /\ Cardinality(AtMost(m)) >= (n + 1) \div 2 <=> 2 * Cardinality(More(m)) <= n
             /\ Cardinality(AtMost(m)) >= (n \div 2) + 1 <=> 2 * Cardinality(More(m)) < n
  <2> DEFINE x == Cardinality(AtMost(m))
             y == Cardinality(More(m))
  <2>1. x \in Nat /\ y \in Nat /\ n \in Nat /\ n = x + y
    BY <1>1, <1>2
  <2> HIDE DEF x, y, n
  <2>2. x >= (n + 1) \div 2 <=> 2 * y <= n
    BY <2>1
  <2>3. x >= (n \div 2) + 1 <=> 2 * y < n
    BY <2>1
  <2> QED
    BY <2>2, <2>3 DEF x, y
<1>10. ASSUME NEW k \in W
       PROVE  /\ k = a => 2 * Cardinality(Less(k)) <= n
              /\ k = b => 2 * Cardinality(Less(k)) <= n
  <2>1. CASE Less(k) = {}
    <3>1. Cardinality(Less(k)) = 0
      BY <2>1, FS_EmptySet
    <3> QED
      BY <3>1, <1>1
  <2>2. CASE Less(k) # {}
    <3>1. PICK m \in W : r[m] < r[k] /\ \A j \in W : r[j] < r[k] => r[j] <= r[m]
      BY <2>2, <1>4
    <3>2. n = Cardinality(Less(k)) + Cardinality(More(m))
      BY <3>1, <1>3
    <3>0. r[m] \in Int /\ r[k] \in Int
      OBVIOUS
    <3>3. ~(r[k] <= r[m])
      BY <3>0, <3>1
    <3>4. k = a => 2 * Cardinality(More(m)) > n
      <4>1. Cardinality(More(m)) \in Nat /\ n \in Nat
        BY <1>1, <1>2
      <4> HIDE DEF More, n
      <4> SUFFICES ASSUME k = a PROVE ~(2 * Cardinality(More(m)) <= n)
        BY <4>1
      <4> QED
        BY <3>3, <1>6, <1>9
    <3>5. k = b => 2 * Cardinality(More(m)) >= n
      <4>1. Cardinality(More(m)) \in Nat /\ n \in Nat
        BY <1>1, <1>2
      <4> HIDE DEF More, n
      <4> SUFFICES ASSUME k = b PROVE ~(2 * Cardinality(More(m)) < n)
        BY <4>1
      <4> QED
        BY <3>3, <1>7, <1>9
    <3>6. Cardinality(Less(k)) \in Nat /\ Cardinality(More(m)) \in Nat
      BY <1>2
    <3> HIDE DEF Less, More, n
    <3> QED
      BY <1>1, <3>2, <3>4, <3>5, <3>6
  <2> QED
    BY <2>1, <2>2
<1>11. a \in middle /\ b \in middle
  <2>1. 2 * Cardinality(More(a)) <= n
    BY <1>6, <1>9
  <2>2. 2 * Cardinality(More(b)) < n
    BY <1>7, <1>9
  <2>4. Cardinality(More(b)) \in Nat /\ n \in Nat
    BY <1>1, <1>2
  <2> HIDE DEF Less, More, n
  <2>3. 2 * Cardinality(More(b)) <= n
    BY <2>2, <2>4
  <2> QED
    BY <1>10, <2>1, <2>3
<1>12. \A k \in middle : r[a] <= r[k]
  BY <1>6, <1>9
<1>13. ASSUME NEW k \in middle
       PROVE  r[k] <= r[b]
  <2> SUFFICES ASSUME ~(r[k] <= r[b]) PROVE FALSE
    OBVIOUS
  <2>0. \A j \in W : r[j] \in Int
    OBVIOUS
  <2>1. r[b] < r[k]
    BY <2>0
  <2>2. AtMost(b) \in SUBSET Less(k)
    BY <2>0, <2>1 DEF AtMost
  <2>3. Less(k) \in SUBSET W
    OBVIOUS
  <2> HIDE DEF Less
  <2>4. Cardinality(AtMost(b)) <= Cardinality(Less(k))
    BY <2>2, <2>3, FS_Subset
  <2>5. 2 * Cardinality(Less(k)) <= n /\ Cardinality(AtMost(b)) >= (n \div 2) + 1
    BY <1>7
  <2>6. Cardinality(AtMost(b)) \in Nat /\ Cardinality(Less(k)) \in Nat
    BY <1>2
  <2> HIDE DEF n
  <2> QED
    BY <1>1, <2>4, <2>5, <2>6
<1>14. Min(middles) = r[a] /\ Max(middles) = r[b]
  <2>1. middles \subseteq Int
    OBVIOUS
  <2>2. r[a] \in middles /\ r[b] \in middles
    BY <1>11
  <2>3. \A y \in middles : r[a] <= y /\ y <= r[b]
    BY <1>12, <1>13
  <2> HIDE DEF middles
  <2> QED
    BY <2>1, <2>2, <2>3, MinIs, MaxIs
<1> QED
  BY <1>8, <1>14 DEF AtMost
\* A true range is a number.
LEMMA TrueRangeIsANumber ==
  ASSUME NEW bars, Priced(bars), NEW i \in 1..Len(bars)
  PROVE  TrueRange(bars, i) \in Int
<1> DEFINE bar == bars[i]
           first == bar.high - bar.low
           second == Distance(bar.high, bars[i - 1].close)
           third == Distance(bar.low, bars[i - 1].close)
<1>1. /\ bar.high \in Int /\ bar.low \in Int /\ Len(bars) \in Nat
  BY BodiesAreInside DEF Priced
<1>2. CASE i = 1
  <2>1. TrueRange(bars, i) = Max({first})
    BY <1>2 DEF TrueRange
  <2>2. first \in Int
    BY <1>1
  <2> HIDE DEF first
  <2> QED
    BY <2>1, <2>2, MaxIs
<1>3. CASE i # 1
  <2>1. i - 1 \in 1..Len(bars)
    BY <1>1, <1>3
  <2>2. bars[i - 1].close \in Int
    BY <2>1, BodiesAreInside
  <2>3. first \in Int /\ second \in Int /\ third \in Int
    BY <1>1, <2>2 DEF Distance
  <2>4. TrueRange(bars, i) = Max({first} \cup {second, third})
    BY <1>3 DEF TrueRange
  <2> DEFINE all == {first} \cup {second, third}
  <2> HIDE DEF first, second, third
  <2>5. all \subseteq Int
    BY <2>3
  <2>6. \E m \in all : \A y \in all : y <= m
    BY <2>3
  <2> HIDE DEF all
  <2>7. Max(all) \in Int
    BY <2>5, <2>6, MaxIs
  <2> QED
    BY <2>4, <2>7 DEF all
<1> QED
  BY <1>2, <1>3

\* The baseline of a candle is the median of the window before it.
LEMMA BaselineIsMedian ==
  ASSUME NEW bars, Priced(bars), NEW i \in 1..Len(bars), NEW window \in Nat,
         window > 0, window <= i - 1
  PROVE  Baseline(bars, i, window) = TwiceMedian(bars, (i - window)..(i - 1))
<1> DEFINE before == (i - window)..(i - 1)
           r == [k \in before |-> TrueRange(bars, k)]
           n == Cardinality(before)
           AtMost(m) == {j \in before : TrueRange(bars, j) <= TrueRange(bars, m)}
           Less(m) == {j \in before : TrueRange(bars, j) < TrueRange(bars, m)}
           More(m) == {j \in before : TrueRange(bars, j) > TrueRange(bars, m)}
           Reached(size) ==
             {TrueRange(bars, k) : k \in {m \in before : Cardinality(AtMost(m)) >= size}}
           middle == {m \in before : 2 * Cardinality(Less(m)) <= n /\ 2 * Cardinality(More(m)) <= n}
           middles == {TrueRange(bars, k) : k \in middle}
<1>1. Len(bars) \in Nat /\ before \subseteq 1..Len(bars) /\ before # {}
  <2>1. Len(bars) \in Nat
    BY DEF Priced
  <2>2. i - 1 \in before
    OBVIOUS
  <2>3. \A k \in before : k \in 1..Len(bars)
    BY <2>1
  <2> HIDE DEF before
  <2> QED
    BY <2>1, <2>2, <2>3
<1>2. IsFiniteSet(before) /\ n = window
  BY FS_Interval
<1>3. r \in [before -> Int]
  BY <1>1, TrueRangeIsANumber
<1>4. Baseline(bars, i, window) = Min(Reached((n + 1) \div 2)) + Min(Reached((n \div 2) + 1))
  BY <1>2 DEF Baseline
<1>5. Middles(bars, before) = middles
  BY DEF Middles
<1> HIDE DEF n
<1>6. \A k \in before : r[k] = TrueRange(bars, k)
  OBVIOUS
<1> HIDE DEF r, before
<1> DEFINE AtMostR(m) == {j \in before : r[j] <= r[m]}
           LessR(m) == {j \in before : r[j] < r[m]}
           MoreR(m) == {j \in before : r[j] > r[m]}
           ReachedR(size) == {r[k] : k \in {m \in before : Cardinality(AtMostR(m)) >= size}}
           middleR == {m \in before : 2 * Cardinality(LessR(m)) <= n /\ 2 * Cardinality(MoreR(m)) <= n}
           middlesR == {r[k] : k \in middleR}
<1>7. Min(ReachedR((n + 1) \div 2)) = Min(middlesR) /\ Min(ReachedR((n \div 2) + 1)) = Max(middlesR)
  BY <1>1, <1>2, <1>3, MedianIs DEF n
<1>8. \A m \in before : AtMostR(m) = AtMost(m) /\ LessR(m) = Less(m) /\ MoreR(m) = More(m)
  BY <1>6
<1> HIDE DEF AtMostR, LessR, MoreR, AtMost, Less, More
<1>9. middleR = middle
  BY <1>8
<1>10. \A size : ReachedR(size) = Reached(size)
  BY <1>6, <1>8
<1>11. middlesR = middles
  <2> HIDE DEF middle, middleR
  <2>1. middle \subseteq before
    BY DEF middle
  <2> QED
    BY <1>6, <1>9, <2>1
<1> HIDE DEF ReachedR, Reached, middlesR, middles
<1> QED
  BY <1>4, <1>5, <1>7, <1>10, <1>11 DEF TwiceMedian, before

\* The settings a search for displacements needs.
MoveSettings(config) ==
  /\ config.baseline \in Nat /\ config.baseline > 0 /\ config.lookback \in Int
  /\ config.body \in Int /\ config.bullish \in Int /\ config.bearish \in Int
  /\ config.expansion \in Int

\* A candle is found to displace exactly when it is a move, in the direction of its body.
LEMMA DisplacingIsMoving ==
  ASSUME NEW bars, Priced(bars), NEW config, MoveSettings(config), NEW lookback \in Int,
         NEW i \in 1..Len(bars), NEW direction \in Directions
  PROVE  i \in Moves(bars, config, lookback, direction)
           <=> i \in Window(bars, lookback) /\ Displaces(bars, i, config)
                /\ Direction(bars[i]) = direction
<1> DEFINE bar == bars[i]
           spread == bar.high - bar.low
           usual == TwiceMedian(bars, (i - config.baseline)..(i - 1))
           wide == 200 * TrueRange(bars, i) >= config.expansion * usual
           full == config.body * spread
           above == config.bullish * spread
           below == config.bearish * spread
<1>1. /\ bar.open \in Int /\ bar.high \in Int /\ bar.low \in Int /\ bar.close \in Int
      /\ Len(bars) \in Nat /\ config.baseline \in Nat /\ config.baseline > 0
  BY BodiesAreInside DEF Priced, MoveSettings
<1>2. full \in Int /\ above \in Int /\ below \in Int /\ spread \in Int
  <2>1. spread \in Int
    BY <1>1
  <2>2. config.body \in Int /\ config.bullish \in Int /\ config.bearish \in Int
    BY DEF MoveSettings
  <2> HIDE DEF spread
  <2> QED
    BY <2>1, <2>2
<1>3. i > config.baseline => Baseline(bars, i, config.baseline) = usual
  <2>1. i > config.baseline => config.baseline <= i - 1
    BY <1>1
  <2> QED
    BY <1>1, <2>1, BaselineIsMedian
<1>4. BaselineState(bars, i, config) = "available" <=> i > config.baseline /\ usual # 0
  <2>1. i - 1 < config.baseline <=> ~(i > config.baseline)
    BY <1>1
  <2> HIDE DEF usual
  <2> QED
    BY <1>3, <2>1 DEF BaselineState
<1>5. i \in Window(bars, lookback) <=> i > Len(bars) - lookback
  BY DEF Window
<1>6. i \in DOMAIN bars
  BY <1>1 DEF Priced
<1>7. i \in Moves(bars, config, lookback, direction)
        <=> /\ i > Len(bars) - lookback /\ i > config.baseline /\ spread > 0
            /\ IF direction = "bullish"
                 THEN /\ 100 * (bar.close - bar.open) >= full
                      /\ bar.close > bar.open
                      /\ 100 * (bar.close - bar.low) >= above
                 ELSE /\ 100 * (bar.open - bar.close) >= full
                      /\ bar.open > bar.close
                      /\ 100 * (bar.close - bar.low) <= below
            /\ usual # 0 /\ wide
  BY <1>6 DEF Moves
<1>8. Displaces(bars, i, config)
        <=> /\ Direction(bar) # "neutral"
            /\ spread > 0
            /\ BaselineState(bars, i, config) = "available"
            /\ Distance(bar.close, bar.open) * 100 >= full
            /\ IF Direction(bar) = "bullish"
                 THEN (bar.close - bar.low) * 100 >= above
                 ELSE (bar.close - bar.low) * 100 <= below
            /\ 200 * TrueRange(bars, i) >= config.expansion * Baseline(bars, i, config.baseline)
  BY DEF Displaces
<1> HIDE DEF usual
<1>9. Displaces(bars, i, config)
        <=> /\ Direction(bar) # "neutral"
            /\ spread > 0
            /\ i > config.baseline /\ usual # 0
            /\ Distance(bar.close, bar.open) * 100 >= full
            /\ IF Direction(bar) = "bullish"
                 THEN (bar.close - bar.low) * 100 >= above
                 ELSE (bar.close - bar.low) * 100 <= below
            /\ wide
  BY <1>3, <1>4, <1>8
<1> HIDE DEF full, above, below, wide, spread
<1>10. CASE direction = "bullish"
  <2>1. Direction(bar) = direction <=> bar.close > bar.open
    BY <1>1, <1>10 DEF Direction
  <2>2. bar.close > bar.open => Distance(bar.close, bar.open) = bar.close - bar.open
    BY <1>1 DEF Distance
  <2> HIDE DEF bar
  <2>3. 100 * (bar.close - bar.low) >= above <=> (bar.close - bar.low) * 100 >= above
    BY <1>1, <1>2
  <2>4. 100 * (bar.close - bar.open) >= full <=> (bar.close - bar.open) * 100 >= full
    BY <1>1, <1>2
  <2>5. Direction(bar) = direction => Direction(bar) = "bullish" /\ Direction(bar) # "neutral"
    BY <1>10
  <2> QED
    BY <1>5, <1>7, <1>9, <1>10, <2>1, <2>2, <2>3, <2>4, <2>5 DEF bar
<1>11. CASE direction = "bearish"
  <2>1. Direction(bar) = direction <=> bar.open > bar.close
    BY <1>1, <1>11 DEF Direction
  <2>2. bar.open > bar.close => Distance(bar.close, bar.open) = bar.open - bar.close
    BY <1>1 DEF Distance
  <2> HIDE DEF bar
  <2>3. 100 * (bar.close - bar.low) <= below <=> (bar.close - bar.low) * 100 <= below
    BY <1>1, <1>2
  <2>4. 100 * (bar.open - bar.close) >= full <=> (bar.open - bar.close) * 100 >= full
    BY <1>1, <1>2
  <2>5. /\ Direction(bar) = direction => Direction(bar) # "bullish" /\ Direction(bar) # "neutral"
        /\ direction # "bullish"
    BY <1>11
  <2> QED
    BY <1>5, <1>7, <1>9, <1>11, <2>1, <2>2, <2>3, <2>4, <2>5 DEF bar
<1> QED
  BY <1>10, <1>11 DEF Directions

\* The moves of the configured window.
MovesIn(bars, config, direction) == Moves(bars, config, config.lookback, direction)

\* The displacements told are the moves of the market, with their directions.
THEOREM MovesAreTrue ==
  ASSUME NEW tf, Duration[tf] \in {1, 2}, NEW bars, History(bars, tf), Priced(bars),
         NEW config, MoveSettings(config)
  PROVE  LET moves == Displacements(bars, config).events
             facts == DisplacementFacts(bars, tf, Displacements(bars, config))
             There(direction) == MovesIn(bars, config, direction) # {}
         IN  /\ \A d \in moves : d.direction \in Directions /\ There(d.direction)
             /\ facts # {} => \E direction \in Directions : There(direction)
             /\ \A direction \in Directions : There(direction) =>
                   /\ \E d \in moves : d.direction = direction
                   /\ \E f \in facts : f.family = "displacement"
<1> DEFINE moves == Displacements(bars, config).events
           facts == ToldMoves(bars, config, tf)
           moving == MoveCandles(bars, config)
           True(direction) == MovesIn(bars, config, direction)
<1>1. Len(bars) \in Nat /\ config.lookback \in Int /\ DOMAIN bars = 1..Len(bars)
  BY DEF Priced, MoveSettings
<1>2. moves = {MoveAt(bars, i) : i \in moving}
  BY <1>1, DisplacementsAre DEF MovesOf, MoveCandles
<1>3. facts = {MoveFact(bars, tf, i) : i \in moving}
  BY <1>1, MoveFactsAre
<1>4. \A i \in moving : i \in True(Direction(bars[i])) /\ Direction(bars[i]) \in Directions
  <2> SUFFICES ASSUME NEW i \in moving
               PROVE  i \in True(Direction(bars[i])) /\ Direction(bars[i]) \in Directions
    OBVIOUS
  <2>1. i \in 1..Len(bars) /\ i \in Window(bars, config.lookback) /\ Displaces(bars, i, config)
    BY DEF MoveCandles, Window
  <2>2. Direction(bars[i]) \in Directions
    BY <2>1 DEF Displaces, Direction, Directions
  <2> QED
    BY <1>1, <2>1, <2>2, DisplacingIsMoving DEF MovesIn
<1>5. \A d \in Directions : \A i \in True(d) : i \in moving /\ Direction(bars[i]) = d
  <2> SUFFICES ASSUME NEW d \in Directions, NEW i \in True(d)
               PROVE  i \in moving /\ Direction(bars[i]) = d
    OBVIOUS
  <2>1. i \in 1..Len(bars)
    BY <1>1 DEF Moves, MovesIn
  <2> QED
    BY <1>1, <2>1, DisplacingIsMoving DEF MoveCandles, MovesIn
<1> HIDE DEF moving, True
<1>6. \A d : (\E i \in moving : Direction(bars[i]) = d) <=> d \in Directions /\ True(d) # {}
  BY <1>4, <1>5
<1>7. /\ \A d \in moves : d.direction \in Directions /\ True(d.direction) # {}
      /\ \A d \in Directions : True(d) # {} => \E m \in moves : m.direction = d
  <2>1. \A i \in moving : MoveAt(bars, i).direction = Direction(bars[i])
    BY DEF MoveAt
  <2> HIDE DEF moves
  <2> QED
    BY <1>2, <1>6, <2>1
<1>8. /\ facts # {} => \E direction \in Directions : True(direction) # {}
      /\ \A direction \in Directions :
            True(direction) # {} => \E f \in facts : f.family = "displacement"
  <2>1. \A i \in moving : MoveFact(bars, tf, i).family = "displacement"
    BY DEF MoveFact, Dated
  <2> HIDE DEF facts
  <2> QED
    BY <1>3, <1>6, <2>1
<1> HIDE DEF facts, moves
<1> QED
  BY <1>7, <1>8 DEF facts, moves, True, ToldMoves

-----------------------------------------------------------------------------
(* The blocks told are the blocks of the market.                           *)

\* The displacements that blocks start with are sought in the blocks' own window.
Moving(p) == [p.displacement EXCEPT !.lookback = p.blocks.lookback]

\* A configured search for moves and for the blocks they leave.
BlockSettings(p) ==
  /\ p.displacement \in [lookback : Int, baseline : Int, body : Int, expansion : Int,
                         bullish : Int, bearish : Int, sequence : Int]
  /\ p.displacement.baseline > 0
  /\ p.blocks.lookback \in Int /\ p.blocks.search \in Nat
  /\ p.blocks.blocks \in Nat /\ p.blocks.interactions \in Nat

\* Only the window differs.
LEMMA MovingIs ==
  ASSUME NEW p, BlockSettings(p)
  PROVE  /\ MoveSettings(Moving(p)) /\ Moving(p).lookback = p.blocks.lookback
         /\ Moving(p).baseline = p.displacement.baseline /\ Moving(p).body = p.displacement.body
         /\ Moving(p).bullish = p.displacement.bullish /\ Moving(p).bearish = p.displacement.bearish
         /\ Moving(p).expansion = p.displacement.expansion
BY DEF Moving, BlockSettings, MoveSettings

\* A move starts at the nearest opposite candle before it.
OppositeTo(bars, direction, i) ==
  IF direction = "bullish" THEN bars[i].close < bars[i].open ELSE bars[i].close > bars[i].open

LEMMA OriginIsNearest ==
  ASSUME NEW bars, Priced(bars), NEW config, config.search \in Nat,
         NEW e, e.candle \in 1..Len(bars), e.direction \in Directions, NEW j \in Int
  PROVE  Origins(bars, e, config) # {} /\ StartOf(bars, e, config) = j
           <=> /\ j \in 1..Len(bars) /\ j < e.candle /\ j >= e.candle - config.search
               /\ OppositeTo(bars, e.direction, j)
               /\ \A i \in (j + 1)..(e.candle - 1) : ~OppositeTo(bars, e.direction, i)
<1> DEFINE earliest == Max({1, e.candle - config.search})
           origins == Origins(bars, e, config)
           Opposite(i) == OppositeTo(bars, e.direction, i)
<1>1. Len(bars) \in Nat /\ e.candle \in Int /\ e.candle - config.search \in Int
  BY DEF Priced
<1>2. earliest \in Int
      /\ \A b \in Int : earliest <= b <=> 1 <= b /\ e.candle - config.search <= b
  BY <1>1, BothAtMost
<1>3. \A i \in 1..Len(bars) :
        Direction(bars[i]) = (IF e.direction = "bullish" THEN "bearish" ELSE "bullish")
          <=> Opposite(i)
  <2> SUFFICES ASSUME NEW i \in 1..Len(bars)
               PROVE  Direction(bars[i]) = (IF e.direction = "bullish" THEN "bearish" ELSE "bullish")
                        <=> Opposite(i)
    OBVIOUS
  <2>1. bars[i].open \in Int /\ bars[i].close \in Int
    BY BodiesAreInside
  <2> QED
    BY <2>1 DEF Direction, OppositeTo, Directions
<1>4. origins = {i \in earliest..(e.candle - 1) :
                   Direction(bars[i]) = IF e.direction = "bullish" THEN "bearish" ELSE "bullish"}
  BY DEF Origins
<1> HIDE DEF earliest, origins, Opposite
<1>5. \A i \in Int : i \in origins
        <=> 1 <= i /\ e.candle - config.search <= i /\ i < e.candle /\ Opposite(i)
  <2> SUFFICES ASSUME NEW i \in Int
               PROVE  i \in origins
                        <=> 1 <= i /\ e.candle - config.search <= i /\ i < e.candle /\ Opposite(i)
    OBVIOUS
  <2>1. i \in earliest..(e.candle - 1)
          <=> 1 <= i /\ e.candle - config.search <= i /\ i < e.candle
    BY <1>1, <1>2
  <2>2. 1 <= i /\ i < e.candle => i \in 1..Len(bars)
    BY <1>1
  <2> QED
    BY <1>3, <1>4, <2>1, <2>2
<1>6. origins \subseteq Int /\ \A y \in origins : y <= e.candle
  <2>1. origins \subseteq Int
    BY <1>1, <1>2, <1>4
  <2> QED
    BY <1>1, <1>5, <2>1
<1>7. ASSUME origins # {}, Max(origins) = j
      PROVE  /\ j \in 1..Len(bars) /\ j < e.candle /\ j >= e.candle - config.search
             /\ Opposite(j)
             /\ \A i \in (j + 1)..(e.candle - 1) : ~Opposite(i)
  <2>1. j \in origins /\ \A y \in origins : y <= j
    BY <1>1, <1>6, <1>7, GreatestIndex
  <2>2. 1 <= j /\ e.candle - config.search <= j /\ j < e.candle /\ Opposite(j)
    BY <1>5, <2>1
  <2>3. ASSUME NEW i \in (j + 1)..(e.candle - 1), Opposite(i)
        PROVE  FALSE
    <3>1. i \in Int /\ 1 <= i /\ e.candle - config.search <= i /\ i < e.candle /\ ~(i <= j)
      BY <1>1, <2>2
    <3> QED
      BY <1>5, <2>1, <2>3, <3>1
  <2> QED
    BY <1>1, <2>2, <2>3
<1>8. ASSUME j \in 1..Len(bars), j < e.candle, j >= e.candle - config.search, Opposite(j),
             \A i \in (j + 1)..(e.candle - 1) : ~Opposite(i)
      PROVE  origins # {} /\ Max(origins) = j
  <2>1. j \in origins
    BY <1>1, <1>5, <1>8
  <2>2. ASSUME NEW y \in origins
        PROVE  y <= j
    <3>1. y \in Int /\ y < e.candle /\ Opposite(y)
      BY <1>5, <1>6
    <3>2. ~(y \in (j + 1)..(e.candle - 1))
      BY <1>8, <3>1
    <3> QED
      BY <1>1, <3>1, <3>2
  <2> QED
    BY <1>6, <2>1, <2>2, MaxIs
<1> QED
  BY <1>7, <1>8 DEF origins, Opposite, StartOf

\* A block of the market is a move with the candle it starts at.
LEMMA BlocksAreOfMoves ==
  ASSUME NEW bars, Priced(bars), NEW p, BlockSettings(p), NEW direction \in Directions
  PROVE  \A j \in Int, m \in Int : <<j, m>> \in Blocks(bars, p, direction)
           <=> \E e \in MovesOf(bars, Moving(p)) :
                 /\ e.direction = direction /\ e.candle = m
                 /\ Origins(bars, e, p.blocks) # {} /\ StartOf(bars, e, p.blocks) = j
<1> DEFINE moves == Moves(bars, p.displacement, p.blocks.lookback, direction)
           found == MovesOf(bars, Moving(p))
<1>1. Len(bars) \in Nat /\ DOMAIN bars = 1..Len(bars)
  BY DEF Priced
<1>2. moves = Moves(bars, Moving(p), p.blocks.lookback, direction)
  BY MovingIs DEF Moves
<1>3. MoveSettings(Moving(p)) /\ p.blocks.lookback \in Int /\ p.blocks.search \in Nat
      /\ Moving(p).lookback = p.blocks.lookback
  BY MovingIs DEF BlockSettings
<1>4. ASSUME NEW j \in Int, NEW m \in Int
      PROVE  <<j, m>> \in Blocks(bars, p, direction)
               <=> /\ m \in moves /\ j \in 1..Len(bars) /\ j < m /\ j >= m - p.blocks.search
                   /\ OppositeTo(bars, direction, j)
                   /\ \A i \in (j + 1)..(m - 1) : ~OppositeTo(bars, direction, i)
  <2> HIDE DEF moves
  <2>1. <<j, m>> \in Blocks(bars, p, direction)
          <=> /\ <<j, m>> \in (DOMAIN bars) \X moves
              /\ j < m /\ j >= m - p.blocks.search
              /\ OppositeTo(bars, direction, j)
              /\ \A i \in (j + 1)..(m - 1) : ~OppositeTo(bars, direction, i)
    BY DEF Blocks, moves, OppositeTo
  <2> QED
    BY <1>1, <2>1
<1>5. ASSUME NEW m \in 1..Len(bars)
      PROVE  m \in moves <=> MoveAt(bars, m) \in found /\ Direction(bars[m]) = direction
  <2>1. m \in moves <=> m \in Window(bars, p.blocks.lookback) /\ Displaces(bars, m, Moving(p))
                          /\ Direction(bars[m]) = direction
    <3> DEFINE config == Moving(p)
    <3>1. MoveSettings(config)
      BY <1>3
    <3>2. p.blocks.lookback \in Int
      BY <1>3
    <3> HIDE DEF config, moves
    <3>3. m \in Moves(bars, config, p.blocks.lookback, direction)
            <=> m \in Window(bars, p.blocks.lookback) /\ Displaces(bars, m, config)
                 /\ Direction(bars[m]) = direction
      BY <3>1, <3>2, DisplacingIsMoving
    <3> QED
      BY <1>2, <3>3 DEF config
  <2>2. MoveAt(bars, m) \in found
          <=> m \in Window(bars, p.blocks.lookback) /\ Displaces(bars, m, Moving(p))
    <3>1. \A i \in 1..Len(bars) : MoveAt(bars, i) = MoveAt(bars, m) => i = m
      BY DEF MoveAt
    <3>2. Window(bars, p.blocks.lookback) \subseteq 1..Len(bars)
      BY DEF Window
    <3> QED
      BY <1>3, <3>1, <3>2 DEF MovesOf
  <2> HIDE DEF moves, found
  <2> QED
    BY <2>1, <2>2
<1>6. \A e \in found : e.candle \in 1..Len(bars) /\ e = MoveAt(bars, e.candle)
                       /\ e.direction = Direction(bars[e.candle])
  BY DEF MovesOf, MoveAt, Window
<1>7. moves \subseteq 1..Len(bars)
  BY <1>1 DEF Moves
<1> HIDE DEF moves, found
<1>8. ASSUME NEW j \in Int, NEW m \in Int
      PROVE  <<j, m>> \in Blocks(bars, p, direction)
               <=> \E e \in found :
                     /\ e.direction = direction /\ e.candle = m
                     /\ Origins(bars, e, p.blocks) # {} /\ StartOf(bars, e, p.blocks) = j
  <2> DEFINE nearest == /\ j \in 1..Len(bars) /\ j < m /\ j >= m - p.blocks.search
                        /\ OppositeTo(bars, direction, j)
                        /\ \A i \in (j + 1)..(m - 1) : ~OppositeTo(bars, direction, i)
  <2>1. ASSUME NEW e \in found, e.direction = direction, e.candle = m
        PROVE  Origins(bars, e, p.blocks) # {} /\ StartOf(bars, e, p.blocks) = j <=> nearest
    BY <1>3, <1>6, <2>1, OriginIsNearest
  <2>2. <<j, m>> \in Blocks(bars, p, direction) <=> m \in moves /\ nearest
    BY <1>4
  <2> HIDE DEF nearest
  <2>3. ASSUME m \in moves, nearest
        PROVE  \E e \in found :
                 /\ e.direction = direction /\ e.candle = m
                 /\ Origins(bars, e, p.blocks) # {} /\ StartOf(bars, e, p.blocks) = j
    <3>1. m \in 1..Len(bars) /\ MoveAt(bars, m) \in found /\ Direction(bars[m]) = direction
      BY <1>5, <1>7, <2>3
    <3>2. MoveAt(bars, m).direction = direction /\ MoveAt(bars, m).candle = m
      BY <3>1 DEF MoveAt
    <3> QED
      BY <2>1, <2>3, <3>1, <3>2
  <2>4. ASSUME NEW e \in found, e.direction = direction, e.candle = m,
               Origins(bars, e, p.blocks) # {}, StartOf(bars, e, p.blocks) = j
        PROVE  m \in moves /\ nearest
    BY <1>5, <1>6, <2>1, <2>4
  <2> QED
    BY <2>2, <2>3, <2>4
<1> QED
  BY <1>8 DEF found

\* Of the moves that start at one candle the first one confirms the block.
LEMMA TheFirstConfirms ==
  ASSUME NEW bars, Len(bars) \in Nat, NEW moving, NEW config,
         NEW e \in MovesOf(bars, moving), Origins(bars, e, config) # {}
  PROVE  \E first \in BlockMoves(bars, moving, config) :
            /\ first.direction = e.direction /\ first.candle <= e.candle
            /\ StartOf(bars, first, config) = StartOf(bars, e, config)
<1> DEFINE same == {other \in MovesOf(bars, moving) :
                      /\ Origins(bars, other, config) # {}
                      /\ other.direction = e.direction
                      /\ StartOf(bars, other, config) = StartOf(bars, e, config)}
           whens == {other.candle : other \in same}
<1>1. e \in same
  OBVIOUS
<1>2. \A other \in same : other.candle \in Nat
  <2>1. \A other \in MovesOf(bars, moving) : other.candle \in 1..Len(bars)
    BY MovesAreFinite
  <2> QED
    BY <2>1
<1>3. whens \subseteq Nat /\ whens # {}
  BY <1>1, <1>2
<1> HIDE DEF whens
<1>4. PICK m \in whens : \A k \in whens : m <= k
  BY <1>3, LeastIndex
<1>5. PICK first \in same : first.candle = m
  BY <1>4 DEF whens
<1>6. \A other \in same : ~(other.candle < first.candle)
  <2>1. \A other \in same : other.candle \in whens
    BY DEF whens
  <2> HIDE DEF same
  <2> QED
    BY <1>2, <1>4, <1>5, <2>1
<1>7. first \in BlockMoves(bars, moving, config)
  BY <1>6 DEF BlockMoves, Confirmed
<1>8. first.candle <= e.candle
  <2> HIDE DEF same
  <2> QED
    BY <1>1, <1>2, <1>6
<1> QED
  BY <1>7, <1>8

\* What is told of blocks is true of them, and told in full while nothing is left out.
THEOREM BlocksAreTrue ==
  ASSUME NEW tf, Duration[tf] \in {1, 2}, NEW bars, History(bars, tf), Priced(bars),
         NEW p, BlockSettings(p)
  PROVE  LET answer == AnswerOn(bars, Moving(p), p.blocks)
             facts == ToldBlocks(bars, Moving(p), p.blocks, tf)
             There(d) == Blocks(bars, p, d) # {}
             Tells(family) == \E f \in facts : f.family = family
         IN  /\ \A b \in answer.blocks : b.direction \in Directions /\ There(b.direction)
             /\ answer.truncated \in Nat /\ answer.shortened \in Nat
             /\ facts # {} => \E d \in Directions : There(d)
             /\ Tells("order_block_close_through") => \E d \in Directions : ClosedThrough(bars, p, d)
             /\ answer.truncated + answer.shortened = 0 => \A d \in Directions :
                   /\ There(d) => \E b \in answer.blocks : b.direction = d
                   /\ There(d) => Tells("order_block_created")
                   /\ ClosedThrough(bars, p, d) => Tells("order_block_close_through")
<1> DEFINE moving == Moving(p)
           config == p.blocks
           answer == AnswerOn(bars, moving, config)
           facts == ToldBlocks(bars, moving, config, tf)
           found == MovesOf(bars, moving)
           all == BlockMoves(bars, moving, config)
           Through == "order_block_close_through"
<1>1. /\ Len(bars) \in Nat /\ MoveSettings(moving) /\ moving.lookback \in Int
      /\ config.search \in Nat /\ config.interactions \in Nat
  BY MovingIs DEF Priced, BlockSettings, MoveSettings
<1>2. ASSUME NEW d \in Directions, NEW j \in Int, NEW m \in Int
      PROVE  <<j, m>> \in Blocks(bars, p, d)
               <=> \E e \in found : /\ e.direction = d /\ e.candle = m
                                     /\ Origins(bars, e, config) # {}
                                     /\ StartOf(bars, e, config) = j
  BY BlocksAreOfMoves
<1>3. \A d \in Directions : \A pair \in Blocks(bars, p, d) :
        \E j \in 1..Len(bars), m \in 1..Len(bars) : pair = <<j, m>>
  <2> SUFFICES ASSUME NEW d \in Directions, NEW pair \in Blocks(bars, p, d)
               PROVE  \E j \in 1..Len(bars), m \in 1..Len(bars) : pair = <<j, m>>
    OBVIOUS
  <2> DEFINE moves == Moves(bars, p.displacement, p.blocks.lookback, d)
  <2>1. DOMAIN bars = 1..Len(bars) /\ moves \subseteq DOMAIN bars
    BY DEF Moves, Priced
  <2>2. pair \in (DOMAIN bars) \X moves
    BY DEF Blocks
  <2> HIDE DEF moves
  <2> QED
    BY <2>1, <2>2
<1>4. \A e \in found : e.candle \in 1..Len(bars) /\ e.candle \in Int /\ e.direction \in Directions
  <2> SUFFICES ASSUME NEW e \in found
               PROVE  e.candle \in 1..Len(bars) /\ e.candle \in Int /\ e.direction \in Directions
    OBVIOUS
  <2>1. PICK i \in 1..Len(bars) : e = MoveAt(bars, i) /\ Displaces(bars, i, moving)
    BY DEF MovesOf, Window
  <2> QED
    BY <2>1 DEF MoveAt, Displaces, Direction, Directions
<1>5. \A e \in all : e \in found /\ Origins(bars, e, config) # {}
  BY DEF BlockMoves, Confirmed
<1>6. \A e \in all : /\ e.direction \in Directions /\ StartOf(bars, e, config) \in 1..(e.candle - 1)
                      /\ <<StartOf(bars, e, config), e.candle>> \in Blocks(bars, p, e.direction)
  <2> SUFFICES ASSUME NEW e \in all
               PROVE  /\ e.direction \in Directions /\ StartOf(bars, e, config) \in 1..(e.candle - 1)
                      /\ <<StartOf(bars, e, config), e.candle>> \in Blocks(bars, p, e.direction)
    OBVIOUS
  <2>0. e \in found /\ Origins(bars, e, config) # {}
    BY <1>5
  <2>1. e.direction \in Directions /\ e.candle \in 1..Len(bars) /\ Origins(bars, e, config) # {}
    <3> HIDE DEF found, all
    <3> QED
      BY <1>4, <2>0
  <2>2. StartOf(bars, e, config) \in 1..(e.candle - 1)
    BY <1>1, <2>1, MovesStartBefore
  <2>3. StartOf(bars, e, config) \in Int /\ e.candle \in Int
    BY <2>1, <2>2
  <2> HIDE DEF found, all
  <2> QED
    BY <1>2, <1>5, <2>1, <2>2, <2>3
<1>7. /\ \A f \in facts : \E e \in all : OfBlock(f, bars, e, config, tf)
      /\ answer.truncated \in Nat /\ answer.shortened \in Nat
      /\ answer.truncated + answer.shortened = 0 =>
           \A e \in all : \A f : OfBlock(f, bars, e, config, tf) => f \in facts
  BY <1>1, BlockFactsAreOfBlocks
<1>8. /\ \A b \in answer.blocks : \E e \in all : b.direction = e.direction
      /\ answer.truncated = 0 => \A e \in all : \E b \in answer.blocks : b.direction = e.direction
  <2> DEFINE result == Displacements(bars, moving)
             kept == KeptBlocks(bars, result.events, config)
             cut == Confirmed(bars, result.events, config) \ kept
  <2>1. result.events = found /\ Confirmed(bars, result.events, config) = all
    BY <1>1, DisplacementsAre DEF BlockMoves
  <2>2. answer.blocks = {ToldBlock(bars, e, config) : e \in kept} /\ answer.truncated = Cardinality(cut)
    <3>1. answer = OrderBlocks(bars, result, config)
      BY DEF AnswerOn
    <3> HIDE DEF result, answer
    <3>2. /\ OrderBlocks(bars, result, config).blocks = {ToldBlock(bars, e, config) : e \in kept}
          /\ OrderBlocks(bars, result, config).truncated = Cardinality(cut)
      <4> HIDE DEF config
      <4> DEFINE other == OrderBlocks(bars, result, config)
                 some == KeptBlocks(bars, result.events, config)
                 left == Confirmed(bars, result.events, config) \ some
                 short == {e \in some : Cardinality(Visits(bars, e, config)) > config.interactions}
      <4>1. /\ other.blocks = {ToldBlock(bars, e, config) : e \in some}
            /\ other.truncated = Cardinality(left) /\ other.shortened = Cardinality(short)
        BY BlocksAre
      <4> QED
        BY <4>1
    <3> QED
      BY <3>1, <3>2
  <2>3. kept \subseteq all
    BY <2>1 DEF KeptBlocks
  <2>4. \A e : ToldBlock(bars, e, config).direction = e.direction
    BY DEF ToldBlock
  <2>5. IsFiniteSet(all)
    <3>1. all \in SUBSET found
      BY DEF BlockMoves, Confirmed
    <3>2. IsFiniteSet(found)
      BY <1>1, MovesAreFinite
    <3> HIDE DEF all, found
    <3> QED
      BY <3>1, <3>2, FS_Subset
  <2> HIDE DEF all, found, answer, result
  <2>6. cut = {} => all \subseteq kept
    BY <2>1
  <2>7. cut \in SUBSET all
    BY <2>1
  <2> HIDE DEF kept, cut
  <2>8. IsFiniteSet(cut)
    BY <2>5, <2>7, FS_Subset
  <2>9. answer.truncated = 0 => all \subseteq kept
    BY <2>2, <2>6, <2>8, FS_EmptySet
  <2> QED
    BY <2>2, <2>3, <2>4, <2>9
<1>9. ASSUME NEW e \in all, NEW i \in (e.candle + 1)..Len(bars)
      PROVE  LET bar == bars[i]
                 origin == bars[StartOf(bars, e, config)]
             IN  (IF e.direction = "bullish" THEN bar.close < origin.low ELSE bar.close > origin.high)
                   <=> BlockEvent(bar, origin, e.direction) = Through
  BY DEF BlockEvent
<1>10. ASSUME NEW f \in facts
       PROVE  /\ \E d \in Directions : Blocks(bars, p, d) # {}
              /\ f.family = Through => \E d \in Directions : ClosedThrough(bars, p, d)
  <2>1. PICK e \in all : OfBlock(f, bars, e, config, tf)
    BY <1>7
  <2>2. /\ e.direction \in Directions
        /\ <<StartOf(bars, e, config), e.candle>> \in Blocks(bars, p, e.direction)
    BY <1>6
  <2>3. ASSUME f.family = Through
        PROVE  ClosedThrough(bars, p, e.direction)
    <3>1. CreatedBlock(bars, e, config, tf).family = "order_block_created"
      BY DEF CreatedBlock, Dated
    <3>2. PICK r \in Visits(bars, e, config) : f = VisitedBlock(bars, e, config, tf, r)
      BY <2>1, <2>3, <3>1 DEF OfBlock
    <3>3. r.kind = Through
      BY <2>3, <3>2 DEF VisitedBlock, Dated
    <3>4. PICK i \in (e.candle + 1)..Len(bars) :
            r.kind = BlockEvent(bars[i], bars[StartOf(bars, e, config)], e.direction)
      BY DEF Visits
    <3>5. IF e.direction = "bullish" THEN bars[i].close < bars[StartOf(bars, e, config)].low
                                     ELSE bars[i].close > bars[StartOf(bars, e, config)].high
      BY <1>9, <3>3, <3>4
    <3> DEFINE pair == <<StartOf(bars, e, config), e.candle>>
    <3>6. pair[1] = StartOf(bars, e, config) /\ pair[2] = e.candle
      OBVIOUS
    <3> HIDE DEF pair, all
    <3>7. pair \in Blocks(bars, p, e.direction)
      BY <2>2 DEF pair
    <3> QED
      BY <3>4, <3>5, <3>6, <3>7 DEF ClosedThrough
  <2> QED
    BY <2>2, <2>3
<1>11. ASSUME NEW d \in Directions, NEW pair \in Blocks(bars, p, d)
       PROVE  \E e \in all : /\ e.direction = d /\ StartOf(bars, e, config) = pair[1]
                             /\ e.candle <= pair[2]
  <2>1. PICK j \in 1..Len(bars), m \in 1..Len(bars) : pair = <<j, m>>
    BY <1>3
  <2>2. pair[1] = j /\ pair[2] = m /\ j \in Int /\ m \in Int
    BY <2>1
  <2>3. PICK e \in found : /\ e.direction = d /\ e.candle = m
                           /\ Origins(bars, e, config) # {} /\ StartOf(bars, e, config) = j
    <3> HIDE DEF found
    <3> QED
      BY <1>2, <2>1, <2>2
  <2>4. PICK first \in all : /\ first.direction = e.direction /\ first.candle <= e.candle
                             /\ StartOf(bars, first, config) = StartOf(bars, e, config)
    BY <1>1, <2>3, TheFirstConfirms
  <2> QED
    BY <2>2, <2>3, <2>4
<1>12. ASSUME answer.truncated + answer.shortened = 0, NEW d \in Directions
       PROVE  /\ Blocks(bars, p, d) # {} => \E b \in answer.blocks : b.direction = d
              /\ Blocks(bars, p, d) # {} => \E f \in facts : f.family = "order_block_created"
              /\ ClosedThrough(bars, p, d) => \E f \in facts : f.family = Through
  <2>1. answer.truncated = 0
    BY <1>7, <1>12
  <2>2. ASSUME NEW pair \in Blocks(bars, p, d)
        PROVE  /\ \E b \in answer.blocks : b.direction = d
               /\ \E f \in facts : f.family = "order_block_created"
    <3>1. PICK e \in all : e.direction = d
      BY <1>11
    <3>2. CreatedBlock(bars, e, config, tf) \in facts
      BY <1>7, <1>12 DEF OfBlock
    <3>3. CreatedBlock(bars, e, config, tf).family = "order_block_created"
      BY DEF CreatedBlock, Dated
    <3> HIDE DEF answer, facts, all
    <3> QED
      BY <1>8, <2>1, <3>1, <3>2, <3>3
  <2>3. ASSUME ClosedThrough(bars, p, d)
        PROVE  \E f \in facts : f.family = Through
    <3>6. PICK pair \in Blocks(bars, p, d) : \E i \in (pair[2] + 1)..Len(bars) :
            IF d = "bullish" THEN bars[i].close < bars[pair[1]].low ELSE bars[i].close > bars[pair[1]].high
      BY <2>3 DEF ClosedThrough
    <3>7. PICK i \in (pair[2] + 1)..Len(bars) :
            IF d = "bullish" THEN bars[i].close < bars[pair[1]].low ELSE bars[i].close > bars[pair[1]].high
      BY <3>6
    <3>1. PICK e \in all : /\ e.direction = d /\ StartOf(bars, e, config) = pair[1]
                          /\ e.candle <= pair[2]
      BY <1>11
    <3>2. pair[2] \in Int /\ e.candle \in Int
      <4>0. e \in found
        BY <1>5
      <4>1. e.candle \in Int
        <5> HIDE DEF found, all
        <5> QED
          BY <1>4, <4>0
      <4>2. pair[2] \in Int
        BY <1>3
      <4> QED
        BY <4>1, <4>2
    <3>3. i \in (e.candle + 1)..Len(bars)
      BY <1>1, <3>1, <3>2
    <3> DEFINE r == [candle |-> i,
                     kind |-> BlockEvent(bars[i], bars[StartOf(bars, e, config)], e.direction)]
    <3>4. r.kind = Through
      BY <1>9, <3>1, <3>3, <3>7
    <3>5. r \in Visits(bars, e, config)
      BY <3>3, <3>4 DEF Visits
    <3> HIDE DEF r
    <3>8. VisitedBlock(bars, e, config, tf, r) \in facts
      BY <1>7, <1>12, <3>5 DEF OfBlock
    <3>9. VisitedBlock(bars, e, config, tf, r).family = Through
      BY <3>4 DEF VisitedBlock, Dated
    <3> QED
      BY <3>8, <3>9
  <2> QED
    BY <2>2, <2>3
<1>13. facts # {} => \E d \in Directions : Blocks(bars, p, d) # {}
  BY <1>10
<1>14. (\E f \in facts : f.family = Through) => \E d \in Directions : ClosedThrough(bars, p, d)
  BY <1>10
<1>15. \A b \in answer.blocks : b.direction \in Directions /\ Blocks(bars, p, b.direction) # {}
  BY <1>6, <1>8
<1> HIDE DEF answer, facts, all, found, moving, config
<1> QED
  BY <1>7, <1>12, <1>13, <1>14, <1>15 DEF answer, facts, moving, config

-----------------------------------------------------------------------------
(* What is told of levels was done to swings.                              *)

\* There are finitely many swings.
LEMMA PivotsAreFinite ==
  ASSUME NEW tf, NEW bars, History(bars, tf)
  PROVE  IsFiniteSet(Pivots(bars))
<1>0. Len(bars) \in Nat
  BY DEF History
<1> DEFINE space == {"high", "low"} \X (1..Len(bars))
           pivot == [x \in space |-> [side |-> x[1], index |-> x[2],
                       price |-> IF x[1] = "high" THEN bars[x[2]].high ELSE bars[x[2]].low]]
<1>1. IsFiniteSet(space)
  <2>1. IsFiniteSet({"high", "low"})
    BY PairsAreFinite
  <2>2. IsFiniteSet(1..Len(bars))
    BY <1>0, FS_Interval
  <2> QED
    BY <2>1, <2>2, FS_Product
<1>2. \A p \in Pivots(bars) : \E x \in space : p = pivot[x]
  <2>1. ASSUME NEW i \in SwingHighs(bars)
        PROVE  <<"high", i>> \in space
               /\ pivot[<<"high", i>>] = [side |-> "high", index |-> i, price |-> bars[i].high]
    BY <1>0 DEF SwingHighs
  <2>2. ASSUME NEW i \in SwingLows(bars)
        PROVE  <<"low", i>> \in space
               /\ pivot[<<"low", i>>] = [side |-> "low", index |-> i, price |-> bars[i].low]
    BY <1>0 DEF SwingLows
  <2> HIDE DEF space, pivot
  <2> QED
    BY <2>1, <2>2 DEF Pivots
<1> HIDE DEF space, pivot
<1> QED
  BY <1>1, <1>2, ImagesAreFinite

\* The settings of levels.
LevelSettings(config) ==
  /\ config.lookback \in Int /\ config.tolerance \in Nat /\ config.members \in Int
  /\ config.members >= 2 /\ config.reach \in Nat /\ config.maximum \in Nat

\* A swing that a candle could be measured against, as a pivot.
AsPivot(bars, side, s) == [side |-> side, index |-> s, price |-> PriceOf(bars[s], side)]

LEMMA EligibleAreKnown ==
  ASSUME NEW tf, NEW bars, History(bars, tf), NEW config, NEW i \in 1..Len(bars)
  PROVE  LET eligible == Eligible(Pivots(bars), i, config)
         IN  /\ \A p \in eligible : /\ p.side \in {"high", "low"} /\ p.price \in Int /\ p.index \in Int
                                    /\ p.index \in Known(bars, config, p.side, i)
                                    /\ p = AsPivot(bars, p.side, p.index)
             /\ \A side \in {"high", "low"} : \A s \in Known(bars, config, side, i) :
                   AsPivot(bars, side, s) \in eligible
             /\ IsFiniteSet(eligible)
<1> DEFINE eligible == Eligible(Pivots(bars), i, config)
<1>1. ASSUME NEW p \in eligible
      PROVE  /\ p.side \in {"high", "low"} /\ p.price \in Int /\ p.index \in Int
             /\ p.index \in Known(bars, config, p.side, i)
             /\ p = AsPivot(bars, p.side, p.index)
  <2>1. p \in Pivots(bars) /\ p.index >= i - config.lookback /\ p.index + 1 < i
    BY DEF Eligible
  <2>2. p.price \in Int /\ p.index \in Int
    BY <2>1, PivotsAreCounted
  <2>3. CASE \E k \in SwingHighs(bars) : p = [side |-> "high", index |-> k, price |-> bars[k].high]
    BY <2>1, <2>2, <2>3 DEF Known, AsPivot, PriceOf
  <2>4. CASE \E k \in SwingLows(bars) : p = [side |-> "low", index |-> k, price |-> bars[k].low]
    BY <2>1, <2>2, <2>4 DEF Known, AsPivot, PriceOf
  <2> QED
    BY <2>1, <2>3, <2>4 DEF Pivots
<1>2. ASSUME NEW side \in {"high", "low"}, NEW s \in Known(bars, config, side, i)
      PROVE  AsPivot(bars, side, s) \in eligible
  <2>1. AsPivot(bars, side, s) \in Pivots(bars)
    BY DEF Known, AsPivot, PriceOf, Pivots
  <2>2. AsPivot(bars, side, s).index = s /\ s + 1 < i /\ s >= i - config.lookback
    BY DEF AsPivot, Known
  <2>3. s \in Int /\ i \in Int
    BY <2>1, <2>2, PivotsAreCounted
  <2>4. s < i
    BY <2>2, <2>3
  <2> QED
    BY <2>1, <2>2, <2>4 DEF Eligible
<1>3. IsFiniteSet(eligible)
  <2>1. eligible \in SUBSET Pivots(bars)
    BY DEF Eligible
  <2> QED
    BY <2>1, PivotsAreFinite, FS_Subset
<1> QED
  BY <1>1, <1>2, <1>3

\* A level is drawn through swings of one side that lie within the tolerance.
LEMMA LevelsAreNarrow ==
  ASSUME NEW pivots, IsFiniteSet(pivots),
         \A p \in pivots : p.side \in {"high", "low"} /\ p.price \in Int /\ p.index \in Int,
         NEW config, LevelSettings(config), NEW level \in Views(pivots, config)
  PROVE  /\ level.side \in {"high", "low"} /\ level.members # {} /\ IsFiniteSet(level.members)
         /\ \A m \in level.members : m \in pivots /\ m.side = level.side
         /\ \A m \in level.members, k \in level.members : k.price - m.price <= config.tolerance
<1>1. config.tolerance \in Nat
  BY DEF LevelSettings
<1>2. level.members # {}
  BY <1>1, LevelsHaveMembers
<1>3. ASSUME NEW side \in {"high", "low"}, level \in Clusters(pivots, side, config)
      PROVE  /\ level.side \in {"high", "low"}
             /\ \A m \in level.members : m \in pivots /\ m.side = level.side
             /\ \A m \in level.members, k \in level.members : k.price - m.price <= config.tolerance
  <2> DEFINE mine == {p \in pivots : p.side = side}
  <2>1. PICK p \in Starts(mine, config) :
          level = [side |-> side, type |-> "equal_cluster", members |-> Run(mine, p, config)]
    BY <1>3 DEF Clusters
  <2>2. p \in mine
    BY DEF Starts
  <2>3. p \in pivots /\ p.price \in Int
    BY <2>2
  <2>4. \A m \in Run(mine, p, config) :
          /\ m \in mine /\ m.price \in Int /\ p.price <= m.price
          /\ m.price - p.price <= config.tolerance
    BY <1>1, <2>3 DEF Run, Below
  <2>5. \A m \in Run(mine, p, config) : m \in pivots /\ m.side = side
    BY <2>4
  <2>6. level.side = side /\ level.members = Run(mine, p, config)
    BY <2>1
  <2> HIDE DEF mine
  <2>7. \A m \in Run(mine, p, config), k \in Run(mine, p, config) :
           k.price - m.price <= config.tolerance
    BY <1>1, <2>3, <2>4
  <2> QED
    BY <2>5, <2>6, <2>7
<1>4. ASSUME NEW p \in pivots, level = [side |-> p.side, type |-> "swing", members |-> {p}]
      PROVE  /\ level.side \in {"high", "low"}
             /\ \A m \in level.members : m \in pivots /\ m.side = level.side
             /\ \A m \in level.members, k \in level.members : k.price - m.price <= config.tolerance
  BY <1>1, <1>4
<1>5. \/ level \in Clusters(pivots, "high", config) \/ level \in Clusters(pivots, "low", config)
      \/ \E p \in pivots : level = [side |-> p.side, type |-> "swing", members |-> {p}]
  BY DEF Views
<1>6. /\ level.side \in {"high", "low"}
      /\ \A m \in level.members : m \in pivots /\ m.side = level.side
      /\ \A m \in level.members, k \in level.members : k.price - m.price <= config.tolerance
  BY <1>3, <1>4, <1>5
<1>7. IsFiniteSet(level.members)
  <2>1. level.members \in SUBSET pivots
    BY <1>6
  <2> QED
    BY <2>1, FS_Subset
<1> QED
  BY <1>2, <1>6, <1>7

\* Its bounds are those of its lowest swing and of its highest.
LEMMA BoundsAreOfSwings ==
  ASSUME NEW level, level.members # {}, IsFiniteSet(level.members),
         \A m \in level.members : m.price \in Int,
         NEW bars, NEW config, config.reach \in Nat, NEW tf
  PROVE  \E lo \in level.members : \E hi \in level.members :
            /\ \A m \in level.members : lo.price <= m.price /\ m.price <= hi.price
            /\ Boundary(level, bars, config, tf).lower = lo.price - config.reach
            /\ Boundary(level, bars, config, tf).upper = hi.price + config.reach
            /\ Boundary(level, bars, config, tf).side = level.side
<1> DEFINE members == level.members
           r == [m \in members |-> m.price]
           prices == {m.price : m \in members}
<1>1. r \in [members -> Int]
  OBVIOUS
<1>2. \A m \in members : r[m] = m.price
  OBVIOUS
<1> HIDE DEF r
<1>3. PICK lo \in members : \A m \in members : r[lo] <= r[m]
  BY <1>1, LeastIsThere
<1>4. PICK hi \in members : \A m \in members : r[m] <= r[hi]
  BY <1>1, GreatestIsThere
<1>5. \A m \in members : lo.price <= m.price /\ m.price <= hi.price
  BY <1>2, <1>3, <1>4
<1>6. Min(prices) = lo.price /\ Max(prices) = hi.price
  <2>1. prices \subseteq Int /\ lo.price \in prices /\ hi.price \in prices
    OBVIOUS
  <2>2. \A y \in prices : lo.price <= y /\ y <= hi.price
    BY <1>5
  <2> HIDE DEF prices
  <2> QED
    BY <2>1, <2>2, MinIs, MaxIs
<1>7. /\ Boundary(level, bars, config, tf).lower = Min(prices) - config.reach
      /\ Boundary(level, bars, config, tf).upper = Max(prices) + config.reach
      /\ Boundary(level, bars, config, tf).side = level.side
  BY DEF Boundary
<1> HIDE DEF prices, members
<1> QED
  BY <1>5, <1>6, <1>7 DEF members

\* What is recorded happened to a swing, at most the tolerance away from it.
LEMMA RowsAreTaken ==
  ASSUME NEW tf, Duration[tf] \in {1, 2}, NEW bars, History(bars, tf), Priced(bars),
         NEW config, LevelSettings(config), NEW row \in InteractionHistory(bars, config, tf)
  PROVE  PossiblyTaken(EventType(row.kind), bars, config)
<1> DEFINE i == row.candle
           bar == bars[i]
           pivots == Eligible(Pivots(bars), i, config)
<1>1. i \in 1..Len(bars) /\ DOMAIN bars = 1..Len(bars)
  BY RowsAreOfLevels DEF Priced
<1>2. PICK level \in Views(pivots, config) :
        row = [boundary |-> Boundary(level, bars, config, tf), candle |-> i,
               kind |-> InteractionOf(bar, Boundary(level, bars, config, tf))]
  BY RowsAreOfLevels
<1> DEFINE boundary == Boundary(level, bars, config, tf)
           side == level.side
           wick == PriceOf(bar, side)
<1>3. row.kind = InteractionOf(bar, boundary) /\ row.kind # "none"
  BY <1>2 DEF InteractionHistory
<1>4. /\ side \in {"high", "low"} /\ level.members # {} /\ IsFiniteSet(level.members)
      /\ \A m \in level.members : m \in pivots /\ m.side = side
      /\ \A m \in level.members, k \in level.members : k.price - m.price <= config.tolerance
  <2>1. /\ IsFiniteSet(pivots)
        /\ \A p \in pivots : p.side \in {"high", "low"} /\ p.price \in Int /\ p.index \in Int
    BY <1>1, EligibleAreKnown
  <2> HIDE DEF pivots
  <2> QED
    BY <2>1, LevelsAreNarrow
<1>5. \A m \in level.members :
        /\ m.price \in Int /\ m.index \in Known(bars, config, side, i)
        /\ PriceOf(bars[m.index], side) = m.price
  <2> TAKE m \in level.members
  <2>1. m \in pivots /\ m.side = side
    BY <1>4
  <2>2. /\ m.price \in Int /\ m.index \in Known(bars, config, m.side, i)
        /\ m = AsPivot(bars, m.side, m.index)
    BY <1>1, <2>1, EligibleAreKnown
  <2>3. AsPivot(bars, m.side, m.index).price = PriceOf(bars[m.index], m.side)
    BY DEF AsPivot
  <2> QED
    BY <2>1, <2>2, <2>3
<1> HIDE DEF pivots
<1>6. config.reach \in Nat /\ config.tolerance \in Nat
  BY DEF LevelSettings
<1>7. PICK lo \in level.members : \E hi \in level.members :
        /\ \A m \in level.members : lo.price <= m.price /\ m.price <= hi.price
        /\ boundary.lower = lo.price - config.reach
        /\ boundary.upper = hi.price + config.reach
        /\ boundary.side = side
  BY <1>4, <1>5, <1>6, BoundsAreOfSwings
<1>8. PICK hi \in level.members :
        /\ \A m \in level.members : lo.price <= m.price /\ m.price <= hi.price
        /\ boundary.lower = lo.price - config.reach
        /\ boundary.upper = hi.price + config.reach
        /\ boundary.side = side
  BY <1>7
<1>9. /\ bar.high \in Int /\ bar.low \in Int /\ bar.close \in Int
      /\ wick \in Int /\ wick = IF side = "high" THEN bar.high ELSE bar.low
  <2>1. bar.high \in Int /\ bar.low \in Int /\ bar.close \in Int
    BY <1>1, BodiesAreInside
  <2> QED
    BY <2>1 DEF PriceOf
<1>10. /\ lo.price \in Int /\ hi.price \in Int /\ lo.price <= hi.price
       /\ hi.price - lo.price <= config.tolerance
  BY <1>4, <1>5, <1>8
<1> DEFINE Out(price) == IF side = "high" THEN price > boundary.upper ELSE price < boundary.lower
           within == boundary.lower <= wick /\ wick <= boundary.upper
           nearest == IF side = "high" THEN hi.price ELSE lo.price
           does(m) == Does(EventType(row.kind), bar, side, m.price, config.reach, config.tolerance)
<1>11. row.kind = IF Out(bar.close) THEN "closed_beyond"
                  ELSE IF Out(wick) THEN "breached"
                  ELSE IF wick \in boundary.lower..boundary.upper THEN "touched" ELSE "none"
  BY <1>3, <1>8, <1>9 DEF InteractionOf
<1>12. ASSUME NEW m \in level.members, does(m)
       PROVE  PossiblyTaken(EventType(row.kind), bars, config)
  <2>1. m.index \in Known(bars, config, side, i) /\ PriceOf(bars[m.index], side) = m.price
    BY <1>5
  <2>2. Does(EventType(row.kind), bars[i], side, PriceOf(bars[m.index], side), config.reach,
             config.tolerance)
    BY <1>12, <2>1
  <2> QED
    BY <1>1, <1>4, <2>1, <2>2 DEF PossiblyTaken
<1>13. \E m \in level.members : does(m)
  <2> DEFINE price == nearest
             Past(x) == IF side = "high" THEN x - price ELSE price - x
  <2>1. price \in Int /\ (\A x \in Int : Out(x) <=> Past(x) > config.reach)
    <3>1. CASE side = "high"
      BY <1>6, <1>8, <1>10, <3>1
    <3>2. CASE side # "high"
      BY <1>6, <1>8, <1>10, <3>2
    <3> QED
      BY <3>1, <3>2
  <2>2. \E m \in level.members : m.price = price
    OBVIOUS
  <2>3. CASE row.kind = "closed_beyond"
    <3>1. Past(bar.close) > config.reach
      BY <1>9, <1>11, <2>1, <2>3
    <3>2. EventType(row.kind) = "liquidity_close_beyond"
      BY <2>3 DEF EventType
    <3>3. Does("liquidity_close_beyond", bar, side, price, config.reach, config.tolerance)
      <4> HIDE DEF price
      <4> QED
        BY <3>1 DEF Does
    <3> HIDE DEF price
    <3> QED
      BY <2>2, <3>2, <3>3
  <2>4. CASE row.kind = "breached"
    <3>1. Past(wick) > config.reach /\ ~(Past(bar.close) > config.reach)
      BY <1>9, <1>11, <2>1, <2>4
    <3>2. EventType(row.kind) = "liquidity_sweep"
      BY <2>4 DEF EventType
    <3>4. Past(bar.close) \in Int
      BY <1>9, <2>1
    <3>3. Does("liquidity_sweep", bar, side, price, config.reach, config.tolerance)
      <4> HIDE DEF price
      <4>1. Past(bar.close) <= config.reach + config.tolerance
        BY <1>6, <3>1, <3>4
      <4> QED
        BY <3>1, <4>1 DEF Does
    <3> HIDE DEF price
    <3> QED
      BY <2>2, <3>2, <3>3
  <2>5. CASE row.kind = "touched"
    <3>1. boundary.lower <= wick /\ wick <= boundary.upper
      BY <1>6, <1>8, <1>9, <1>10, <1>11, <2>5
    <3>2. EventType(row.kind) = "liquidity_touch"
      BY <2>5 DEF EventType
    <3>3. Distance(wick, lo.price) <= config.reach + config.tolerance
      <4> HIDE DEF boundary, wick
      <4> QED
        BY <1>6, <1>8, <1>9, <1>10, <3>1 DEF Distance
    <3>4. does(lo)
      BY <3>2, <3>3 DEF Does
    <3> QED
      BY <3>4
  <2>6. row.kind \in {"closed_beyond", "breached", "touched"}
    BY <1>3, <1>11
  <2> QED
    BY <2>3, <2>4, <2>5, <2>6
<1> QED
  BY <1>12, <1>13

\* A swing that stands alone is a level of its own, where such levels are drawn.
LEMMA LoneSwingsAreLevels ==
  ASSUME NEW tf, NEW bars, History(bars, tf), NEW config, LevelSettings(config), config.singles,
         NEW i \in 1..Len(bars), NEW side \in {"high", "low"},
         NEW s \in Known(bars, config, side, i), Alone(bars, config, side, i, s)
  PROVE  [side |-> side, type |-> "swing", members |-> {AsPivot(bars, side, s)}]
            \in Views(Eligible(Pivots(bars), i, config), config)
<1> DEFINE pivots == Eligible(Pivots(bars), i, config)
           p == AsPivot(bars, side, s)
<1>1. /\ \A q \in pivots : /\ q.side \in {"high", "low"} /\ q.price \in Int /\ q.index \in Int
                           /\ q.index \in Known(bars, config, q.side, i)
                           /\ q = AsPivot(bars, q.side, q.index)
      /\ p \in pivots /\ IsFiniteSet(pivots)
  BY EligibleAreKnown
<1>2. p.side = side /\ p.index = s /\ p.price = PriceOf(bars[s], side)
  BY DEF AsPivot
<1>3. config.tolerance \in Nat /\ config.members \in Int /\ config.members >= 2
  BY DEF LevelSettings
<1>4. ASSUME NEW q \in pivots, q.side = side, q # p
      PROVE  q.price - p.price > config.tolerance \/ p.price - q.price > config.tolerance
  <2>1. q.index \in Known(bars, config, side, i) /\ q = AsPivot(bars, side, q.index)
    BY <1>1, <1>4
  <2>2. q.index # s
    BY <1>4, <2>1
  <2>3. Distance(PriceOf(bars[q.index], side), PriceOf(bars[s], side)) > config.tolerance
    BY <2>1, <2>2 DEF Alone
  <2>4. PriceOf(bars[q.index], side) = q.price
    <3>1. AsPivot(bars, side, q.index).price = PriceOf(bars[q.index], side)
      BY DEF AsPivot
    <3> QED
      BY <2>1, <3>1
  <2>5. q.price \in Int /\ p.price \in Int
    BY <1>1
  <2>6. Distance(q.price, p.price) > config.tolerance
    BY <1>2, <2>3, <2>4
  <2> HIDE DEF p, pivots
  <2> QED
    BY <1>3, <2>5, <2>6 DEF Distance
<1> HIDE DEF p, pivots
<1>5. ASSUME NEW other \in {"high", "low"}, NEW c \in Clusters(pivots, other, config), p \in c.members
      PROVE  FALSE
  <2> DEFINE mine == {q \in pivots : q.side = other}
  <2>0. PICK start \in Starts(mine, config) :
          c = [side |-> other, type |-> "equal_cluster", members |-> Run(mine, start, config)]
    BY <1>5 DEF Clusters
  <2>1. c.members = Run(mine, start, config)
    BY <2>0
  <2>2. start \in mine /\ Cardinality(Run(mine, start, config)) >= config.members
    BY DEF Starts
  <2>3. p \in mine /\ p.price - start.price <= config.tolerance /\ ~Below(p, start)
    BY <1>5, <2>1 DEF Run
  <2>4. other = side /\ p.price \in Int /\ start.price \in Int /\ start \in pivots /\ start.side = side
    BY <1>1, <1>2, <2>2, <2>3
  <2>5. start = p
    <3>1. start.price <= p.price
      BY <2>3, <2>4 DEF Below
    <3> QED
      BY <1>3, <1>4, <2>3, <2>4, <3>1
  <2>6. \A q \in Run(mine, start, config) : q = p
    <3> SUFFICES ASSUME NEW q \in mine, ~Below(q, start), q.price - start.price <= config.tolerance
                 PROVE  q = p
      BY DEF Run
    <3>1. q \in pivots /\ q.side = side /\ q.price \in Int
      BY <1>1, <2>4
    <3>2. p.price <= q.price
      BY <2>4, <2>5, <3>1 DEF Below
    <3> QED
      BY <1>3, <1>4, <2>4, <2>5, <3>1, <3>2
  <2>7. Cardinality(Run(mine, start, config)) <= 1
    <3> DEFINE run == Run(mine, start, config)
               one == {p}
    <3>1. run \in SUBSET one
      BY <2>6
    <3>2. IsFiniteSet(one) /\ Cardinality(one) = 1
      BY FS_Singleton
    <3> HIDE DEF run, one
    <3>3. Cardinality(run) <= Cardinality(one)
      BY <3>1, <3>2, FS_Subset
    <3> QED
      BY <3>2, <3>3 DEF run
  <2>8. Cardinality(Run(mine, start, config)) \in Nat
    <3>1. mine \in SUBSET pivots
      OBVIOUS
    <3>2. IsFiniteSet(mine)
      BY <1>1, <3>1, FS_Subset
    <3> DEFINE run == Run(mine, start, config)
    <3>3. run \in SUBSET mine
      BY DEF Run
    <3> HIDE DEF run, mine
    <3>4. IsFiniteSet(run)
      BY <3>2, <3>3, FS_Subset
    <3> QED
      BY <3>4, FS_CardinalityType DEF run
  <2> HIDE DEF mine
  <2> QED
    BY <1>3, <2>2, <2>7, <2>8
<1> DEFINE clusters == Clusters(pivots, "high", config) \cup Clusters(pivots, "low", config)
           clustered == UNION {c.members : c \in clusters}
<1>6. p \notin clustered
  BY <1>5
<1>7. Views(pivots, config)
        = clusters \cup {[side |-> q.side, type |-> "swing", members |-> {q}] : q \in pivots \ clustered}
  BY DEF Views
<1> HIDE DEF clusters, clustered
<1>8. [side |-> p.side, type |-> "swing", members |-> {p}] \in Views(pivots, config)
  BY <1>1, <1>6, <1>7
<1> QED
  BY <1>2, <1>8 DEF p, pivots

\* What a candle does to such a swing is recorded.
LEMMA LoneTakingsAreRows ==
  ASSUME NEW tf, Duration[tf] \in {1, 2}, NEW bars, History(bars, tf), Priced(bars),
         NEW config, LevelSettings(config), config.singles,
         NEW family \in Families.events, SurelyTaken(family, bars, config)
  PROVE  \E row \in InteractionHistory(bars, config, tf) : EventType(row.kind) = family
<1>1. PICK side \in {"high", "low"} : \E i \in DOMAIN bars : \E s \in Known(bars, config, side, i) :
        /\ Alone(bars, config, side, i, s)
        /\ Does(family, bars[i], side, PriceOf(bars[s], side), config.reach, 0)
  BY DEF SurelyTaken
<1>2. PICK i \in DOMAIN bars : \E s \in Known(bars, config, side, i) :
        /\ Alone(bars, config, side, i, s)
        /\ Does(family, bars[i], side, PriceOf(bars[s], side), config.reach, 0)
  BY <1>1
<1>3. PICK s \in Known(bars, config, side, i) :
        /\ Alone(bars, config, side, i, s)
        /\ Does(family, bars[i], side, PriceOf(bars[s], side), config.reach, 0)
  BY <1>2
<1>4. i \in 1..Len(bars)
  BY DEF Priced
<1> DEFINE p == AsPivot(bars, side, s)
           members == {p}
           level == [side |-> side, type |-> "swing", members |-> members]
           boundary == Boundary(level, bars, config, tf)
           bar == bars[i]
           price == PriceOf(bars[s], side)
           wick == PriceOf(bar, side)
           kind == InteractionOf(bar, boundary)
<1>5. level \in Views(Eligible(Pivots(bars), i, config), config)
  BY <1>3, <1>4, LoneSwingsAreLevels
<1>6. config.reach \in Nat
  BY DEF LevelSettings
<1>7. p.price = price /\ price \in Int
  <2>1. p.price = price
    BY DEF AsPivot
  <2>2. p \in Eligible(Pivots(bars), i, config) /\ p.price \in Int
    BY <1>4, EligibleAreKnown
  <2> QED
    BY <2>1, <2>2
<1>8. boundary.lower = price - config.reach /\ boundary.upper = price + config.reach
      /\ boundary.side = side
  <2>1. level.members = members /\ level.side = side
    OBVIOUS
  <2>2. IsFiniteSet(members)
    BY FS_Singleton
  <2>3. members # {} /\ \A m \in members : m = p
    OBVIOUS
  <2> HIDE DEF level, members, p
  <2>4. \A m \in level.members : m.price \in Int
    BY <1>7, <2>1, <2>3
  <2>5. PICK lo \in level.members : \E hi \in level.members :
            /\ boundary.lower = lo.price - config.reach
            /\ boundary.upper = hi.price + config.reach
            /\ boundary.side = level.side
    BY <1>6, <2>1, <2>2, <2>3, <2>4, BoundsAreOfSwings
  <2> QED
    BY <1>7, <2>1, <2>3, <2>5
<1>9. /\ bar.high \in Int /\ bar.low \in Int /\ bar.close \in Int
      /\ bar.low <= bar.close /\ bar.close <= bar.high
      /\ wick \in Int /\ wick = IF side = "high" THEN bar.high ELSE bar.low
  <2>1. /\ bar.high \in Int /\ bar.low \in Int /\ bar.close \in Int
        /\ bar.low <= bar.close /\ bar.close <= bar.high
    BY <1>4, BodiesAreInside
  <2> QED
    BY <2>1 DEF PriceOf
<1> DEFINE Past(x) == IF side = "high" THEN x - price ELSE price - x
           Out(x) == IF side = "high" THEN x > boundary.upper ELSE x < boundary.lower
<1> HIDE DEF boundary, bar, price, wick, level
<1>10. \A x \in Int : /\ Past(x) \in Int /\ (Out(x) <=> Past(x) > config.reach)
                      /\ Distance(x, price) <= config.reach
                           <=> boundary.lower <= x /\ x <= boundary.upper
  <2> SUFFICES ASSUME NEW x \in Int
               PROVE  /\ Past(x) \in Int /\ (Out(x) <=> Past(x) > config.reach)
                      /\ Distance(x, price) <= config.reach
                           <=> boundary.lower <= x /\ x <= boundary.upper
    OBVIOUS
  <2>1. Past(x) \in Int /\ (Out(x) <=> Past(x) > config.reach)
    BY <1>6, <1>7, <1>8
  <2>2. Distance(x, price) <= config.reach <=> boundary.lower <= x /\ x <= boundary.upper
    BY <1>6, <1>7, <1>8 DEF Distance
  <2> QED
    BY <2>1, <2>2
<1>11. kind = IF Out(bar.close) THEN "closed_beyond"
              ELSE IF Out(wick) THEN "breached"
              ELSE IF wick \in boundary.lower..boundary.upper THEN "touched" ELSE "none"
  BY <1>8, <1>9 DEF InteractionOf
<1>12. wick \in boundary.lower..boundary.upper <=> boundary.lower <= wick /\ wick <= boundary.upper
  BY <1>6, <1>7, <1>8, <1>9
<1>13. Past(bar.close) <= Past(wick)
  BY <1>7, <1>9
<1>14. EventType(kind) = family /\ kind # "none"
  <2> HIDE DEF kind, Past, Out
  <2>1. CASE family = "liquidity_touch"
    <3>1. Distance(wick, price) <= config.reach + 0
      BY <1>3, <2>1 DEF Does, wick, price, bar
    <3>2. boundary.lower <= wick /\ wick <= boundary.upper
      BY <1>6, <1>9, <1>10, <3>1
    <3>3. ~Out(wick)
      BY <1>6, <1>7, <1>8, <1>9, <3>2 DEF Out
    <3>4. ~Out(bar.close)
      BY <1>6, <1>9, <1>10, <1>13, <3>3
    <3>5. kind = "touched"
      BY <1>11, <1>12, <3>2, <3>3, <3>4
    <3> QED
      BY <2>1, <3>5 DEF EventType
  <2>2. CASE family = "liquidity_sweep"
    <3>1. Past(wick) > config.reach /\ Past(bar.close) <= config.reach + 0
      BY <1>3, <2>2 DEF Does, wick, price, bar, Past
    <3>2. kind = "breached"
      BY <1>6, <1>9, <1>10, <1>11, <3>1
    <3> QED
      BY <2>2, <3>2 DEF EventType
  <2>3. CASE family = "liquidity_close_beyond"
    <3>1. Past(bar.close) > config.reach
      BY <1>3, <2>3 DEF Does, wick, price, bar, Past
    <3>2. kind = "closed_beyond"
      BY <1>9, <1>10, <1>11, <3>1
    <3> QED
      BY <2>3, <3>2 DEF EventType
  <2> QED
    BY <2>1, <2>2, <2>3 DEF Families
<1> DEFINE row == [boundary |-> boundary, candle |-> i, kind |-> kind]
<1>15. row \in InteractionHistory(bars, config, tf)
  <2>1. row.kind # "none" /\ row.kind = kind
    BY <1>14
  <2> HIDE DEF kind
  <2>2. row \in {[boundary |-> b, candle |-> i, kind |-> InteractionOf(bars[i], b)] :
                   b \in {Boundary(l, bars, config, tf) : l \in
                             Views(Eligible(Pivots(bars), i, config), config)}}
    BY <1>5 DEF boundary, bar, kind
  <2> HIDE DEF row
  <2> QED
    BY <2>1, <2>2, <1>14 DEF InteractionHistory
<1> HIDE DEF kind
<1> QED
  BY <1>14, <1>15

\* What is told of levels was done to swings, and everything done to swings that
\* stand alone is told while nothing is left out.
THEOREM EventsAreTrue ==
  ASSUME NEW tf, Duration[tf] \in {1, 2}, NEW bars, History(bars, tf), Priced(bars),
         NEW config, LevelSettings(config), NEW family \in Families.events
  PROVE  LET told == ToldEvents(bars, config, tf)
             tells == \E f \in LiquidityFacts(bars, tf, told) : f.family = family
         IN  /\ tells => PossiblyTaken(family, bars, config)
             /\ told.truncated = 0 /\ told.excluded = 0 /\ config.singles
                  /\ SurelyTaken(family, bars, config) => tells
<1> DEFINE told == ToldEvents(bars, config, tf)
           facts == LiquidityFacts(bars, tf, told)
           rows == InteractionHistory(bars, config, tf)
<1>1. config.tolerance \in Nat /\ config.maximum \in Nat
  BY DEF LevelSettings
<1>2. /\ \A f \in facts : \E row \in rows : f = InteractionFact(row, tf)
      /\ told.truncated = 0 /\ told.excluded = 0 =>
           \A row \in rows : InteractionFact(row, tf) \in facts
  BY <1>1, EventFactsAre
<1>3. \A row : InteractionFact(row, tf).family = EventType(row.kind)
  BY DEF InteractionFact, Dated
<1>4. ASSUME NEW f \in facts, f.family = family
      PROVE  PossiblyTaken(family, bars, config)
  <2>1. PICK row \in rows : f = InteractionFact(row, tf)
    BY <1>2
  <2>2. EventType(row.kind) = family
    BY <1>3, <1>4, <2>1
  <2> QED
    BY <2>2, RowsAreTaken
<1>5. ASSUME told.truncated = 0, told.excluded = 0, config.singles,
             SurelyTaken(family, bars, config)
      PROVE  \E f \in facts : f.family = family
  <2>1. PICK row \in rows : EventType(row.kind) = family
    BY <1>5, LoneTakingsAreRows
  <2> QED
    BY <1>2, <1>3, <1>5, <2>1
<1> HIDE DEF facts, told
<1> QED
  BY <1>4, <1>5 DEF facts, told

-----------------------------------------------------------------------------
(* The range in force, and the structure.                                  *)

\* Swings in time.
Swinging(S) ==
  /\ IsFiniteSet(S)
  /\ \A s \in S : s.type \in {"high", "low"} /\ s.index \in Nat /\ s.price \in Int

InARow(a, b, S) ==
  a.type = b.type /\ \A c \in Between(a, b, S) \cup Between(b, a, S) : c.type = a.type

\* The place of a swing in time.
Place(s) == 2 * s.index + (IF s.type = "high" THEN 0 ELSE 1)

\* Swings are in the order of their places.
LEMMA PlacesAreOrdered ==
  ASSUME NEW S, Swinging(S)
  PROVE  /\ \A a \in S : Place(a) \in Nat
         /\ \A a, b \in S : Earlier(a, b) <=> Place(a) < Place(b)
         /\ \A a, b \in S : Place(a) = Place(b) => a.type = b.type
<1> SUFFICES ASSUME NEW a \in S, NEW b \in S
             PROVE  /\ Place(a) \in Nat
                    /\ Earlier(a, b) <=> Place(a) < Place(b)
                    /\ Place(a) = Place(b) => a.type = b.type
  OBVIOUS
<1>1. /\ a.type \in {"high", "low"} /\ a.index \in Nat
      /\ b.type \in {"high", "low"} /\ b.index \in Nat
  BY DEF Swinging
<1>2. CASE a.type = "high" /\ b.type = "high"
  <2>1. Place(a) = 2 * a.index /\ Place(b) = 2 * b.index
    BY <1>1, <1>2 DEF Place
  <2>2. Earlier(a, b) <=> a.index < b.index
    BY <1>2 DEF Earlier
  <2> QED
    BY <1>1, <1>2, <2>1, <2>2
<1>3. CASE a.type = "high" /\ b.type = "low"
  <2>1. Place(a) = 2 * a.index /\ Place(b) = 2 * b.index + 1
    BY <1>1, <1>3 DEF Place
  <2>2. Earlier(a, b) <=> a.index < b.index \/ a.index = b.index
    BY <1>3 DEF Earlier
  <2> QED
    BY <1>1, <1>3, <2>1, <2>2
<1>4. CASE a.type = "low" /\ b.type = "high"
  <2>1. Place(a) = 2 * a.index + 1 /\ Place(b) = 2 * b.index
    BY <1>1, <1>4 DEF Place
  <2>2. Earlier(a, b) <=> a.index < b.index
    BY <1>4 DEF Earlier
  <2> QED
    BY <1>1, <1>4, <2>1, <2>2
<1>5. CASE a.type = "low" /\ b.type = "low"
  <2>1. Place(a) = 2 * a.index + 1 /\ Place(b) = 2 * b.index + 1
    BY <1>1, <1>5 DEF Place
  <2>2. Earlier(a, b) <=> a.index < b.index
    BY <1>5 DEF Earlier
  <2> QED
    BY <1>1, <1>5, <2>1, <2>2
<1> QED
  BY <1>1, <1>2, <1>3, <1>4, <1>5

\* Swings in a row with one are in a row with each other.
LEMMA RowsGoOn ==
  ASSUME NEW S, Swinging(S), NEW a \in S, NEW r \in S, NEW b \in S,
         InARow(a, r, S), InARow(r, b, S)
  PROVE  InARow(a, b, S)
<1>1. /\ \A s \in S : Place(s) \in Nat
      /\ \A s \in S : \A t \in S : Earlier(s, t) <=> Place(s) < Place(t)
      /\ \A s \in S : \A t \in S : Place(s) = Place(t) => s.type = t.type
  BY PlacesAreOrdered
<1>2. a.type = r.type /\ r.type = b.type
  BY DEF InARow
<1>3. ASSUME NEW c \in S,
             (Earlier(a, c) /\ Earlier(c, b)) \/ (Earlier(b, c) /\ Earlier(c, a))
      PROVE  c.type = a.type
  <2>1. \/ Place(c) = Place(r)
        \/ (Earlier(a, c) /\ Earlier(c, r)) \/ (Earlier(r, c) /\ Earlier(c, a))
        \/ (Earlier(r, c) /\ Earlier(c, b)) \/ (Earlier(b, c) /\ Earlier(c, r))
    BY <1>1, <1>3
  <2>2. CASE Place(c) = Place(r)
    BY <1>1, <1>2, <2>2
  <2>3. CASE (Earlier(a, c) /\ Earlier(c, r)) \/ (Earlier(r, c) /\ Earlier(c, a))
    BY <2>3 DEF InARow, Between
  <2>4. CASE (Earlier(r, c) /\ Earlier(c, b)) \/ (Earlier(b, c) /\ Earlier(c, r))
    BY <1>2, <2>4 DEF InARow, Between
  <2> QED
    BY <2>1, <2>2, <2>3, <2>4
<1> QED
  BY <1>2, <1>3 DEF InARow, Between

\* Of the swings in a row with one, a swing at least as extreme stays.
LEMMA RowsAreKept ==
  ASSUME NEW S, Swinging(S), NEW a \in S
  PROVE  \E r \in Collapse(S) : /\ r.type = a.type
                                /\ a.type = "high" => r.price >= a.price
                                /\ a.type = "low" => r.price <= a.price
<1>1. /\ \A s \in S : Place(s) \in Nat
      /\ \A s \in S : \A t \in S : Earlier(s, t) <=> Place(s) < Place(t)
  BY PlacesAreOrdered
<1>2. \A s \in S : s.type \in {"high", "low"} /\ s.price \in Int
  BY DEF Swinging
<1> DEFINE Worth(s) == IF a.type = "high" THEN s.price ELSE -s.price
           row == {b \in S : InARow(a, b, S)}
           worth == [s \in row |-> Worth(s)]
<1>3. IsFiniteSet(row)
  BY FS_Subset DEF Swinging
<1>4. a \in row
  <2>1. \A c \in S : ~(Earlier(a, c) /\ Earlier(c, a))
    BY <1>1
  <2> QED
    BY <2>1 DEF InARow, Between
<1>5. worth \in [row -> Int]
  BY <1>2
<1>6. \A s \in row : s \in S /\ s.type = a.type /\ worth[s] = Worth(s) /\ Worth(s) \in Int
  BY <1>2 DEF InARow
<1>7. \A s : s \in row <=> s \in S /\ InARow(a, s, S)
  OBVIOUS
<1> HIDE DEF row, worth
<1>8. PICK best \in row : \A s \in row : worth[s] <= worth[best]
  BY <1>3, <1>4, <1>5, GreatestIsThere
<1> DEFINE top == {s \in row : worth[s] = worth[best]}
           place == [s \in top |-> Place(s)]
<1>9. IsFiniteSet(top) /\ best \in top /\ top \subseteq row
  BY <1>3, FS_Subset
<1>10. place \in [top -> Int]
  BY <1>1, <1>6
<1>11. \A s \in top : place[s] = Place(s) /\ worth[s] = worth[best]
  OBVIOUS
<1>12. \A s \in row : worth[s] = worth[best] => s \in top
  OBVIOUS
<1> HIDE DEF top, place
<1>13. PICK r \in top : \A s \in top : place[s] <= place[r]
  BY <1>9, <1>10, GreatestIsThere
<1>14. r \in row /\ r \in S /\ r.type = a.type /\ InARow(a, r, S)
  BY <1>6, <1>7, <1>9
<1>15. ASSUME NEW b \in S, InARow(r, b, S)
       PROVE  /\ ~(IF r.type = "high" THEN b.price > r.price ELSE b.price < r.price)
              /\ ~(b.price = r.price /\ Earlier(r, b))
  <2>1. b \in row
    BY <1>7, <1>14, <1>15, RowsGoOn
  <2>2. Worth(b) <= Worth(r)
    BY <1>6, <1>8, <1>11, <1>14, <2>1
  <2>3. ~(IF r.type = "high" THEN b.price > r.price ELSE b.price < r.price)
    BY <1>2, <1>14, <2>2
  <2>4. ASSUME b.price = r.price
        PROVE  Place(b) <= Place(r)
    <3>1. worth[b] = worth[best]
      BY <1>6, <1>11, <1>14, <2>1, <2>4
    <3>2. b \in top
      BY <1>12, <2>1, <3>1
    <3> QED
      BY <1>11, <1>13, <3>2
  <2>5. b.price = r.price => ~Earlier(r, b)
    BY <1>1, <1>14, <2>4
  <2> QED
    BY <2>3, <2>5
<1>16. r \in Collapse(S)
  BY <1>14, <1>15 DEF Collapse, InARow
<1>17. Worth(a) <= Worth(r)
  BY <1>4, <1>6, <1>8, <1>11, <1>14
<1> QED
  BY <1>2, <1>14, <1>16, <1>17

\* Between swings of different prices there are neighbours of different prices.
LEMMA NeighboursDiffer ==
  ASSUME NEW S, Swinging(S), NEW C, C \subseteq S, NEW a \in C, NEW b \in C,
         Earlier(a, b), a.price # b.price
  PROVE  \E e \in C : \E d \in C : Earlier(e, d) /\ Between(e, d, C) = {} /\ e.price # d.price
<1>1. /\ \A s \in C : Place(s) \in Nat
      /\ \A s \in C : \A t \in C : Earlier(s, t) <=> Place(s) < Place(t)
  BY PlacesAreOrdered
<1> DEFINE other == {Place(c) : c \in {c \in C : Earlier(a, c) /\ c.price # a.price}}
<1>2. other \subseteq Nat /\ other # {}
  BY <1>1
<1>3. PICK p \in other : \A q \in other : p <= q
  BY <1>2, LeastIndex
<1>4. PICK d \in C : p = Place(d) /\ Earlier(a, d) /\ d.price # a.price
  BY <1>3
<1>5. \A c \in C : Earlier(a, c) /\ c.price # a.price => Place(d) <= Place(c)
  BY <1>3, <1>4
<1> DEFINE between == {Place(c) : c \in {c \in C : Earlier(a, c) /\ Earlier(c, d)}}
<1>6. CASE between = {}
  <2>1. Between(a, d, C) = {}
    BY <1>6 DEF Between
  <2> QED
    BY <1>4, <2>1
<1>7. CASE between # {}
  <2>1. between \subseteq Int /\ \A q \in between : q <= Place(d)
    BY <1>1
  <2>2. Place(d) \in Int
    BY <1>1
  <2> HIDE DEF between
  <2>3. Max(between) \in between /\ \A q \in between : q <= Max(between)
    BY <1>7, <2>1, <2>2, GreatestIndex
  <2> USE DEF between
  <2>4. PICK e \in C : Max(between) = Place(e) /\ Earlier(a, e) /\ Earlier(e, d)
    BY <2>3
  <2>5. \A c \in C : Earlier(a, c) /\ Earlier(c, d) => Place(c) <= Place(e)
    BY <2>3, <2>4
  <2> HIDE DEF between
  <2>6. Between(e, d, C) = {}
    BY <1>1, <2>4, <2>5 DEF Between
  <2>7. e.price = a.price
    <3>1. Place(e) < Place(d)
      BY <1>1, <2>4
    <3> QED
      BY <1>1, <1>5, <2>4, <3>1
  <2> QED
    BY <1>4, <2>4, <2>6, <2>7
<1> QED
  BY <1>6, <1>7

RangeOf(pair) ==
  [low |-> Min({pair[1].price, pair[2].price}),
   high |-> Max({pair[1].price, pair[2].price}),
   upward |-> pair[1].type = "low",
   first |-> pair[1].index, second |-> pair[2].index,
   confirmed |-> Max({pair[1].index, pair[2].index}) + 1]

\* The swings of a history have a time and a price.
LEMMA SwingsAreInTime ==
  ASSUME NEW bars \in Seq(Bar)
  PROVE  Swinging(ConfirmedSwings(bars))
<1> DEFINE highs == SwingHighs(bars)
           lows == SwingLows(bars)
           asHigh == [i \in highs |-> [type |-> "high", index |-> i, price |-> bars[i].high]]
           asLow == [i \in lows |-> [type |-> "low", index |-> i, price |-> bars[i].low]]
           higher == {[type |-> "high", index |-> i, price |-> bars[i].high] : i \in highs}
           lower == {[type |-> "low", index |-> i, price |-> bars[i].low] : i \in lows}
<1>1. Len(bars) \in Nat /\ \A k \in 1..Len(bars) : bars[k] \in Bar
  OBVIOUS
<1>2. highs \in SUBSET (1..Len(bars)) /\ lows \in SUBSET (1..Len(bars))
  BY <1>1 DEF SwingHighs, SwingLows
<1> HIDE DEF highs, lows
<1>3. IsFiniteSet(highs) /\ IsFiniteSet(lows)
  <2>1. IsFiniteSet(1..Len(bars))
    BY <1>1, FS_Interval
  <2> QED
    BY <1>2, <2>1, FS_Subset
<1>4. IsFiniteSet(higher)
  <2>1. \A y \in higher : \E x \in highs : y = asHigh[x]
    OBVIOUS
  <2> HIDE DEF higher, asHigh
  <2> QED
    BY <1>3, <2>1, ImagesAreFinite
<1>5. IsFiniteSet(lower)
  <2>1. \A y \in lower : \E x \in lows : y = asLow[x]
    OBVIOUS
  <2> HIDE DEF lower, asLow
  <2> QED
    BY <1>3, <2>1, ImagesAreFinite
<1>6. \A k \in 1..Len(bars) : bars[k].high \in Int /\ bars[k].low \in Int
  BY <1>1 DEF Bar
<1>7. \A s \in higher \cup lower : s.type \in {"high", "low"} /\ s.index \in Nat /\ s.price \in Int
  BY <1>1, <1>2, <1>6
<1>8. ConfirmedSwings(bars) = higher \cup lower
  BY DEF ConfirmedSwings, highs, lows
<1> HIDE DEF higher, lower
<1>9. IsFiniteSet(higher \cup lower)
  BY <1>4, <1>5, FS_Union
<1> QED
  BY <1>7, <1>8, <1>9 DEF Swinging

\* When no range is in force, no swing high is above a swing low.
THEOREM RangesAreTrue ==
  ASSUME NEW bars \in Seq(Bar), NEW maximum \in Nat \ {0},
         RetainedRanges(Ranges(bars), maximum).current = {},
         NEW high \in SwingHighs(bars), NEW low \in SwingLows(bars)
  PROVE  bars[high].high <= bars[low].low
<1> DEFINE S == ConfirmedSwings(bars)
           C == Collapse(S)
           pairs == {p \in C \X C : /\ Earlier(p[1], p[2]) /\ Between(p[1], p[2], C) = {}
                                    /\ p[1].price # p[2].price}
           range == [pair \in pairs |-> RangeOf(pair)]
           ranges == Ranges(bars)
           at == [r \in ranges |-> r.second]
           retained == LatestOf(ranges, at, maximum)
<1>1. ranges = {RangeOf(pair) : pair \in pairs}
  BY DEF Ranges, RangeOf
<1>2. Swinging(S)
  BY SwingsAreInTime
<1>3. C \subseteq S
  BY DEF Collapse
<1> HIDE DEF C
<1>4. IsFiniteSet(C)
  <2>1. C \in SUBSET S /\ IsFiniteSet(S)
    BY <1>2, <1>3 DEF Swinging
  <2> QED
    BY <2>1, FS_Subset
<1>5. IsFiniteSet(pairs)
  <2>1. IsFiniteSet(C \X C)
    BY <1>4, FS_Product
  <2>2. pairs \in SUBSET (C \X C)
    OBVIOUS
  <2> HIDE DEF pairs
  <2> QED
    BY <2>1, <2>2, FS_Subset
<1>6. ASSUME pairs # {}
      PROVE  FALSE
  <2>1. \A p \in pairs : p[2] \in C
    OBVIOUS
  <2> HIDE DEF pairs, S
  <2>10. \A p \in pairs : range[p] = RangeOf(p) /\ RangeOf(p).second = p[2].index
    BY DEF RangeOf
  <2> HIDE DEF range, ranges
  <2>2. \A r \in ranges : \E p \in pairs : r = range[p] /\ r.second = p[2].index
    BY <1>1, <2>10
  <2> USE DEF ranges
  <2>3. \A r \in ranges : at[r] \in Int
    BY <1>2, <1>3, <2>1, <2>2 DEF Swinging
  <2>4. IsFiniteSet(ranges)
    BY <1>5, <2>2, ImagesAreFinite
  <2>5. ranges # {}
    BY <1>1, <1>6
  <2> HIDE DEF at, ranges
  <2>6. retained # {}
    BY <2>3, <2>4, <2>5, SomeAreLatest
  <2>7. retained \in SUBSET ranges
    BY LatestAreMembers
  <2> HIDE DEF retained
  <2>8. IsFiniteSet(retained) /\ \A r \in retained : at[r] \in Int
    BY <2>3, <2>4, <2>7, FS_Subset
  <2>9. LatestOf(retained, at, 1) # {}
    BY <2>6, <2>8, SomeAreLatest
  <2> QED
    BY <2>9 DEF RetainedRanges, retained, ranges, at
<1> DEFINE h == [type |-> "high", index |-> high, price |-> bars[high].high]
           l == [type |-> "low", index |-> low, price |-> bars[low].low]
<1>7. h \in S /\ l \in S
  BY DEF ConfirmedSwings
<1>8. h.type = "high" /\ h.price = bars[high].high /\ l.type = "low" /\ l.price = bars[low].low
  OBVIOUS
<1> HIDE DEF h, l, S
<1>9. PICK top \in C : top.type = "high" /\ top.price >= h.price
  BY <1>2, <1>7, <1>8, RowsAreKept DEF C
<1>10. PICK bottom \in C : bottom.type = "low" /\ bottom.price <= l.price
  BY <1>2, <1>7, <1>8, RowsAreKept DEF C
<1>11. top \in S /\ bottom \in S
  BY <1>3
<1>12. /\ top.price \in Int /\ bottom.price \in Int /\ h.price \in Int /\ l.price \in Int
  BY <1>2, <1>7, <1>11 DEF Swinging
<1>13. top.price = bottom.price
  <2> SUFFICES ASSUME top.price # bottom.price PROVE FALSE
    OBVIOUS
  <2>1. Earlier(top, bottom) \/ Earlier(bottom, top)
    <3>1. /\ Place(top) \in Nat /\ Place(bottom) \in Nat
          /\ Earlier(top, bottom) <=> Place(top) < Place(bottom)
          /\ Earlier(bottom, top) <=> Place(bottom) < Place(top)
          /\ Place(top) # Place(bottom)
      BY <1>2, <1>9, <1>10, <1>11, PlacesAreOrdered
    <3> QED
      BY <3>1
  <2>2. PICK e \in C : \E d \in C : Earlier(e, d) /\ Between(e, d, C) = {} /\ e.price # d.price
    BY <1>2, <1>3, <2>1, NeighboursDiffer
  <2>3. PICK d \in C : Earlier(e, d) /\ Between(e, d, C) = {} /\ e.price # d.price
    BY <2>2
  <2>4. <<e, d>> \in pairs
    BY <2>3
  <2> QED
    BY <1>6, <2>4
<1> QED
  BY <1>8, <1>9, <1>10, <1>12, <1>13

\* The last two swings, when there are two.
LEMMA LastTwo ==
  ASSUME NEW n \in Nat, NEW swings \in SUBSET (1..n)
  PROVE  /\ Cardinality(swings) < 2 =>
               ~\E a \in swings : \E b \in swings : a < b
         /\ ~(Cardinality(swings) < 2) =>
               /\ Latest(swings) \in swings /\ BeforeLatest(swings) \in swings
               /\ \A a \in swings : \A b \in swings :
                     (a < b /\ \A c \in swings : c <= a \/ c = b)
                        <=> a = BeforeLatest(swings) /\ b = Latest(swings)
<1>1. IsFiniteSet(swings) /\ Cardinality(swings) \in Nat
  <2>1. IsFiniteSet(1..n)
    BY FS_Interval
  <2> QED
    BY <2>1, FS_Subset, FS_CardinalityType
<1>4. \A y \in swings : y \in Int /\ y <= n
  OBVIOUS
<1>2. ASSUME Cardinality(swings) < 2, NEW a \in swings, NEW b \in swings, a < b
      PROVE  FALSE
  <2>1. IsFiniteSet(swings \ {a}) /\ Cardinality(swings \ {a}) = Cardinality(swings) - 1
    BY <1>1, FS_RemoveElement
  <2>2. Cardinality(swings \ {a}) = 0
    <3>1. Cardinality(swings \ {a}) \in Nat
      BY <2>1, FS_CardinalityType
    <3> QED
      BY <1>1, <1>2, <2>1, <3>1
  <2>3. swings \ {a} = {}
    BY <2>1, <2>2, FS_EmptySet
  <2> QED
    BY <1>2, <2>3
<1>3. ASSUME ~(Cardinality(swings) < 2)
      PROVE  /\ Latest(swings) \in swings /\ BeforeLatest(swings) \in swings
             /\ \A a \in swings : \A b \in swings :
                   (a < b /\ \A c \in swings : c <= a \/ c = b)
                      <=> a = BeforeLatest(swings) /\ b = Latest(swings)
  <2> DEFINE last == Max(swings)
             rest == swings \ {last}
             next == Max(rest)
  <2>1. swings # {}
    BY <1>1, <1>3, FS_EmptySet
  <2>2. swings \subseteq Int /\ n \in Int /\ \A y \in swings : y <= n
    BY <1>4
  <2>3. last \in swings /\ \A y \in swings : y <= last
    BY <2>1, <2>2, GreatestIndex
  <2> HIDE DEF last
  <2>4. rest # {}
    <3>1. IsFiniteSet(rest) /\ Cardinality(rest) = Cardinality(swings) - 1
      BY <1>1, <2>3, FS_RemoveElement
    <3> HIDE DEF rest
    <3>2. Cardinality(rest) # 0
      BY <1>1, <1>3, <3>1
    <3> QED
      BY <3>2, FS_EmptySet
  <2>5. rest \subseteq Int /\ \A y \in rest : y <= n
    BY <1>4
  <2>6. next \in rest /\ \A y \in rest : y <= next
    <3> HIDE DEF rest
    <3> QED
      BY <2>2, <2>4, <2>5, GreatestIndex
  <2>7. Latest(swings) = last /\ BeforeLatest(swings) = next
    BY DEF Latest, BeforeLatest, last
  <2> HIDE DEF next
  <2>8. next \in swings /\ last \in swings /\ next < last
        /\ \A c \in swings : c <= next \/ c = last
    BY <2>2, <2>3, <2>6
  <2>9. ASSUME NEW a \in swings, NEW b \in swings, a < b, \A c \in swings : c <= a \/ c = b
        PROVE  a = next /\ b = last
    <3>1. b = last
      BY <2>2, <2>3, <2>9
    <3>2. next <= a
      BY <2>2, <2>8, <2>9, <3>1
    <3>3. a <= next
      BY <2>2, <2>8, <2>9, <3>1
    <3> QED
      BY <2>2, <2>8, <3>1, <3>2, <3>3
  <2> QED
    BY <2>7, <2>8, <2>9
<1> QED
  BY <1>2, <1>3

\* The structure is called bullish when the last two swings of both sides rise, and
\* only then.
THEOREM StructureIsTrue ==
  ASSUME NEW bars \in Seq(Bar)
  PROVE  MarketStructureOf(bars).state = "bullish_structure"
            <=> Rising(bars, "high") /\ Rising(bars, "low")
<1> DEFINE highs == SwingHighs(bars)
           lows == SwingLows(bars)
<1>1. Len(bars) \in Nat /\ \A k \in 1..Len(bars) : bars[k].high \in Int /\ bars[k].low \in Int
  <2>1. Len(bars) \in Nat /\ \A k \in 1..Len(bars) : bars[k] \in Bar
    OBVIOUS
  <2> QED
    BY <2>1 DEF Bar
<1>2. highs \in SUBSET (1..Len(bars)) /\ lows \in SUBSET (1..Len(bars))
  BY <1>1 DEF SwingHighs, SwingLows
<1>3. /\ Rising(bars, "high") <=>
           \E a \in highs : \E b \in highs :
              /\ a < b /\ \A c \in highs : c <= a \/ c = b
              /\ bars[a].high < bars[b].high
      /\ Rising(bars, "low") <=>
           \E a \in lows : \E b \in lows :
              /\ a < b /\ \A c \in lows : c <= a \/ c = b
              /\ bars[a].low < bars[b].low
  BY DEF Rising, PriceOf
<1>4. MarketStructureOf(bars).state = Structure(bars, highs, lows).state
  BY DEF MarketStructureOf
<1> HIDE DEF highs, lows
<1>5. CASE Cardinality(highs) < 2 \/ Cardinality(lows) < 2
  <2>1. ~Rising(bars, "high") \/ ~Rising(bars, "low")
    BY <1>1, <1>2, <1>3, <1>5, LastTwo
  <2>2. Structure(bars, highs, lows).state = "unresolved_structure"
    BY <1>5 DEF Structure
  <2> QED
    BY <1>4, <2>1, <2>2
<1>6. CASE ~(Cardinality(highs) < 2) /\ ~(Cardinality(lows) < 2)
  <2>1. Rising(bars, "high") <=> HighRelation(bars, highs) = "HH"
    <3> DEFINE last == Latest(highs)
               next == BeforeLatest(highs)
    <3>1. /\ last \in highs /\ next \in highs
          /\ \A a \in highs : \A b \in highs :
                (a < b /\ \A c \in highs : c <= a \/ c = b) <=> a = next /\ b = last
      BY <1>1, <1>2, <1>6, LastTwo
    <3>2. HighRelation(bars, highs) = "HH" <=> bars[last].high > bars[next].high
      BY DEF HighRelation
    <3> HIDE DEF last, next
    <3>3. Rising(bars, "high") <=> bars[next].high < bars[last].high
      BY <1>3, <3>1
    <3>4. bars[next].high \in Int /\ bars[last].high \in Int
      BY <1>1, <1>2, <3>1
    <3> QED
      BY <3>2, <3>3, <3>4
  <2>2. Rising(bars, "low") <=> LowRelation(bars, lows) = "HL"
    <3> DEFINE last == Latest(lows)
               next == BeforeLatest(lows)
    <3>1. /\ last \in lows /\ next \in lows
          /\ \A a \in lows : \A b \in lows :
                (a < b /\ \A c \in lows : c <= a \/ c = b) <=> a = next /\ b = last
      BY <1>1, <1>2, <1>6, LastTwo
    <3>2. LowRelation(bars, lows) = "HL" <=> bars[last].low > bars[next].low
      BY DEF LowRelation
    <3> HIDE DEF last, next
    <3>3. Rising(bars, "low") <=> bars[next].low < bars[last].low
      BY <1>3, <3>1
    <3>4. bars[next].low \in Int /\ bars[last].low \in Int
      BY <1>1, <1>2, <3>1
    <3> QED
      BY <3>2, <3>3, <3>4
  <2>3. Structure(bars, highs, lows).state = "bullish_structure"
           <=> HighRelation(bars, highs) = "HH" /\ LowRelation(bars, lows) = "HL"
    BY <1>6 DEF Structure
  <2> QED
    BY <1>4, <2>1, <2>2, <2>3
<1> QED
  BY <1>5, <1>6

=============================================================================
