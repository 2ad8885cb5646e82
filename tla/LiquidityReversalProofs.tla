---------------------- MODULE LiquidityReversalProofs ----------------------
(***************************************************************************)
(* Proofs about the replay of setups.  The invariant says of every setup   *)
(* what it is known to have waited for, and of an open one that no window  *)
(* has been missed: boundaries skip neither a completion nor a deadline.   *)
(***************************************************************************)
EXTENDS LiquidityReversal, TLAPS

\* What holds of every setup, open or not.
Known(s) ==
  /\ s.B1 => Bound(s, "E1")
  /\ Bound(s, "R1") => s.B1 /\ s.R1 <= at /\ (s.R1 - Starts["M5"]) % Span["M5"] = 0
  /\ Bound(s, "K1") => s.K1 <= at
  /\ Bound(s, "Q1") => s.Q1 <= at
  /\ s.eligible # None => /\ Bound(s, "Q1") /\ Bound(s, "K1")
                          /\ s.eligible = Later(s.Q1, s.K1)
  /\ Bound(s, "RT1") => s.eligible # None
  /\ s.status # "OPEN" => s.boundary \in Int /\ s.boundary <= at

\* A setup whose stages are in order and in time.
Sound(s) == s \in SetupType /\ Causal(s) /\ InTime(s) /\ Known(s)

\* An open setup has missed nothing: neither a window nor, once it has reacted,
\* the candle that alone can form its gap.
Timely(s) ==
  s.status = "OPEN" =>
    /\ ~Bound(s, "E1") => at <= s.birth + Windows["E1"]
    /\ Bound(s, "E1") /\ ~Bound(s, "R1") => at <= s.E1 + Windows["R1"]
    /\ Bound(s, "R1") /\ ~Bound(s, "K1") => at <= s.R1 + Windows["K1"]
    /\ Bound(s, "R1") /\ ~Bound(s, "Q1") => at <= s.R1 + Span["M5"]
    /\ Bound(s, "Q1") /\ Bound(s, "K1") /\ s.eligible = None => Later(s.Q1, s.K1) = at
    /\ s.eligible # None /\ ~Bound(s, "RT1") => at <= s.eligible + Windows["RT1"]
    /\ Bound(s, "RT1") => at <= s.RT1 + Windows["T1"]

\* Between two boundaries nothing is pending in it.
Clean(s) ==
  s.status = "OPEN" =>
    /\ s.reason = "NONE" /\ s.T1 = None
    /\ Bound(s, "Q1") /\ Bound(s, "K1") => s.eligible # None

\* And when the boundary has been replayed it can still go on.
Resting(s) ==
  s.status = "OPEN" =>
    /\ HasDeadline(s) => at < Deadline(s)
    /\ Bound(s, "R1") /\ ~Bound(s, "Q1") => at < s.R1 + Span["M5"]

\* While the replay goes on, the setup asked for is open or not yet founded.
StillOpen == pc # "reported" /\ AskedIsFounded => Asked.status = "OPEN"

IInv ==
  /\ TypeOK
  /\ \A i \in DOMAIN setups :
       /\ Sound(setups[i])
       /\ pc # "reported" => Timely(setups[i]) /\ Clean(setups[i])
       /\ pc = "boundary" => Resting(setups[i])
  /\ StillOpen /\ ReportIsJustified

-----------------------------------------------------------------------------
(* One stage of a step: what it keeps, and what it establishes *)

\* A setup in the middle of a step.
Pipe(s) ==
  /\ at \in Int /\ s \in SetupType /\ s.status \in {"OPEN", "UNKNOWN"}
  /\ Causal(s) /\ InTime(s) /\ Known(s) /\ Timely(s)

\* t is s, with more stages bound.
Extends(s, t) ==
  /\ t.tuple = s.tuple /\ t.birth = s.birth
  /\ Bound(s, "E1") => t.E1 = s.E1
  /\ Bound(s, "R1") => t.R1 = s.R1
  /\ Bound(s, "K1") => t.K1 = s.K1
  /\ Bound(s, "Q1") => t.Q1 = s.Q1
  /\ s.eligible # None => t.eligible = s.eligible
  /\ Bound(s, "RT1") => t.RT1 = s.RT1

\* Once the one candle that can form the gap is gone without it, the setup is
\* lost.
GapDecided(s) ==
  s.status = "OPEN" /\ Bound(s, "R1") /\ ~Bound(s, "Q1")
    => at < s.R1 + Span["M5"] \/ s.reason # "NONE"

\* And a gap is eligible as soon as it can be.
Decided(s) ==
  /\ GapDecided(s)
  /\ s.status = "OPEN" /\ Bound(s, "Q1") /\ Bound(s, "K1") => s.eligible # None

\* The durations that occur below are positive.
LEMMA Durations ==
  /\ \A tf \in {"M15", "M5", "M1"} : Span[tf] \in Int /\ Span[tf] > 0 /\ Starts[tf] \in Int
  /\ \A stage \in WindowStages : Windows[stage] \in Int /\ Windows[stage] > 0
  /\ None \notin Int
BY DefinitionIsNormal DEF Timeframes, WindowStages

\* The same setup, but for its outcome.
Same(s, t) ==
  /\ t.tuple = s.tuple /\ t.birth = s.birth
  /\ t.E1 = s.E1 /\ t.B1 = s.B1 /\ t.R1 = s.R1 /\ t.K1 = s.K1 /\ t.Q1 = s.Q1
  /\ t.eligible = s.eligible /\ t.RT1 = s.RT1 /\ t.T1 = s.T1

\* Evidence that is missing ends a setup and keeps all it had bound.
LEMMA UnknownKeeps ==
  ASSUME NEW s, Pipe(s), NEW reason \in Reasons
  PROVE  Pipe(Unknown(s, reason)) /\ Extends(s, Unknown(s, reason)) /\ Decided(Unknown(s, reason))
<1> DEFINE t == Unknown(s, reason)
<1>1. t \in SetupType
  BY DEF Pipe, Unknown, SetupType, Statuses, Moment
<1>2. t.status = "UNKNOWN" /\ t.boundary = at /\ Same(s, t)
  BY DEF Pipe, Unknown, SetupType, Same
<1> HIDE DEF t
<1>3. Pipe(t) /\ Extends(s, t) /\ Decided(t)
  BY <1>1, <1>2, Durations
  DEF Pipe, Same, Extends, Decided, GapDecided, Causal, InTime, Known, Timely, Bound, Later
<1> QED BY <1>3 DEF t

\* So does an invalidation.
LEMMA InvalidKeeps ==
  ASSUME NEW s, Pipe(s), NEW reason \in Reasons
  PROVE  /\ Pipe(Invalid(s, reason)) /\ Extends(s, Invalid(s, reason))
         /\ GapDecided(s) => GapDecided(Invalid(s, reason))
         /\ Decided(s) => Decided(Invalid(s, reason))
<1> DEFINE t == Invalid(s, reason)
<1>1. t \in SetupType
  BY DEF Pipe, Invalid, SetupType
<1>2. t.status = s.status /\ t.boundary = s.boundary /\ Same(s, t) /\ (t.reason = "NONE" => s.reason = "NONE")
  BY DEF Pipe, Invalid, SetupType, Same
<1> HIDE DEF t
<1>3. Pipe(t) /\ Extends(s, t) /\ (GapDecided(s) => GapDecided(t)) /\ (Decided(s) => Decided(t))
  BY <1>1, <1>2, Durations
  DEF Pipe, Same, Extends, Decided, GapDecided, Causal, InTime, Known, Timely, Bound, Later
<1> QED BY <1>3 DEF t

LEMMA ExtendsIsTransitive ==
  ASSUME NEW s, NEW t, NEW u, Extends(s, t), Extends(t, u)
  PROVE  Extends(s, u)
BY DEF Extends, Bound

LEMMA ExtendsItself == ASSUME NEW s PROVE Extends(s, s)
BY DEF Extends

\* What the proofs use of the evidence about one setup.
OwnEvidence(own) ==
  own.h1 \in {"CLEAR", "CA1_CLOSE_THROUGH", "P1_CLOSE_THROUGH"} /\ own.pivot \in BOOLEAN

LEMMA ContextKeeps ==
  ASSUME NEW s, Pipe(s), NEW own, OwnEvidence(own)
  PROVE  Pipe(Context(s, own)) /\ Extends(s, Context(s, own))
<1> DEFINE opposed == IF h4 = "OPPOSITE" THEN Invalid(s, "OPPOSITE_H4") ELSE s
<1>1. Pipe(opposed) /\ Extends(s, opposed)
  <2>1. Pipe(Invalid(s, "OPPOSITE_H4")) /\ Extends(s, Invalid(s, "OPPOSITE_H4"))
    BY InvalidKeeps DEF Reasons
  <2> QED BY <2>1, ExtendsItself
<1>2. ASSUME own.h1 # "CLEAR"
      PROVE  Pipe(Invalid(opposed, own.h1)) /\ Extends(s, Invalid(opposed, own.h1))
  BY <1>1, <1>2, InvalidKeeps, ExtendsIsTransitive DEF OwnEvidence, Reasons
<1>3. Pipe(Unknown(s, "UNRESOLVED_H4")) /\ Extends(s, Unknown(s, "UNRESOLVED_H4"))
  BY UnknownKeeps DEF Reasons
<1> QED BY <1>1, <1>2, <1>3 DEF Context

LEMMA SweptKeeps ==
  ASSUME NEW s, Pipe(s), NEW own, OwnEvidence(own)
  PROVE  Pipe(Swept(s, own)) /\ Extends(s, Swept(s, own))
<1> DEFINE swept == [s EXCEPT !.E1 = at, !.B1 = own.pivot]
<1>1. ASSUME s.status = "OPEN", ~Bound(s, "E1"), at - Span["M15"] >= s.birth
      PROVE  Pipe(swept) /\ Extends(s, swept)
  <2>1. swept \in SetupType
    BY DEF Pipe, SetupType, OwnEvidence, Moment
  <2>2. /\ swept.E1 = at /\ swept.B1 = own.pivot /\ swept.tuple = s.tuple /\ swept.birth = s.birth
        /\ swept.status = s.status /\ swept.R1 = s.R1 /\ swept.K1 = s.K1 /\ swept.Q1 = s.Q1
        /\ swept.eligible = s.eligible /\ swept.RT1 = s.RT1 /\ swept.T1 = s.T1
    BY DEF Pipe, SetupType
  <2> HIDE DEF swept
  <2> QED
    BY <1>1, <2>1, <2>2, Durations
    DEF Pipe, Extends, Causal, InTime, Known, Timely, Bound, Later, WindowStages, SetupType, Moment
<1>2. ASSUME s.status = "OPEN", ~Bound(s, "E1"), at - Span["M15"] >= s.birth
      PROVE  /\ Pipe(Invalid(swept, "ABSENT_PRE_E1_B1"))
             /\ Extends(s, Invalid(swept, "ABSENT_PRE_E1_B1"))
  BY <1>1, <1>2, InvalidKeeps, ExtendsIsTransitive DEF Reasons
<1>3. Pipe(Invalid(s, "L1_CLOSE_BEFORE_SWEEP")) /\ Extends(s, Invalid(s, "L1_CLOSE_BEFORE_SWEEP"))
  BY InvalidKeeps DEF Reasons
<1>4. ASSUME own.m15 \in {"L1_CONTINUITY_UNPROVEN", "TRUNCATED_E1_EVIDENCE"}
      PROVE  Pipe(Unknown(s, own.m15)) /\ Extends(s, Unknown(s, own.m15))
  BY <1>4, UnknownKeeps DEF Reasons
<1>5. /\ Pipe(Unknown(s, "E1_SELECTION_ORDER_UNPROVEN"))
      /\ Extends(s, Unknown(s, "E1_SELECTION_ORDER_UNPROVEN"))
  BY UnknownKeeps DEF Reasons
<1>6. s.birth \in Int /\ at \in Int /\ Span["M15"] \in Int
  BY Durations DEF Pipe, SetupType
<1> QED
  <2>1. at - Span["M15"] < s.birth \/ at - Span["M15"] >= s.birth
    BY <1>6
  <2> HIDE DEF swept
  <2> QED
    BY <1>1, <1>2, <1>3, <1>4, <1>5, <1>6, <2>1, ExtendsItself DEF Swept, swept

LEMMA ReactedKeeps ==
  ASSUME NEW s, Pipe(s), NEW facts
  PROVE  Pipe(Reacted(s, facts)) /\ Extends(s, Reacted(s, facts))
<1> DEFINE reacted == [s EXCEPT !.R1 = at]
<1>1. ASSUME s.status = "OPEN", s.B1, ~Bound(s, "R1"), Completes("M5"), at - Span["M5"] >= s.E1
      PROVE  Pipe(reacted) /\ Extends(s, reacted)
  <2>1. reacted \in SetupType
    BY DEF Pipe, SetupType, Moment
  <2>2. /\ reacted.R1 = at /\ reacted.E1 = s.E1 /\ reacted.B1 = s.B1 /\ reacted.tuple = s.tuple
        /\ reacted.birth = s.birth /\ reacted.status = s.status /\ reacted.K1 = s.K1
        /\ reacted.Q1 = s.Q1 /\ reacted.eligible = s.eligible /\ reacted.RT1 = s.RT1
        /\ reacted.T1 = s.T1
    BY DEF Pipe, SetupType
  <2> HIDE DEF reacted
  <2> QED
    BY <1>1, <2>1, <2>2, Durations
    DEF Pipe, Extends, Causal, InTime, Known, Timely, Bound, Later, WindowStages, SetupType, Moment,
        Completes
<1>2. /\ Pipe(Unknown(s, "DISPLACEMENT_BASELINE"))
      /\ Extends(s, Unknown(s, "DISPLACEMENT_BASELINE"))
  BY UnknownKeeps DEF Reasons
<1> HIDE DEF reacted
<1> QED BY <1>1, <1>2, ExtendsItself DEF Reacted, reacted

LEMMA BrokenKeeps ==
  ASSUME NEW s, Pipe(s), NEW own
  PROVE  Pipe(Broken(s, own)) /\ Extends(s, Broken(s, own))
<1> DEFINE broken == [s EXCEPT !.K1 = at]
<1>1. ASSUME BreaksNow(s, own)
      PROVE  Pipe(broken) /\ Extends(s, broken)
  <2>1. broken \in SetupType
    BY DEF Pipe, SetupType, Moment
  <2>2. /\ broken.K1 = at /\ broken.E1 = s.E1 /\ broken.B1 = s.B1 /\ broken.tuple = s.tuple
        /\ broken.birth = s.birth /\ broken.status = s.status /\ broken.R1 = s.R1
        /\ broken.Q1 = s.Q1 /\ broken.eligible = s.eligible /\ broken.RT1 = s.RT1
        /\ broken.T1 = s.T1
    BY DEF Pipe, SetupType
  <2>3. s.Q1 # None => Later(s.Q1, at) = at
    BY <1>1, Durations DEF BreaksNow, Pipe, Known, Bound, Later, SetupType, Moment
  <2> HIDE DEF broken
  <2> QED
    BY <1>1, <2>1, <2>2, <2>3, Durations
    DEF BreaksNow, Pipe, Extends, Causal, InTime, Known, Timely, Bound, Later, WindowStages,
        SetupType, Moment
<1> HIDE DEF broken
<1> QED BY <1>1, ExtendsItself DEF Broken, broken

\* The candle after one on a grid is on it.
LEMMA NextOnGrid ==
  ASSUME NEW x \in Int, NEW start \in Int, NEW n \in Nat \ {0}, (x - start) % n = 0
  PROVE  ((x + n) - start) % n = 0
<1>1. PICK k \in Int : x - start = n * k
  BY Z3
<1>2. (x + n) - start = n * (k + 1)
  BY <1>1, Z3
<1>3. \A j \in Int : (n * j) % n = 0
  BY Z3
<1> QED BY <1>2, <1>3

LEMMA FormedKeeps ==
  ASSUME NEW s, Pipe(s), NEW facts
  PROVE  Pipe(Formed(s, facts)) /\ Extends(s, Formed(s, facts)) /\ GapDecided(Formed(s, facts))
<1> DEFINE formed == [s EXCEPT !.Q1 = at]
<1> DEFINE lost == Invalid(s, "ABSENT_FIXED_Q1")
<1>1. ASSUME FormsNow(s)
      PROVE  Pipe(formed) /\ Extends(s, formed) /\ GapDecided(formed)
  <2>1. formed \in SetupType
    BY DEF Pipe, SetupType, Moment
  <2>2. /\ formed.Q1 = at /\ formed.E1 = s.E1 /\ formed.B1 = s.B1 /\ formed.tuple = s.tuple
        /\ formed.birth = s.birth /\ formed.status = s.status /\ formed.R1 = s.R1
        /\ formed.K1 = s.K1 /\ formed.eligible = s.eligible /\ formed.RT1 = s.RT1
        /\ formed.T1 = s.T1
    BY DEF Pipe, SetupType
  <2>3. s.K1 # None => Later(at, s.K1) = at
    BY <1>1, Durations DEF FormsNow, Pipe, Known, Bound, Later, SetupType, Moment
  <2> HIDE DEF formed
  <2> QED
    BY <1>1, <2>1, <2>2, <2>3, Durations
    DEF FormsNow, Pipe, Extends, Causal, InTime, Known, Timely, GapDecided, Bound, Later,
        WindowStages, SetupType, Moment
<1>2. Pipe(lost) /\ Extends(s, lost)
  BY InvalidKeeps DEF Reasons
<1>3. GapDecided(lost)
  BY DEF Invalid, GapDecided, Pipe, SetupType
<1>4. ASSUME ~FormsNow(s)
      PROVE  GapDecided(s)
  <2> SUFFICES ASSUME s.status = "OPEN", Bound(s, "R1"), ~Bound(s, "Q1"), at = s.R1 + Span["M5"]
               PROVE  FALSE
    BY <1>4, Durations DEF GapDecided, Pipe, Timely, SetupType, Moment, Bound
  <2>1. s.R1 \in Int /\ (s.R1 - Starts["M5"]) % Span["M5"] = 0 /\ s.B1
    BY DEF Pipe, Known, SetupType, Moment, Bound
  <2>2. Span["M5"] \in Nat \ {0} /\ Starts["M5"] \in Int
    BY Durations
  <2>3. (at - Starts["M5"]) % Span["M5"] = 0
    BY <2>1, <2>2, NextOnGrid
  <2> QED BY <1>4, <2>1, <2>3 DEF FormsNow, Completes
<1> HIDE DEF formed, lost
<1> QED BY <1>1, <1>2, <1>3, <1>4, ExtendsItself DEF Formed, formed, lost

LEMMA EligibleKeeps ==
  ASSUME NEW s, Pipe(s), GapDecided(s)
  PROVE  Pipe(Eligible(s)) /\ Extends(s, Eligible(s)) /\ Decided(Eligible(s))
<1> DEFINE later == [s EXCEPT !.eligible = Later(s.Q1, s.K1)]
<1>1. ASSUME s.status = "OPEN", Bound(s, "Q1"), Bound(s, "K1"), s.eligible = None
      PROVE  Pipe(later) /\ Extends(s, later) /\ Decided(later)
  <2>1. Later(s.Q1, s.K1) = at
    BY <1>1 DEF Pipe, Timely
  <2>2. later \in SetupType
    BY <2>1 DEF Pipe, SetupType, Moment
  <2>3. /\ later.eligible = at /\ later.E1 = s.E1 /\ later.B1 = s.B1 /\ later.tuple = s.tuple
        /\ later.birth = s.birth /\ later.status = s.status /\ later.R1 = s.R1 /\ later.K1 = s.K1
        /\ later.Q1 = s.Q1 /\ later.RT1 = s.RT1 /\ later.T1 = s.T1 /\ later.reason = s.reason
    BY <2>1 DEF Pipe, SetupType
  <2> HIDE DEF later
  <2> QED
    BY <1>1, <2>1, <2>2, <2>3, Durations
    DEF Pipe, Extends, Causal, InTime, Known, Timely, Decided, GapDecided, Bound,
        WindowStages, SetupType, Moment
<1>2. ASSUME ~(s.status = "OPEN" /\ Bound(s, "Q1") /\ Bound(s, "K1") /\ s.eligible = None)
      PROVE  Decided(s)
  BY <1>2 DEF Decided
<1> HIDE DEF later
<1> QED BY <1>1, <1>2, ExtendsItself DEF Eligible, later

LEMMA ReturnedKeeps ==
  ASSUME NEW s, Pipe(s), Decided(s), NEW own
  PROVE  Pipe(Returned(s, own)) /\ Extends(s, Returned(s, own)) /\ Decided(Returned(s, own))
<1> DEFINE returned == [s EXCEPT !.RT1 = at]
           filled == IF ~OpensEligible(s) /\ own.q \in {"FULL", "THROUGH", "BEYOND"}
                     THEN Invalid(s, "PRE_ELIGIBILITY_FULL_FILL") ELSE s
           unknown == Unknown(s, "RT1_INVALIDATION_ORDER_UNPROVEN")
           closed == Invalid(filled, "Q1_CLOSE_THROUGH")
<1>1. ASSUME AsksForReturn(s), ReturnsNow(s, own)
      PROVE  Pipe(returned) /\ Extends(s, returned) /\ Decided(returned)
  <2>1. returned \in SetupType
    BY DEF Pipe, SetupType, Moment
  <2>2. /\ returned.RT1 = at /\ returned.E1 = s.E1 /\ returned.B1 = s.B1 /\ returned.tuple = s.tuple
        /\ returned.birth = s.birth /\ returned.status = s.status /\ returned.R1 = s.R1
        /\ returned.K1 = s.K1 /\ returned.Q1 = s.Q1 /\ returned.eligible = s.eligible
        /\ returned.T1 = s.T1 /\ returned.reason = s.reason
    BY DEF Pipe, SetupType
  <2> HIDE DEF returned
  <2> QED
    BY <1>1, <2>1, <2>2, Durations
    DEF AsksForReturn, ReturnsNow, OpensEligible, Pipe, Extends, Causal, InTime, Known, Timely,
        Decided, GapDecided, Bound, WindowStages, SetupType, Moment
<1>2. Pipe(filled) /\ Extends(s, filled) /\ Decided(filled)
  <2>1. LET t == Invalid(s, "PRE_ELIGIBILITY_FULL_FILL")
        IN  Pipe(t) /\ Extends(s, t) /\ Decided(t)
    BY InvalidKeeps DEF Reasons
  <2> QED BY <2>1, ExtendsItself
<1>3. Pipe(closed) /\ Extends(s, closed) /\ Decided(closed)
  <2> HIDE DEF filled
  <2>1. Pipe(closed) /\ Extends(filled, closed) /\ Decided(closed)
    BY <1>2, InvalidKeeps DEF Reasons
  <2> QED BY <1>2, <2>1, ExtendsIsTransitive
<1>4. Pipe(unknown) /\ Extends(s, unknown) /\ Decided(unknown)
  BY UnknownKeeps DEF Reasons
<1>5. Returned(s, own) \in {s, returned, filled, closed, unknown}
  BY DEF Returned
<1>6. Returned(s, own) = returned =>
        \/ AsksForReturn(s) /\ ReturnsNow(s, own)
        \/ returned \in {s, filled, closed, unknown}
  BY DEF Returned
<1> HIDE DEF returned, filled, closed, unknown
<1> QED BY <1>1, <1>2, <1>3, <1>4, <1>5, <1>6, ExtendsItself

LEMMA TriggeredKeeps ==
  ASSUME NEW s, Pipe(s), Decided(s), NEW facts
  PROVE  /\ Pipe(Triggered(s, facts)) /\ Extends(s, Triggered(s, facts))
         /\ Decided(Triggered(s, facts))
<1> DEFINE triggered == [s EXCEPT !.T1 = at]
<1>1. ASSUME s.status = "OPEN", Bound(s, "RT1"), at - Span["M1"] >= s.RT1
      PROVE  Pipe(triggered) /\ Extends(s, triggered) /\ Decided(triggered)
  <2>1. triggered \in SetupType
    BY DEF Pipe, SetupType, Moment
  <2>2. /\ triggered.T1 = at /\ triggered.E1 = s.E1 /\ triggered.B1 = s.B1
        /\ triggered.tuple = s.tuple /\ triggered.birth = s.birth /\ triggered.status = s.status
        /\ triggered.R1 = s.R1 /\ triggered.K1 = s.K1 /\ triggered.Q1 = s.Q1
        /\ triggered.eligible = s.eligible /\ triggered.RT1 = s.RT1 /\ triggered.reason = s.reason
    BY DEF Pipe, SetupType
  <2> HIDE DEF triggered
  <2> QED
    BY <1>1, <2>1, <2>2, Durations
    DEF Pipe, Extends, Causal, InTime, Known, Timely, Decided, GapDecided, Bound,
        WindowStages, SetupType, Moment
<1>2. LET t == Unknown(s, "DISPLACEMENT_BASELINE")
      IN  Pipe(t) /\ Extends(s, t) /\ Decided(t)
  BY UnknownKeeps DEF Reasons
<1> HIDE DEF triggered
<1> QED BY <1>1, <1>2, ExtendsItself DEF Triggered, triggered

\* The end of a window is a time, and belongs to a stage.
LEMMA DeadlineIsTime ==
  ASSUME NEW s \in SetupType, HasDeadline(s),
         Bound(s, "Q1") /\ Bound(s, "K1") => s.eligible # None
  PROVE  Deadline(s) \in Int /\ Waiting(s)[1] \in WindowStages
BY Durations DEF SetupType, Moment, HasDeadline, Deadline, Waiting, Bound, WindowStages

\* An expired setup keeps all it had bound, within its windows.
LEMMA ExpiredKeeps ==
  ASSUME NEW s \in SetupType, Causal(s), InTime(s), HasDeadline(s),
         Bound(s, "Q1") /\ Bound(s, "K1") => s.eligible # None
  PROVE  /\ Expired(s) \in SetupType /\ Same(s, Expired(s))
         /\ Expired(s).status = "EXPIRED" /\ Expired(s).boundary = Deadline(s)
         /\ Causal(Expired(s)) /\ InTime(Expired(s))
<1> DEFINE expired == Expired(s)
<1>1. Deadline(s) \in Int /\ Waiting(s)[1] \in WindowStages
  BY DeadlineIsTime
<1>2. expired \in SetupType
  BY <1>1 DEF Expired, SetupType, Statuses, Moment, Reasons
<1>3. /\ expired.status = "EXPIRED" /\ expired.reason = Waiting(s)[1]
      /\ expired.boundary = Deadline(s) /\ Same(s, expired)
  BY DEF Expired, SetupType, Same
<1> HIDE DEF expired
<1>4. Waiting(expired) = Waiting(s)
  BY <1>3 DEF Same, Waiting, Bound
<1>5. Causal(expired) /\ InTime(expired)
  BY <1>3, <1>4 DEF Same, Causal, InTime, Bound, HasDeadline, Deadline
<1> QED BY <1>2, <1>3, <1>5 DEF expired

\* What the end of a step leaves.
LEMMA SettledKeeps ==
  ASSUME NEW s, Pipe(s), Decided(s)
  PROVE  LET t == Settled(s)
         IN  /\ t \in SetupType /\ Causal(t) /\ InTime(t) /\ Known(t) /\ Timely(t)
             /\ Clean(t) /\ Resting(t) /\ Extends(s, t)
<1> DEFINE Fine(t) == /\ t \in SetupType /\ Causal(t) /\ InTime(t) /\ Known(t) /\ Timely(t)
                      /\ Clean(t) /\ Resting(t) /\ Extends(s, t)
<1>1. CASE s.status # "OPEN"
  <2>1. Settled(s) = s
    BY <1>1 DEF Settled
  <2>2. Fine(s)
    BY <1>1, ExtendsItself DEF Pipe, Timely, Clean, Resting
  <2> QED BY <2>1, <2>2
<1>2. CASE s.status = "OPEN" /\ s.reason # "NONE" /\ Bound(s, "T1")
  <2> DEFINE t == Unknown(s, "COMPLETION_INVALIDATION_ORDER_UNPROVEN")
  <2>1. Settled(s) = t
    BY <1>2 DEF Settled
  <2>2. Pipe(t) /\ Extends(s, t)
    BY UnknownKeeps DEF Reasons
  <2>3. t.status = "UNKNOWN"
    BY DEF Unknown, Pipe, SetupType
  <2> HIDE DEF t
  <2>4. Fine(t)
    BY <2>2, <2>3 DEF Pipe, Timely, Clean, Resting
  <2> QED BY <2>1, <2>4
<1>3. CASE s.status = "OPEN" /\ s.reason # "NONE" /\ ~Bound(s, "T1")
  <2> DEFINE t == [s EXCEPT !.status = "INVALIDATED", !.boundary = at]
  <2>1. Settled(s) = t
    BY <1>3 DEF Settled
  <2>2. t \in SetupType
    BY DEF Pipe, SetupType, Statuses, Moment
  <2>3. Same(s, t) /\ t.status = "INVALIDATED" /\ t.boundary = at
    BY DEF Same, Pipe, SetupType
  <2> HIDE DEF t
  <2>4. Fine(t)
    BY <2>2, <2>3 DEF Same, Pipe, Causal, InTime, Known, Timely, Clean, Resting, Extends, Bound
  <2> QED BY <2>1, <2>4
<1>4. CASE s.status = "OPEN" /\ s.reason = "NONE" /\ Bound(s, "T1")
  <2> DEFINE t == [s EXCEPT !.status = "COMPLETE", !.reason = "FIRST_CANONICAL_COMPLETION",
                            !.boundary = at]
  <2>1. Settled(s) = t
    BY <1>4 DEF Settled
  <2>2. t \in SetupType
    BY DEF Pipe, SetupType, Statuses, Moment, Reasons
  <2>3. Same(s, t) /\ t.status = "COMPLETE" /\ t.boundary = at
    BY DEF Same, Pipe, SetupType
  <2> HIDE DEF t
  <2>4. Fine(t)
    BY <2>2, <2>3 DEF Same, Pipe, Causal, InTime, Known, Timely, Clean, Resting, Extends, Bound
  <2> QED BY <2>1, <2>4
<1>5. CASE s.status = "OPEN" /\ s.reason = "NONE" /\ ~Bound(s, "T1") /\ HasDeadline(s)
             /\ at >= Deadline(s)
  <2>1. Settled(s) = Expired(s)
    BY <1>5 DEF Settled
  <2>2. Deadline(s) \in Int
    BY <1>5, DeadlineIsTime DEF Pipe, Decided
  <2>3. /\ Expired(s) \in SetupType /\ Same(s, Expired(s)) /\ Expired(s).status = "EXPIRED"
        /\ Expired(s).boundary = Deadline(s) /\ Causal(Expired(s)) /\ InTime(Expired(s))
    BY <1>5, ExpiredKeeps DEF Pipe, Decided
  <2>4. Fine(Expired(s))
    BY <1>5, <2>2, <2>3 DEF Same, Pipe, Known, Timely, Clean, Resting, Extends, Bound
  <2> QED BY <2>1, <2>4
<1>6. CASE s.status = "OPEN" /\ s.reason = "NONE" /\ ~Bound(s, "T1")
             /\ ~(HasDeadline(s) /\ at >= Deadline(s))
  <2>1. Settled(s) = s
    BY <1>6 DEF Settled
  <2>2. HasDeadline(s) => at < Deadline(s)
    BY <1>6, DeadlineIsTime DEF Pipe, Decided
  <2>3. Clean(s) /\ Resting(s) /\ Extends(s, s)
    BY <1>6, <2>2, ExtendsItself DEF Decided, GapDecided, Clean, Resting, Bound
  <2> QED BY <2>1, <2>3 DEF Pipe
<1> QED BY <1>1, <1>2, <1>3, <1>4, <1>5, <1>6

-----------------------------------------------------------------------------
(* Steps *)

LEMMA SteppedKeeps ==
  ASSUME at \in Int, NEW s, Sound(s), Timely(s), Clean(s), s.status = "OPEN",
         NEW facts, NEW own, OwnEvidence(own)
  PROVE  LET t == Stepped(s, facts, own)
         IN  Sound(t) /\ Timely(t) /\ Clean(t) /\ Resting(t) /\ Extends(s, t)
<1> DEFINE context == Context(s, own)
           swept == Swept(context, own)
           reacted == Reacted(swept, facts)
           broken == Broken(reacted, own)
           formed == Formed(broken, facts)
           eligible == Eligible(formed)
           returned == Returned(eligible, own)
           triggered == Triggered(returned, facts)
<1>1. Pipe(s)
  BY DEF Pipe, Sound
<1> HIDE DEF context, swept, reacted, broken, formed, eligible, returned, triggered
<1>2. Pipe(context) /\ Extends(s, context)
  BY <1>1, ContextKeeps DEF context
<1>3. Pipe(swept) /\ Extends(s, swept)
  BY <1>2, SweptKeeps, ExtendsIsTransitive DEF swept
<1>4. Pipe(reacted) /\ Extends(s, reacted)
  BY <1>3, ReactedKeeps, ExtendsIsTransitive DEF reacted
<1>5. Pipe(broken) /\ Extends(s, broken)
  BY <1>4, BrokenKeeps, ExtendsIsTransitive DEF broken
<1>6. Pipe(formed) /\ Extends(s, formed) /\ GapDecided(formed)
  BY <1>5, FormedKeeps, ExtendsIsTransitive DEF formed
<1>7. Pipe(eligible) /\ Extends(s, eligible) /\ Decided(eligible)
  BY <1>6, EligibleKeeps, ExtendsIsTransitive DEF eligible
<1>8. Pipe(returned) /\ Extends(s, returned) /\ Decided(returned)
  BY <1>7, ReturnedKeeps, ExtendsIsTransitive DEF returned
<1>9. Pipe(triggered) /\ Extends(s, triggered) /\ Decided(triggered)
  BY <1>8, TriggeredKeeps, ExtendsIsTransitive DEF triggered
<1>10. Stepped(s, facts, own) = Settled(triggered)
  BY DEF Stepped, triggered, returned, eligible, formed, broken, reacted, swept, context
<1> QED BY <1>9, <1>10, SettledKeeps, ExtendsIsTransitive DEF Sound

LEMMA OwnFactsAreEvidence ==
  ASSUME NEW s, NEW own \in OwnFacts(s)
  PROVE  OwnEvidence(own)
BY DEF OwnFacts, OwnEvidence

\* All setups advance at once: none is added, and each keeps its tuple.
LEMMA AllAdvance ==
  ASSUME TypeOK, requested' = requested, setups' = [i \in DOMAIN setups |-> setups'[i]],
         \A i \in DOMAIN setups : setups'[i] \in SetupType /\ setups'[i].tuple = setups[i].tuple
  PROVE  /\ setups' \in Seq(SetupType) /\ Len(setups') <= requested'
         /\ DOMAIN setups' = DOMAIN setups
         /\ \A i, j \in DOMAIN setups' : setups'[i].tuple = setups'[j].tuple => i = j
<1>1. setups \in Seq(SetupType) /\ Len(setups) \in Nat /\ DOMAIN setups = 1..Len(setups)
  BY DEF TypeOK
<1>2. setups' \in [1..Len(setups) -> SetupType]
  BY <1>1
<1>3. setups' \in Seq(SetupType) /\ Len(setups') = Len(setups)
  BY <1>1, <1>2
<1> QED BY <1>1, <1>3 DEF TypeOK

\* The replay either goes on, or reports the outcome of the setup asked for.
LEMMA ReportOrJustifies ==
  ASSUME TypeOK, now' = now, requested' = requested, NEW next \in {"found", "boundary"},
         ReportOr(next), setups' \in Seq(SetupType),
         \A i \in DOMAIN setups' :
            setups'[i].status # "OPEN" => setups'[i].boundary \in Int /\ setups'[i].boundary <= now
  PROVE  /\ pc' \in {"boundary", "found", "step", "reported"}
         /\ pc' \in {next, "reported"}
         /\ report' \in Reports
         /\ StillOpen' /\ ReportIsJustified'
<1>1. CASE requested \in DOMAIN setups' /\ setups'[requested].status # "OPEN"
  <2>1. setups'[requested] \in SetupType
    BY <1>1
  <2>2. pc' = "reported" /\ report' = Outcome(setups'[requested])
    BY <1>1 DEF ReportOr
  <2> QED
    BY <1>1, <2>1, <2>2
    DEF Outcome, Reports, SetupType, StillOpen, ReportIsJustified, AskedIsFounded, Asked
<1>2. CASE ~(requested \in DOMAIN setups' /\ setups'[requested].status # "OPEN")
  BY <1>2 DEF ReportOr, TypeOK, StillOpen, ReportIsJustified, AskedIsFounded, Asked
<1> QED BY <1>1, <1>2

\* The clock of the replay.
LEMMA AtIsTime == ASSUME TypeOK PROVE at \in Int /\ now \in Int /\ FoundingStart \in Int
BY DefinitionIsNormal DEF TypeOK

\* Before the first boundary there is no setup.
LEMMA InitIsSound == Init => IInv
<1> SUFFICES ASSUME Init PROVE IInv
  OBVIOUS
<1>1. setups = <<>> /\ DOMAIN setups = {} /\ Len(setups) = 0 /\ setups \in Seq(SetupType)
  BY DEF Init
<1>2. requested \in Nat /\ requested >= 1 /\ now \in Int /\ now >= FoundingStart
  BY DefinitionIsNormal DEF Init
<1>3. TypeOK
  BY <1>1, <1>2, DefinitionIsNormal DEF Init, TypeOK, Reports, Statuses, Moment, Reasons
<1>4. StillOpen /\ ReportIsJustified
  BY <1>1 DEF Init, StillOpen, AskedIsFounded, ReportIsJustified
<1> QED BY <1>1, <1>3, <1>4 DEF IInv

\* A boundary is one of the instants of the replay, and nothing that completes
\* lies between two of them: no setup misses a window or the candle of its gap.
LEMMA OverdueOfOne ==
  ASSUME IInv, NextBoundary, NEW i \in DOMAIN setups
  PROVE  /\ Sound(setups[i])' /\ Timely(setups[i])' /\ Clean(setups[i])'
         /\ Same(setups[i], setups'[i])
         /\ setups[i].status # "OPEN" => setups'[i] = setups[i]
<1>1. at \in Int /\ now \in Int /\ FoundingStart \in Int /\ at >= FoundingStart /\ at <= now
  BY AtIsTime DEF IInv, TypeOK
<1>2. PICK t \in Boundaries :
        /\ t > at /\ \A u \in Boundaries : u > at => t <= u
        /\ at' = t
        /\ setups' = [j \in DOMAIN setups |-> Overdue(setups[j], t)]
        /\ h4' \in IF (t - Starts["H4"]) % Span["H4"] = 0
                   THEN {"SAME", "OPPOSITE", "UNRESOLVED"} ELSE {h4}
  BY DEF NextBoundary
<1>3. t \in FoundingStart..now /\ t > at
  BY <1>1, <1>2 DEF Boundaries
<1> DEFINE Kept == /\ Sound(setups[i])' /\ Timely(setups[i])' /\ Clean(setups[i])'
                   /\ Same(setups[i], setups'[i])
                   /\ setups[i].status # "OPEN" => setups'[i] = setups[i]
<1>4. Kept
  <2> DEFINE s == setups[i]
  <2>1. Sound(s) /\ Timely(s) /\ Clean(s) /\ Resting(s)
    BY DEF IInv, NextBoundary
  <2>2. setups'[i] = Overdue(s, t)
    BY <1>2
  <2> HIDE DEF s
  <2>3. CASE s.status = "OPEN" /\ HasDeadline(s) /\ Deadline(s) < t
    <3>1. Overdue(s, t) = Expired(s)
      BY <2>3 DEF Overdue
    <3>2. Deadline(s) \in Int
      BY <2>1, <2>3, DeadlineIsTime DEF Sound, Clean
    <3>3. /\ Expired(s) \in SetupType /\ Same(s, Expired(s)) /\ Expired(s).status = "EXPIRED"
          /\ Expired(s).boundary = Deadline(s) /\ Causal(Expired(s)) /\ InTime(Expired(s))
      BY <2>1, <2>3, ExpiredKeeps DEF Sound, Clean
    <3> DEFINE e == Expired(s)
    <3>4. setups'[i] = e
      BY <2>2, <3>1
    <3> HIDE DEF e
    <3>5. Known(setups[i])'
      BY <1>1, <1>2, <1>3, <2>1, <2>3, <3>2, <3>3, <3>4
      DEF e, Sound, Same, Known, Bound, SetupType, Moment
    <3>6. Same(setups[i], setups'[i]) /\ setups[i].status = "OPEN"
      BY <2>3, <3>3, <3>4 DEF s, e
    <3>7. Sound(setups[i])' /\ Timely(setups[i])' /\ Clean(setups[i])'
      BY <2>1, <3>3, <3>4, <3>5 DEF s, e, Sound, Same, Timely, Clean
    <3> QED BY <3>6, <3>7
  <2>4. CASE s.status # "OPEN"
    <3>1. setups'[i] = s
      BY <2>2, <2>4 DEF Overdue
    <3>2. Known(s)'
      BY <1>1, <1>2, <1>3, <2>1, <3>1 DEF s, Sound, Known, Bound, SetupType, Moment
    <3>3. Sound(setups[i])' /\ Timely(setups[i])' /\ Clean(setups[i])'
      BY <2>1, <2>4, <3>1, <3>2 DEF s, Sound, Timely, Clean
    <3>4. Same(setups[i], setups'[i])
      BY <3>1 DEF s, Same
    <3> QED BY <3>1, <3>3, <3>4 DEF s
  <2>5. CASE s.status = "OPEN" /\ ~(HasDeadline(s) /\ Deadline(s) < t)
    <3>1. setups'[i] = s
      BY <2>2, <2>5 DEF Overdue
    <3>2. HasDeadline(s) => t <= Deadline(s)
      BY <1>3, <2>1, <2>5, DeadlineIsTime DEF Sound, Clean
    <3>3. Bound(s, "R1") /\ ~Bound(s, "Q1") => t <= s.R1 + Span["M5"]
      <4> SUFFICES ASSUME Bound(s, "R1"), ~Bound(s, "Q1"), t > s.R1 + Span["M5"]
                   PROVE  FALSE
        BY <1>3, <2>1, Durations DEF Sound, SetupType, Moment, Bound
      <4>1. s.R1 \in Int /\ (s.R1 - Starts["M5"]) % Span["M5"] = 0
        BY <2>1 DEF Sound, Known, SetupType, Moment, Bound
      <4>2. Span["M5"] \in Nat \ {0} /\ Starts["M5"] \in Int
        BY Durations
      <4>3. ((s.R1 + Span["M5"]) - Starts["M5"]) % Span["M5"] = 0
        BY <4>1, <4>2, NextOnGrid
      <4>4. s.R1 + Span["M5"] \in FoundingStart..now /\ s.R1 + Span["M5"] > at
        BY <1>1, <1>3, <2>1, <2>5, <4>1, <4>2 DEF Resting
      <4>5. s.R1 + Span["M5"] \in Boundaries
        <5> DEFINE u == s.R1 + Span["M5"]
        <5>1. (u - Starts["M5"]) % Span["M5"] = 0 /\ u \in FoundingStart..now
          BY <4>3, <4>4
        <5> HIDE DEF u
        <5>2. u \in Boundaries
          BY <5>1 DEF Boundaries, Timeframes
        <5> QED BY <5>2 DEF u
      <4> QED BY <1>2, <1>3, <4>1, <4>2, <4>4, <4>5
    <3>4. Timely(s)'
      BY <1>2, <1>3, <2>1, <3>1, <3>2, <3>3, Durations
      DEF s, Timely, Clean, HasDeadline, Deadline, Waiting, Bound, Sound, Causal, Known, SetupType,
          Moment
    <3>5. Sound(setups[i])' /\ Clean(setups[i])'
      BY <1>1, <1>2, <1>3, <2>1, <2>5, <3>1
      DEF s, Sound, Known, Clean, Bound, SetupType, Moment
    <3>6. Same(setups[i], setups'[i])
      BY <3>1 DEF s, Same
    <3> QED BY <3>1, <3>4, <3>5, <3>6 DEF s
  <2> QED BY <2>3, <2>4, <2>5
<1> QED BY <1>4

\* So the next boundary is reached with all setups as they should be.
LEMMA NextBoundaryKeeps == IInv /\ NextBoundary => IInv'
<1> SUFFICES ASSUME IInv, NextBoundary PROVE IInv'
  OBVIOUS
<1>1. at \in Int /\ now \in Int /\ FoundingStart \in Int /\ at >= FoundingStart /\ at <= now
  BY AtIsTime DEF IInv, TypeOK
<1>2. PICK t \in Boundaries :
        /\ t > at /\ \A u \in Boundaries : u > at => t <= u
        /\ at' = t
        /\ setups' = [i \in DOMAIN setups |-> Overdue(setups[i], t)]
        /\ h4' \in IF (t - Starts["H4"]) % Span["H4"] = 0
                   THEN {"SAME", "OPPOSITE", "UNRESOLVED"} ELSE {h4}
  BY DEF NextBoundary
<1>3. t \in FoundingStart..now /\ t > at
  BY <1>1, <1>2 DEF Boundaries
<1>4. \A i \in DOMAIN setups :
        /\ Sound(setups[i])' /\ Timely(setups[i])' /\ Clean(setups[i])'
        /\ setups'[i].tuple = setups[i].tuple
  BY OverdueOfOne DEF Same
<1>5. /\ setups' \in Seq(SetupType) /\ Len(setups') <= requested'
      /\ DOMAIN setups' = DOMAIN setups
      /\ \A i, j \in DOMAIN setups' : setups'[i].tuple = setups'[j].tuple => i = j
  BY <1>2, <1>4, AllAdvance DEF IInv, NextBoundary, Sound
<1>6. \A i \in DOMAIN setups' :
         setups'[i].status # "OPEN" => setups'[i].boundary \in Int /\ setups'[i].boundary <= now
  BY <1>1, <1>2, <1>3, <1>4, <1>5 DEF Sound, Known
<1>7. /\ pc' \in {"found", "reported"} /\ StillOpen' /\ ReportIsJustified'
      /\ report' \in Reports
  BY <1>5, <1>6, ReportOrJustifies DEF IInv, NextBoundary
<1>8. TypeOK'
  BY <1>2, <1>3, <1>5, <1>7 DEF IInv, TypeOK, NextBoundary
<1> QED BY <1>4, <1>5, <1>7, <1>8 DEF IInv

\* What happens at a boundary happens to every open setup and to no other.
LEMMA StepOfOne ==
  ASSUME IInv, StepSetups, NEW i \in DOMAIN setups
  PROVE  /\ Sound(setups[i])' /\ Timely(setups[i])' /\ Clean(setups[i])' /\ Resting(setups[i])'
         /\ Extends(setups[i], setups'[i])
         /\ setups[i].status # "OPEN" => setups'[i] = setups[i]
<1>1. at \in Int /\ now \in Int /\ at <= now /\ at' = at
  BY AtIsTime DEF IInv, TypeOK, StepSetups
<1>2. PICK facts, own :
        /\ setups' = [j \in DOMAIN setups |->
                        IF setups[j].status = "OPEN" THEN Stepped(setups[j], facts, own[j])
                        ELSE setups[j]]
        /\ \A j \in DOMAIN setups : own[j] \in OwnFacts(setups[j])
  BY DEF StepSetups
<1> DEFINE Kept ==
      /\ Sound(setups[i])' /\ Timely(setups[i])' /\ Clean(setups[i])' /\ Resting(setups[i])'
      /\ Extends(setups[i], setups'[i])
      /\ setups[i].status # "OPEN" => setups'[i] = setups[i]
<1>3. Kept
  <2> DEFINE s == setups[i]
             t == Stepped(s, facts, own[i])
  <2>1. Sound(s) /\ Timely(s) /\ Clean(s)
    BY DEF IInv, StepSetups
  <2>2. setups'[i] = IF s.status = "OPEN" THEN t ELSE s
    BY <1>2
  <2>3. OwnEvidence(own[i])
    BY <1>2, OwnFactsAreEvidence
  <2> HIDE DEF s, t
  <2>4. CASE s.status = "OPEN"
    <3>1. Sound(t) /\ Timely(t) /\ Clean(t) /\ Resting(t) /\ Extends(s, t)
      BY <1>1, <2>1, <2>3, <2>4, SteppedKeeps DEF t
    <3>2. setups'[i] = t
      BY <2>2, <2>4
    <3>3. Sound(setups[i])' /\ Timely(setups[i])' /\ Clean(setups[i])' /\ Resting(setups[i])'
      BY <1>1, <3>1, <3>2 DEF Sound, Known, Timely, Clean, Resting
    <3>4. Extends(setups[i], setups'[i])
      BY <3>1, <3>2 DEF s
    <3> QED BY <2>4, <3>3, <3>4 DEF s
  <2>5. CASE s.status # "OPEN"
    <3>1. setups'[i] = s
      BY <2>2, <2>5
    <3>2. Extends(setups[i], setups'[i])
      BY <3>1, ExtendsItself DEF s
    <3> QED
      BY <1>1, <2>1, <2>5, <3>1, <3>2 DEF s, Sound, Known, Timely, Clean, Resting
  <2> QED BY <2>4, <2>5
<1> QED BY <1>3

\* So every setup leaves the boundary as it should be.
LEMMA StepSetupsKeeps == IInv /\ StepSetups => IInv'
<1> SUFFICES ASSUME IInv, StepSetups PROVE IInv'
  OBVIOUS
<1>1. at \in Int /\ now \in Int /\ at <= now /\ at' = at
  BY AtIsTime DEF IInv, TypeOK, StepSetups
<1>2. setups' = [i \in DOMAIN setups |-> setups'[i]]
  BY DEF StepSetups
<1>3. \A i \in DOMAIN setups :
        /\ Sound(setups[i])' /\ Timely(setups[i])' /\ Clean(setups[i])' /\ Resting(setups[i])'
        /\ setups'[i].tuple = setups[i].tuple
  BY StepOfOne DEF Extends
<1>4. /\ setups' \in Seq(SetupType) /\ Len(setups') <= requested'
      /\ DOMAIN setups' = DOMAIN setups
      /\ \A i, j \in DOMAIN setups' : setups'[i].tuple = setups'[j].tuple => i = j
  BY <1>2, <1>3, AllAdvance DEF IInv, StepSetups, Sound
<1>5. \A i \in DOMAIN setups' :
         setups'[i].status # "OPEN" => setups'[i].boundary \in Int /\ setups'[i].boundary <= now
  <2> SUFFICES ASSUME NEW i \in DOMAIN setups', setups'[i].status # "OPEN"
               PROVE  setups'[i].boundary \in Int /\ setups'[i].boundary <= now
    OBVIOUS
  <2>1. Known(setups[i])'
    BY <1>3, <1>4 DEF Sound
  <2>2. setups'[i].boundary \in Int /\ setups'[i].boundary <= at
    BY <1>1, <2>1 DEF Known
  <2> QED BY <1>1, <2>2
<1>6. /\ pc' \in {"boundary", "reported"} /\ StillOpen' /\ ReportIsJustified'
      /\ report' \in Reports
  BY <1>4, <1>5, ReportOrJustifies DEF IInv, StepSetups
<1>7. TypeOK'
  BY <1>4, <1>6 DEF IInv, TypeOK, StepSetups
<1> QED BY <1>3, <1>4, <1>6, <1>7 DEF IInv

\* A setup founded now is open, has bound nothing and has all its time.
LEMMA FoundKeeps == IInv /\ Found => IInv'
<1> SUFFICES ASSUME IInv, Found PROVE IInv'
  OBVIOUS
<1>1. at \in Int /\ at' = at
  BY AtIsTime DEF IInv, Found
<1>2. PICK tuple \in Tuples : Free(tuple) /\ setups' = Append(setups, Birth(tuple))
  BY DEF Found
<1> DEFINE born == Birth(tuple)
<1>3. /\ born \in SetupType /\ born.tuple = tuple /\ born.birth = at /\ born.status = "OPEN"
      /\ born.reason = "NONE" /\ born.E1 = None /\ born.B1 = FALSE /\ born.R1 = None
      /\ born.K1 = None /\ born.Q1 = None /\ born.eligible = None /\ born.RT1 = None
      /\ born.T1 = None
  BY <1>1 DEF Birth, SetupType, Statuses, Reasons, Moment
<1>4. Sound(born) /\ Timely(born) /\ Clean(born)
  <2> HIDE DEF born
  <2> QED
    BY <1>1, <1>3, Durations
    DEF Sound, Causal, InTime, Known, Timely, Clean, Bound, WindowStages
<1> HIDE DEF born
<1>5. setups \in Seq(SetupType) /\ Len(setups) \in Nat /\ DOMAIN setups = 1..Len(setups)
  BY DEF IInv, TypeOK
<1>6. /\ setups' \in Seq(SetupType) /\ Len(setups') = Len(setups) + 1
      /\ DOMAIN setups' = 1..(Len(setups) + 1)
      /\ \A i \in DOMAIN setups : setups'[i] = setups[i]
      /\ setups'[Len(setups) + 1] = born
  BY <1>2, <1>3, <1>5 DEF born
<1>7. ASSUME NEW i \in DOMAIN setups'
      PROVE  Sound(setups[i])' /\ Timely(setups[i])' /\ Clean(setups[i])'
  <2>1. CASE i \in DOMAIN setups
    <3>1. Sound(setups[i]) /\ Timely(setups[i]) /\ Clean(setups[i]) /\ setups'[i] = setups[i]
      BY <1>6, <2>1 DEF IInv, Found
    <3> QED BY <1>1, <3>1 DEF Sound, Known, Timely, Clean
  <2>2. CASE i = Len(setups) + 1
    BY <1>1, <1>4, <1>6, <2>2 DEF Sound, Known, Timely, Clean
  <2> QED BY <1>5, <1>6, <1>7, <2>1, <2>2
<1>8. \A i, j \in DOMAIN setups' : setups'[i].tuple = setups'[j].tuple => i = j
  <2>1. \A i, j \in DOMAIN setups : setups[i].tuple = setups[j].tuple => i = j
    BY DEF IInv, TypeOK
  <2>2. \A i \in DOMAIN setups : setups[i].tuple # tuple
    BY <1>2 DEF Free
  <2> QED BY <1>3, <1>5, <1>6, <2>1, <2>2
<1>9. requested \in Nat /\ Len(setups) + 1 <= requested
  BY <1>5, DefinitionIsNormal DEF Found, Founding, IInv, TypeOK
<1>10. TypeOK'
  BY <1>6, <1>8, <1>9 DEF IInv, TypeOK, Found
<1>11. StillOpen' /\ ReportIsJustified'
  <2>1. ASSUME requested \in DOMAIN setups' PROVE setups'[requested].status = "OPEN"
    BY <1>3, <1>5, <1>6, <1>9, <2>1
  <2> QED BY <2>1 DEF Found, StillOpen, ReportIsJustified, AskedIsFounded, Asked
<1> QED BY <1>7, <1>10, <1>11 DEF IInv, Found

\* The replay is over only after the as-of instant, and then nothing is overdue.
LEMMA WaitsKeeps == IInv /\ Waits => IInv'
<1> SUFFICES ASSUME IInv, Waits PROVE IInv'
  OBVIOUS
<1>1. at \in Int /\ now \in Int /\ at <= now
  BY AtIsTime DEF IInv, TypeOK
<1>2. now \in Boundaries
  BY DEF Boundaries
<1>3. at = now
  BY <1>1, <1>2 DEF Waits
<1>4. /\ pc = "boundary" /\ pc' = "reported" /\ report'[1] = "WAITING" /\ setups' = setups
      /\ requested' = requested /\ now' = now
      /\ report' \in Reports
  BY <1>1 DEF Waits, Reports, Moment
<1>5. TypeOK'
  BY <1>4 DEF IInv, TypeOK, Waits
<1>6. \A i \in DOMAIN setups : Sound(setups[i])'
  BY <1>4 DEF IInv, Waits, Sound, Known
<1>7. ReportIsJustified'
  <2>1. AskedIsFounded => Asked.status = "OPEN" /\ Resting(Asked)
    BY <1>4 DEF IInv, StillOpen, Asked, AskedIsFounded
  <2>2. AskedIsFounded => (HasDeadline(Asked) => now < Deadline(Asked))
    BY <1>3, <2>1 DEF Resting
  <2> QED BY <1>4, <2>1, <2>2 DEF ReportIsJustified, Asked, AskedIsFounded
<1> QED BY <1>4, <1>5, <1>6, <1>7 DEF IInv, StillOpen

\* A report that nothing can be known needs no more, and when nothing is founded
\* the setups are as they were.
LEMMA RestKeeps ==
  IInv /\ (CoverageMissing \/ NothingFounded \/ FoundingUnknown \/ UNCHANGED vars) => IInv'
<1> SUFFICES ASSUME IInv, CoverageMissing \/ NothingFounded \/ FoundingUnknown \/ UNCHANGED vars
             PROVE  IInv'
  OBVIOUS
<1>1. CASE CoverageMissing \/ FoundingUnknown
  <2>1. /\ pc' = "reported" /\ report'[1] = "UNKNOWN" /\ setups' = setups /\ at' = at
        /\ requested' = requested /\ now' = now /\ h4' = h4
        /\ report' \in Reports
    BY <1>1, AtIsTime DEF IInv, CoverageMissing, FoundingUnknown, Reports, Statuses, Moment
  <2>2. TypeOK' /\ ReportIsJustified'
    BY <2>1 DEF IInv, TypeOK, ReportIsJustified
  <2>3. \A i \in DOMAIN setups : Sound(setups[i])'
    BY <2>1 DEF IInv, Sound, Known
  <2> QED BY <2>1, <2>2, <2>3 DEF IInv, StillOpen
<1>2. CASE NothingFounded
  <2>1. /\ pc = "found" /\ pc' = "step" /\ setups' = setups /\ at' = at /\ report' = report
        /\ requested' = requested /\ now' = now /\ h4' = h4
    BY <1>2 DEF NothingFounded
  <2>2. TypeOK' /\ ReportIsJustified' /\ StillOpen'
    BY <2>1 DEF IInv, TypeOK, ReportIsJustified, StillOpen, AskedIsFounded, Asked
  <2>3. \A i \in DOMAIN setups : Sound(setups[i])' /\ Timely(setups[i])' /\ Clean(setups[i])'
    BY <2>1 DEF IInv, Sound, Known, Timely, Clean
  <2> QED BY <2>1, <2>2, <2>3 DEF IInv
<1>3. CASE UNCHANGED vars
  BY <1>3 DEF vars, IInv, TypeOK, Sound, Known, Timely, Clean, Resting, StillOpen, AskedIsFounded,
              Asked, ReportIsJustified
<1> QED BY <1>1, <1>2, <1>3

\* The invariant holds of every behaviour of the replay.
THEOREM ReplayIsSound == Spec => []IInv
<1>1. IInv /\ [Next]_vars => IInv'
  BY NextBoundaryKeeps, StepSetupsKeeps, FoundKeeps, WaitsKeeps, RestKeeps DEF Next
<1> QED BY <1>1, InitIsSound, PTL DEF Spec

-----------------------------------------------------------------------------
(* What the replay promises *)

\* The state of a replay is always of its type, and no founding tuple founds
\* two setups.
THEOREM TypeCorrect == Spec => []TypeOK
<1>1. IInv => TypeOK
  BY DEF IInv
<1> QED BY <1>1, ReplayIsSound, PTL

\* No setup binds a stage to a candle that opened before the stage in front of
\* it was known, and none skips a stage, for any clocks and windows.
THEOREM StagesInOrder == Spec => []StagesAreCausal
<1>1. IInv => StagesAreCausal
  BY DEF IInv, StagesAreCausal, Sound
<1> QED BY <1>1, ReplayIsSound, PTL

\* No setup binds a stage after its window, and one that expired did so at the
\* end of the window of the stage it lacks.
THEOREM StagesInTime == Spec => []WithinWindows
<1>1. IInv => WithinWindows
  BY DEF IInv, WithinWindows, Sound
<1> QED BY <1>1, ReplayIsSound, PTL

\* A setup that is still open at the end of a boundary is younger than all its
\* windows together, although one of its stages has no deadline.
THEOREM LivesAreBounded == Spec => []LifeIsBounded
<1>1. ASSUME IInv, NEW i \in DOMAIN setups, pc = "boundary", setups[i].status = "OPEN"
      PROVE  at - setups[i].birth < Lifetime
  <2> DEFINE s == setups[i]
  <2>1. Sound(s) /\ Clean(s) /\ Resting(s) /\ at \in Int
    BY <1>1, AtIsTime DEF IInv
  <2>2. s.status = "OPEN"
    BY <1>1
  <2> HIDE DEF s
  <2>3. at - s.birth < Lifetime
    BY <2>1, <2>2, Durations
    DEF Sound, Clean, Resting, Causal, InTime, Known, HasDeadline, Deadline, Waiting, Bound, Later,
        Lifetime, WindowStages, SetupType, Moment
  <2> QED BY <2>3 DEF s
<1>2. IInv => LifeIsBounded
  BY <1>1 DEF LifeIsBounded
<1> QED BY <1>2, ReplayIsSound, PTL

\* A report that a setup waits is given only of one whose window is still open
\* at the as-of instant, and any other is the outcome the setup has.
THEOREM ReportsAreJustified == Spec => []ReportIsJustified
<1>1. IInv => ReportIsJustified
  BY DEF IInv
<1> QED BY <1>1, ReplayIsSound, PTL

\* What a setup has bound is never bound to another candle, and an outcome is
\* never revised.
THEOREM BindingsStayFixed == Spec => BindingsAreFixed
<1> DEFINE Fixed(i) ==
      /\ i \in DOMAIN setups'
      /\ \A stage \in {"E1", "R1", "K1", "Q1", "eligible", "RT1", "T1"} :
            Bound(setups[i], stage) => setups'[i][stage] = setups[i][stage]
      /\ setups[i].status # "OPEN" => setups'[i] = setups[i]
<1>1. ASSUME IInv, [Next]_vars, NEW i \in DOMAIN setups
      PROVE  Fixed(i)
  <2>1. CASE StepSetups
    <3>1. /\ Extends(setups[i], setups'[i])
          /\ setups[i].status # "OPEN" => setups'[i] = setups[i]
      BY <1>1, <2>1, StepOfOne
    <3>2. i \in DOMAIN setups' /\ (setups[i].status = "OPEN" => setups[i].T1 = None)
      BY <1>1, <2>1 DEF StepSetups, IInv, Clean
    <3> QED BY <3>1, <3>2 DEF Extends, Bound
  <2>2. CASE NextBoundary
    <3>1. /\ Same(setups[i], setups'[i])
          /\ setups[i].status # "OPEN" => setups'[i] = setups[i]
      BY <1>1, <2>2, OverdueOfOne
    <3>2. i \in DOMAIN setups'
      BY <1>1, <2>2 DEF NextBoundary
    <3> QED BY <3>1, <3>2 DEF Same
  <2>3. CASE Found
    <3>1. setups \in Seq(SetupType) /\ Len(setups) \in Nat /\ DOMAIN setups = 1..Len(setups)
      BY <1>1 DEF IInv, TypeOK
    <3>2. PICK tuple \in Tuples : setups' = Append(setups, Birth(tuple))
      BY <2>3 DEF Found
    <3>3. i \in DOMAIN setups' /\ setups'[i] = setups[i]
      BY <1>1, <3>1, <3>2
    <3> QED BY <3>3
  <2>4. CASE CoverageMissing \/ NothingFounded \/ FoundingUnknown \/ Waits \/ UNCHANGED vars
    <3>1. setups' = setups
      BY <2>4 DEF CoverageMissing, NothingFounded, FoundingUnknown, Waits, vars
    <3> QED BY <1>1, <3>1
  <2> QED BY <1>1, <2>1, <2>2, <2>3, <2>4 DEF Next
<1>2. IInv /\ [Next]_vars => \A i \in DOMAIN setups : Fixed(i)
  BY <1>1
<1> QED BY <1>2, ReplayIsSound, PTL DEF Spec, BindingsAreFixed
=============================================================================
